------------------------------ MODULE Traffic -------------------------------
(***************************************************************************)
(* Traffic statistics and the token bucket (vpn/stats.rs), as a             *)
(* PeerTrafficTracker holds them.  A total is an atomic counter and the     *)
(* samples are under a lock, so that recording is two steps; the resets     *)
(* take their locks one after the other, and so does wait_for.  Time is in  *)
(* seconds, rates are whole bytes per second, the bucket holds whole tokens. *)
(***************************************************************************)
EXTENDS Integers, Sequences, SequencesExt, FiniteSetsExt

CONSTANTS
    TrafficUsers,
    RATE_WINDOW,              \* RATE_WINDOW_SECS
    rate_per_sec, bucket_capacity,
    ByteCounts,
    CountMax,                 \* u64::MAX
    MaxTrafficTime, MaxTrafficCalls   \* bounds

ASSUME TrafficAssumption ==
    rate_per_sec \in Nat \ {0} /\ bucket_capacity \in Nat /\ ByteCounts \subseteq Nat

VARIABLES
    total, samples, peak,     \* by direction
    connection_count,
    tokens, last_refill,
    trafficUser,              \* what each thread is doing
    trafficNow, trafficCalls,
    admitted,                 \* history: bytes that callers went on with
    credit,                   \* history: what resets gave again
    overrun                   \* history: bytes of the waits that were disturbed, or hopeless

historyVars == <<admitted, credit, overrun>>

statVars == <<total, samples, peak, connection_count>>
trafficVars == <<statVars, tokens, last_refill, trafficUser, trafficNow, trafficCalls, historyVars>>

Directions == {"tx", "rx"}

\* A thread's call; since, need and disturbed belong to a wait: when it began to sleep,
\* the tokens that it missed, and whether another thread got at the bucket meanwhile.
UserCall(pc, d, n) == [pc |-> pc, dir |-> d, bytes |-> n, since |-> 0, need |-> 0, disturbed |-> FALSE]
UserFree == UserCall("free", "tx", 0)

\* A new RateLimiter is full.
LimiterInit == tokens = bucket_capacity /\ last_refill = 0

TrafficInit ==
    /\ total = [d \in Directions |-> 0]
    /\ samples = [d \in Directions |-> <<>>]
    /\ peak = [d \in Directions |-> 0]
    /\ connection_count = 0
    /\ LimiterInit
    /\ trafficUser = [u \in TrafficUsers |-> UserFree]
    /\ trafficNow = 0 /\ trafficCalls = 0
    /\ admitted = 0 /\ credit = 0 /\ overrun = 0

\* A new call; the bound on their number.
Called(u) ==
    /\ trafficUser[u].pc = "free" /\ trafficCalls < MaxTrafficCalls
    /\ trafficCalls' = trafficCalls + 1

\* calculate_rate
CalculateRate(s) ==
    IF Len(s) < 2 \/ Last(s).at = s[1].at THEN 0
    ELSE FoldFunctionOnSet(+, 0, [i \in DOMAIN s |-> s[i].bytes], DOMAIN s) \div (Last(s).at - s[1].at)

\* cleanup_old_samples
CleanupOldSamples(s) == SelectSeq(s, LAMBDA x : x.at >= trafficNow - RATE_WINDOW)

\* PeerTrafficTracker::record_tx and record_rx: the total first, ...
RecordTotal(u, d, n) ==
    /\ Called(u)
    /\ total' = [total EXCEPT ![d] = @ + n]
    /\ trafficUser' = [trafficUser EXCEPT ![u] = UserCall("sample", d, n)]
    /\ UNCHANGED <<samples, peak, connection_count, tokens, last_refill, trafficNow, historyVars>>

\* ... then, under the lock, the sample and the peak, ...
RecordSample(u) ==
    LET d == trafficUser[u].dir
        s == CleanupOldSamples(Append(samples[d], [at |-> trafficNow, bytes |-> trafficUser[u].bytes]))
    IN  /\ trafficUser[u].pc = "sample"
        /\ samples' = [samples EXCEPT ![d] = s]
        /\ peak' = [peak EXCEPT ![d] = Max({@, CalculateRate(s)})]
        /\ trafficUser' = [trafficUser EXCEPT ![u].pc = "check"]
        /\ UNCHANGED <<total, connection_count, tokens, last_refill, trafficNow, trafficCalls, historyVars>>

\* The tokens after refilling.
Refilled == Min({tokens + (trafficNow - last_refill) * rate_per_sec, bucket_capacity})

\* The wait of every other thread that sleeps is disturbed.
Disturbed(u) ==
    [v \in TrafficUsers |-> IF v # u /\ trafficUser[v].pc = "sleep"
                            THEN [trafficUser[v] EXCEPT !.disturbed = TRUE] ELSE trafficUser[v]]

\* The threads after a check of u for n bytes, when u goes on with call c.
AfterCheck(u, n, c) == [IF Refilled >= n THEN Disturbed(u) ELSE trafficUser EXCEPT ![u] = c]

\* check: the bytes pass if there are tokens for all of them.
Check(n) ==
    /\ tokens' = IF Refilled >= n THEN Refilled - n ELSE Refilled
    /\ last_refill' = trafficNow

\* The caller goes on if check says so.
IfPassed(n) == admitted' = IF Refilled >= n THEN admitted + n ELSE admitted

\* ... then check.
CheckTokens(u) ==
    LET n == trafficUser[u].bytes
    IN  /\ trafficUser[u].pc = "check" /\ Check(n) /\ IfPassed(n)
        /\ trafficUser' = AfterCheck(u, n, UserFree)
        /\ UNCHANGED <<statVars, trafficNow, trafficCalls, credit, overrun>>

\* consume: as many bytes as there are tokens.
ConsumeTokens(u, n) ==
    LET consumed == Min({n, Refilled})
    IN  /\ Called(u)
        /\ tokens' = Refilled - consumed
        /\ admitted' = admitted + consumed
        /\ last_refill' = trafficNow
        /\ trafficUser' = Disturbed(u)
        /\ UNCHANGED <<statVars, trafficNow, credit, overrun>>

\* wait_for: a check, ...
WaitFor(u, n) ==
    /\ Called(u) /\ Check(n) /\ IfPassed(n)
    /\ trafficUser' = AfterCheck(u, n, IF Refilled >= n THEN UserFree ELSE UserCall("wait", "tx", n))
    /\ UNCHANGED <<statVars, trafficNow, credit, overrun>>

\* ... if it fails a look at the tokens, to find out how long to sleep, ...
Sleep(u) ==
    /\ trafficUser[u].pc = "wait"
    /\ trafficUser' = [trafficUser EXCEPT ![u] = [@ EXCEPT !.pc = "sleep", !.since = trafficNow,
                                                          !.need = trafficUser[u].bytes - tokens]]
    /\ UNCHANGED <<statVars, tokens, last_refill, trafficNow, trafficCalls, historyVars>>

\* Mutant of SleptEnough: the sleep is too short.
SleptEnoughShort(c) == TRUE

\* The sleep lasts until the rate has given what was missing, or longer.
SleptEnough(c) == (trafficNow - c.since) * rate_per_sec >= c.need

\* ... and a second check, whose answer is not looked at: the caller goes on.
WaitOver(u) ==
    LET c == trafficUser[u]
    IN  /\ c.pc = "sleep" /\ SleptEnough(c) /\ Check(c.bytes)
        /\ admitted' = admitted + c.bytes
        /\ overrun' = IF c.disturbed \/ c.bytes > bucket_capacity THEN overrun + c.bytes ELSE overrun
        /\ trafficUser' = AfterCheck(u, c.bytes, UserFree)
        /\ UNCHANGED <<statVars, trafficNow, trafficCalls, credit>>

\* RateLimiter::reset: a full bucket, ...
ResetLimiter(u) ==
    /\ Called(u)
    /\ tokens' = bucket_capacity
    /\ credit' = credit + bucket_capacity
    /\ trafficUser' = [trafficUser EXCEPT ![u] = [UserCall("refill", "tx", 0) EXCEPT !.since = trafficNow]]
    /\ UNCHANGED <<statVars, last_refill, trafficNow, admitted, overrun>>

\* ... and then the time of the refill, taken before the lock was: a later time that
\* another thread wrote is set back, and the seconds in between count again.
ResetRefill(u) ==
    /\ trafficUser[u].pc = "refill"
    /\ \E t \in trafficUser[u].since..trafficNow :
          /\ last_refill' = t
          /\ credit' = IF t < last_refill THEN credit + (last_refill - t) * rate_per_sec ELSE credit
    /\ trafficUser' = [Disturbed(u) EXCEPT ![u] = UserFree]
    /\ UNCHANGED <<statVars, tokens, trafficNow, trafficCalls, admitted, overrun>>

\* TrafficStats::reset: the totals, then the samples, then the peaks and the count.
ResetTotals(u) ==
    /\ Called(u)
    /\ total' = [d \in Directions |-> 0]
    /\ trafficUser' = [trafficUser EXCEPT ![u].pc = "clear"]
    /\ UNCHANGED <<samples, peak, connection_count, tokens, last_refill, trafficNow, historyVars>>

ResetSamples(u) ==
    /\ trafficUser[u].pc = "clear"
    /\ samples' = [d \in Directions |-> <<>>]
    /\ trafficUser' = [trafficUser EXCEPT ![u].pc = "peak"]
    /\ UNCHANGED <<total, peak, connection_count, tokens, last_refill, trafficNow, trafficCalls, historyVars>>

ResetPeaks(u) ==
    /\ trafficUser[u].pc = "peak"
    /\ peak' = [d \in Directions |-> 0]
    /\ connection_count' = 0
    /\ trafficUser' = [trafficUser EXCEPT ![u] = UserFree]
    /\ UNCHANGED <<total, samples, tokens, last_refill, trafficNow, trafficCalls, historyVars>>

\* add_connection, and remove_connection, which wraps around after a reset.
AddConnection(u) ==
    /\ Called(u)
    /\ connection_count' = (connection_count + 1) % (CountMax + 1)
    /\ UNCHANGED <<total, samples, peak, tokens, last_refill, trafficUser, trafficNow, historyVars>>

RemoveConnection(u) ==
    /\ Called(u)
    /\ connection_count' = (connection_count - 1) % (CountMax + 1)
    /\ UNCHANGED <<total, samples, peak, tokens, last_refill, trafficUser, trafficNow, historyVars>>

TrafficTick ==
    /\ trafficNow < MaxTrafficTime
    /\ trafficNow' = trafficNow + 1
    /\ UNCHANGED <<total, samples, peak, connection_count, tokens, last_refill, trafficUser, trafficCalls, historyVars>>

\* summary
Summary == [total |-> total, rate |-> [d \in Directions |-> CalculateRate(samples[d])], peak |-> peak,
            connections |-> connection_count]

TrafficNext ==
    \/ \E u \in TrafficUsers, d \in Directions, n \in ByteCounts : RecordTotal(u, d, n)
    \/ \E u \in TrafficUsers, n \in ByteCounts : ConsumeTokens(u, n) \/ WaitFor(u, n)
    \/ \E u \in TrafficUsers :
          \/ RecordSample(u) \/ CheckTokens(u) \/ Sleep(u) \/ WaitOver(u)
          \/ ResetLimiter(u) \/ ResetRefill(u)
          \/ ResetTotals(u) \/ ResetSamples(u) \/ ResetPeaks(u) \/ AddConnection(u) \/ RemoveConnection(u)
    \/ TrafficTick

\* Callers of check, consume and wait_for go on with no more bytes than the bucket,
\* filled once and again by every reset, and the rate give for the time that passed;
\* and beyond that only with the bytes of a wait_for in whose sleep another thread
\* took tokens or reset the bucket, or that asked for more than the bucket holds:
\* undisturbed, its second check, whose answer it ignores, always passes.  And the
\* limiter never owes tokens.
RateBounded ==
    /\ admitted <= bucket_capacity + credit + rate_per_sec * trafficNow + overrun
    /\ tokens \in 0..bucket_capacity
=============================================================================
