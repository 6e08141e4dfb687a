----------------------------- MODULE MeshProofs -----------------------------
(***************************************************************************)
(* Proofs about the managers of the mesh, for any number of threads, peers, *)
(* calls and ticks.                                                         *)
(***************************************************************************)
EXTENDS Mesh, FiniteSetTheorems, WellFoundedInduction, NaturalsInduction, TLAPS

\* The smaller of two numbers.
LEMMA MinOfTwo ==
    ASSUME NEW a \in Int, NEW b \in Int
    PROVE  /\ Min({a, b}) \in {a, b}
           /\ Min({a, b}) <= a /\ Min({a, b}) <= b
<1>1. \E x \in {a, b} : \A y \in {a, b} : x <= y
  <2>1. CASE a <= b
    BY <2>1
  <2>2. CASE ~(a <= b)
    BY <2>2
  <2>3. QED
    BY <2>1, <2>2
<1>2. QED
  BY <1>1 DEF Min

\* The tail of a sequence holds the elements after the first.
LEMMA TailIndex ==
    ASSUME NEW S, NEW q \in Seq(S), q # <<>>, NEW i \in 1..Len(Tail(q))
    PROVE  i + 1 \in 1..Len(q) /\ Tail(q)[i] = q[i + 1]
OBVIOUS

\* A set of numbers that is not empty has a least one.
LEMMA LeastNat ==
    ASSUME NEW T, T \subseteq Nat, T # {}
    PROVE  \E x \in T : \A y \in T : x <= y
<1>1. \E R : /\ \A x, y \in Nat : y < x => <<y, x>> \in R
             /\ IsWellFoundedOn(R, Nat)
  <2>1. \A x, y \in Nat : y < x => <<y, x>> \in OpToRel(<, Nat)
    BY Zenon DEF OpToRel
  <2> QED BY <2>1, NatLessThanWellFounded, Zenon
<1>2. PICK R : /\ \A x, y \in Nat : y < x => <<y, x>> \in R
               /\ IsWellFoundedOn(R, Nat)
  BY <1>1
<1>3. PICK x \in T : \A y \in T : ~ (<<y, x>> \in R)
  BY <1>2, WFMin
<1>4. ASSUME NEW y \in T PROVE x <= y
  <2>1. x \in Nat /\ y \in Nat
    OBVIOUS
  <2>2. ~ (y < x)
    BY <1>2, <1>3, <2>1
  <2> QED BY <2>1, <2>2
<1> QED BY <1>4

-----------------------------------------------------------------------------
(* The token bucket of Traffic. *)

\* A step of the mesh is a step of the traffic counters, or leaves them alone.
LEMMA TrafficStep == MeshNext => [TrafficNext]_trafficVars
BY DEF MeshNext, Rest

\* What a thread has in hand.
UserCalls ==
    [pc : {"free", "sample", "check", "wait", "sleep", "refill", "clear", "peak"}, dir : Directions,
     bytes : Nat, since : Nat, need : Int, disturbed : BOOLEAN]

UserTypeOK ==
    /\ trafficUser \in [TrafficUsers -> UserCalls]
    /\ tokens \in 0..bucket_capacity /\ trafficNow \in Nat /\ last_refill \in 0..trafficNow
    /\ admitted \in Nat /\ credit \in Nat /\ overrun \in Nat

\* The tokens in the bucket are paid for: they and what has passed come from the first
\* filling, from resets, from the time up to the last refill and from spoilt waits.
BucketInv == admitted + tokens <= bucket_capacity + credit + rate_per_sec * last_refill + overrun

\* A wait that nobody disturbs has, at the end of its sleep, the tokens that it asked for.
WaitPaid(c) ==
    c.pc = "sleep" /\ ~c.disturbed /\ c.bytes <= bucket_capacity =>
        \/ tokens >= c.bytes
        \/ tokens + rate_per_sec * c.since + c.need >= c.bytes + rate_per_sec * last_refill

WaitsPaid == \A u \in TrafficUsers : WaitPaid(trafficUser[u])

TrafficInv == UserTypeOK /\ BucketInv /\ WaitsPaid

\* Time alone makes the bound larger.
LEMMA RateGrows ==
    ASSUME NEW r \in Nat, NEW s \in Nat, NEW t \in Nat, s <= t
    PROVE  /\ r * s \in Nat /\ r * t \in Nat
           /\ r * s <= r * t
           /\ (t - s) * r \in Nat
           /\ (t - s) * r + r * s = r * t
<1>1. PICK d \in Nat : t = s + d
  <2>1. t - s \in Nat /\ t = s + (t - s)
    OBVIOUS
  <2>2. QED
    BY <2>1
<1>2. t - s = d
  BY <1>1
<1>3. r * t = r * s + r * d /\ d * r = r * d
  BY <1>1
<1>4. r * d \in Nat /\ r * s \in Nat /\ r * t \in Nat
  BY <1>1
<1>5. QED
  BY <1>1, <1>2, <1>3, <1>4

LEMMA RateDiff ==
    ASSUME NEW r \in Nat, NEW s \in Nat, NEW t \in Nat
    PROVE  r * s \in Nat /\ r * t \in Nat /\ (t - s) * r = r * t - r * s
<1>1. CASE s <= t
  BY <1>1, RateGrows
<1>2. CASE t <= s
  <2>1. (s - t) * r + r * t = r * s /\ r * s \in Nat /\ r * t \in Nat /\ (s - t) * r \in Nat
    BY <1>2, RateGrows
  <2>2. (t - s) * r = 0 - (s - t) * r
    BY <1>2
  <2> QED BY <2>1, <2>2
<1> QED BY <1>1, <1>2

\* What a refill gives is paid for by the time since the last one.
LEMMA RefillPaid ==
    ASSUME UserTypeOK, BucketInv
    PROVE  /\ Refilled \in 0..bucket_capacity
           /\ rate_per_sec * trafficNow \in Nat /\ rate_per_sec * last_refill \in Nat
           /\ Refilled = bucket_capacity
              \/ Refilled = tokens + rate_per_sec * trafficNow - rate_per_sec * last_refill
           /\ tokens <= Refilled
           /\ admitted + Refilled <= bucket_capacity + credit + rate_per_sec * trafficNow + overrun
<1> DEFINE gain == (trafficNow - last_refill) * rate_per_sec
<1>1. /\ gain \in Nat
      /\ rate_per_sec * last_refill \in Nat /\ rate_per_sec * trafficNow \in Nat
      /\ gain + rate_per_sec * last_refill = rate_per_sec * trafficNow
  BY RateGrows, TrafficAssumption DEF UserTypeOK
<1>2. Refilled = Min({tokens + gain, bucket_capacity})
  BY DEF Refilled
<1> HIDE DEF gain
<1>3. tokens + gain \in Int /\ bucket_capacity \in Int
  BY <1>1, TrafficAssumption DEF UserTypeOK
<1>4. /\ Refilled \in {tokens + gain, bucket_capacity}
      /\ Refilled <= tokens + gain /\ Refilled <= bucket_capacity
  BY <1>2, <1>3, MinOfTwo
<1>5. QED
  BY <1>1, <1>4, TrafficAssumption DEF UserTypeOK, BucketInv

\* A refill that takes nothing pays the waits as before.
LEMMA RefillKeepsWaits ==
    ASSUME UserTypeOK, BucketInv, NEW c \in UserCalls, WaitPaid(c),
           tokens' = Refilled, last_refill' = trafficNow
    PROVE  c.pc = "sleep" /\ ~c.disturbed /\ c.bytes <= bucket_capacity =>
              \/ tokens' >= c.bytes
              \/ tokens' + rate_per_sec * c.since + c.need >= c.bytes + rate_per_sec * last_refill'
<1>1. PICK a \in Int : a = rate_per_sec * c.since + c.need
  BY TrafficAssumption DEF UserCalls
<1>2. /\ Refilled \in 0..bucket_capacity
      /\ rate_per_sec * trafficNow \in Nat /\ rate_per_sec * last_refill \in Nat
      /\ Refilled = bucket_capacity
         \/ Refilled = tokens + rate_per_sec * trafficNow - rate_per_sec * last_refill
      /\ tokens <= Refilled
  BY RefillPaid
<1>3. rate_per_sec * c.since \in Int /\ c.need \in Int /\ c.bytes \in Nat /\ tokens \in Nat
  BY TrafficAssumption DEF UserCalls, UserTypeOK
<1>4. \A x \in Int : x + rate_per_sec * c.since + c.need = x + a
  BY <1>1, <1>3
<1>5. SUFFICES ASSUME c.pc = "sleep", ~c.disturbed, c.bytes <= bucket_capacity
               PROVE  Refilled >= c.bytes \/ Refilled + a >= c.bytes + rate_per_sec * trafficNow
  BY <1>2, <1>4
<1>6. tokens >= c.bytes \/ tokens + a >= c.bytes + rate_per_sec * last_refill
  BY <1>3, <1>4, <1>5 DEF WaitPaid
<1> QED BY <1>1, <1>2, <1>3, <1>5, <1>6, TrafficAssumption

\* At the end of the sleep the second check of such a wait passes.
LEMMA WaitPasses ==
    ASSUME UserTypeOK, BucketInv, NEW c \in UserCalls, WaitPaid(c), c.pc = "sleep", SleptEnough(c),
           ~c.disturbed, c.bytes <= bucket_capacity
    PROVE  Refilled >= c.bytes
<1>1. /\ Refilled \in 0..bucket_capacity
      /\ rate_per_sec * trafficNow \in Nat /\ rate_per_sec * last_refill \in Nat
      /\ Refilled = bucket_capacity
         \/ Refilled = tokens + rate_per_sec * trafficNow - rate_per_sec * last_refill
      /\ tokens <= Refilled
  BY RefillPaid
<1>2. c.since \in Nat /\ c.need \in Int /\ c.bytes \in Nat /\ trafficNow \in Nat
  BY DEF UserCalls, UserTypeOK
<1>3. rate_per_sec * c.since \in Nat /\ (trafficNow - c.since) * rate_per_sec = rate_per_sec * trafficNow - rate_per_sec * c.since
  BY <1>2, RateDiff, TrafficAssumption
<1>4. rate_per_sec * trafficNow - rate_per_sec * c.since >= c.need
  BY <1>3 DEF SleptEnough
<1>5. tokens >= c.bytes \/ tokens + rate_per_sec * c.since + c.need >= c.bytes + rate_per_sec * last_refill
  BY DEF WaitPaid
<1> QED BY <1>1, <1>2, <1>3, <1>4, <1>5, TrafficAssumption DEF UserTypeOK

\* The calls that a thread can be made to have.
LEMMA CallTyped ==
    ASSUME NEW pc \in {"free", "sample", "check", "wait", "sleep", "refill", "clear", "peak"},
           NEW d \in Directions, NEW n \in Nat
    PROVE  UserCall(pc, d, n) \in UserCalls /\ UserCall(pc, d, n).pc = pc
BY DEF UserCall, UserCalls

LEMMA FreeTyped == UserFree \in UserCalls /\ UserFree.pc = "free"
BY CallTyped DEF UserFree, Directions

\* Disturbing waits keeps the types, and the threads that sleep undisturbed.
LEMMA DisturbFacts ==
    ASSUME NEW u \in TrafficUsers, trafficUser \in [TrafficUsers -> UserCalls]
    PROVE  /\ Disturbed(u) \in [TrafficUsers -> UserCalls]
           /\ Disturbed(u)[u] = trafficUser[u]
           /\ \A v \in TrafficUsers \ {u} : Disturbed(u)[v].pc = "sleep" => Disturbed(u)[v].disturbed
<1>1. ASSUME NEW v \in TrafficUsers
      PROVE  /\ Disturbed(u)[v] \in UserCalls
             /\ v # u /\ Disturbed(u)[v].pc = "sleep" => Disturbed(u)[v].disturbed
             /\ v = u => Disturbed(u)[v] = trafficUser[v]
  <2>1. PICK c \in UserCalls : c = trafficUser[v]
    OBVIOUS
  <2>2. Disturbed(u)[v] = IF v # u /\ c.pc = "sleep" THEN [c EXCEPT !.disturbed = TRUE] ELSE c
    BY <2>1 DEF Disturbed
  <2>3. [c EXCEPT !.disturbed = TRUE] \in UserCalls /\ [c EXCEPT !.disturbed = TRUE].disturbed = TRUE
        /\ [c EXCEPT !.disturbed = TRUE].pc = c.pc
    BY DEF UserCalls
  <2> QED BY <2>1, <2>2, <2>3
<1>2. Disturbed(u) = [v \in TrafficUsers |-> Disturbed(u)[v]]
  BY DEF Disturbed
<1> QED BY <1>1, <1>2

\* Nobody sleeps undisturbed, but for a thread that does not sleep.
LEMMA AllDisturbed ==
    ASSUME NEW u \in TrafficUsers, trafficUser \in [TrafficUsers -> UserCalls], NEW c \in UserCalls, c.pc # "sleep",
           trafficUser' = [Disturbed(u) EXCEPT ![u] = c]
    PROVE  trafficUser' \in [TrafficUsers -> UserCalls] /\ WaitsPaid'
<1>1. PICK D \in [TrafficUsers -> UserCalls] :
         D = Disturbed(u) /\ \A v \in TrafficUsers \ {u} : D[v].pc = "sleep" => D[v].disturbed
  BY DisturbFacts
<1>2. trafficUser' = [D EXCEPT ![u] = c]
  BY <1>1
<1>3. trafficUser' \in [TrafficUsers -> UserCalls]
  BY <1>2
<1>4. ASSUME NEW v \in TrafficUsers, trafficUser'[v].pc = "sleep" PROVE trafficUser'[v].disturbed
  BY <1>1, <1>2, <1>4
<1> QED BY <1>3, <1>4 DEF WaitsPaid, WaitPaid

\* A check, whatever its caller does next.
LEMMA CheckKeeps ==
    ASSUME UserTypeOK, BucketInv, WaitsPaid, NEW u \in TrafficUsers, NEW n \in Nat, Check(n),
           NEW c \in UserCalls, c.pc # "sleep", trafficUser' = AfterCheck(u, n, c)
    PROVE  trafficUser' \in [TrafficUsers -> UserCalls] /\ WaitsPaid'
<1>1. trafficUser \in [TrafficUsers -> UserCalls]
  BY DEF UserTypeOK
<1>2. CASE Refilled >= n
  <2>1. trafficUser' = [Disturbed(u) EXCEPT ![u] = c]
    BY <1>2 DEF AfterCheck
  <2> QED BY <1>1, <2>1, AllDisturbed
<1>3. CASE ~(Refilled >= n)
  <2>1. trafficUser' = [trafficUser EXCEPT ![u] = c]
    BY <1>3 DEF AfterCheck
  <2>2. tokens' = Refilled /\ last_refill' = trafficNow
    BY <1>3 DEF Check
  <2>3. ASSUME NEW v \in TrafficUsers PROVE WaitPaid(trafficUser[v])'
    <3>1. CASE v = u
      <4>1. trafficUser'[v] = c
        BY <1>1, <2>1, <3>1
      <4> QED BY <4>1 DEF WaitPaid
    <3>2. CASE v # u
      <4>1. trafficUser'[v] = trafficUser[v]
        BY <1>1, <2>1, <3>2
      <4>2. PICK x \in UserCalls : x = trafficUser[v]
        BY <1>1
      <4>3. WaitPaid(x)
        BY <4>2 DEF WaitsPaid
      <4>4. trafficUser'[v] = x
        BY <4>1, <4>2
      <4>5. x.pc = "sleep" /\ ~x.disturbed /\ x.bytes <= bucket_capacity =>
              \/ tokens' >= x.bytes
              \/ tokens' + rate_per_sec * x.since + x.need >= x.bytes + rate_per_sec * last_refill'
        BY <2>2, <4>3, RefillKeepsWaits
      <4> QED BY <4>4, <4>5 DEF WaitPaid
    <3> QED BY <3>1, <3>2
  <2> QED BY <1>1, <2>1, <2>3 DEF WaitsPaid
<1> QED BY <1>2, <1>3

\* A check that pays with tokens for what its caller goes on with.
LEMMA CheckPays ==
    ASSUME UserTypeOK, BucketInv, NEW n \in Nat, Check(n), UNCHANGED <<trafficNow, credit>>,
           \/ IfPassed(n) /\ overrun' = overrun
           \/ admitted' = admitted + n /\ overrun' = overrun /\ Refilled >= n
           \/ admitted' = admitted + n /\ overrun' = overrun + n
    PROVE  /\ tokens' \in 0..bucket_capacity /\ last_refill' \in 0..trafficNow'
           /\ trafficNow' \in Nat /\ admitted' \in Nat /\ credit' \in Nat /\ overrun' \in Nat
           /\ BucketInv'
<1>1. /\ Refilled \in 0..bucket_capacity
      /\ rate_per_sec * trafficNow \in Nat
      /\ admitted + Refilled <= bucket_capacity + credit + rate_per_sec * trafficNow + overrun
  BY RefillPaid
<1>2. /\ last_refill' = trafficNow /\ trafficNow' = trafficNow /\ credit' = credit
      /\ tokens' = IF Refilled >= n THEN Refilled - n ELSE Refilled
  BY DEF Check
<1>3. /\ admitted \in Nat /\ credit \in Nat /\ overrun \in Nat /\ trafficNow \in Nat /\ bucket_capacity \in Nat
      /\ tokens \in Nat
  BY TrafficAssumption DEF UserTypeOK
<1>4. /\ admitted' \in Nat /\ overrun' \in Nat /\ tokens' \in 0..bucket_capacity
      /\ admitted' + tokens' <= bucket_capacity + credit + rate_per_sec * trafficNow + overrun'
  <2>1. CASE Refilled >= n
    <3>1. tokens' = Refilled - n
      BY <1>2, <2>1
    <3>2. admitted' = admitted + n /\ (overrun' = overrun \/ overrun' = overrun + n)
      BY <2>1 DEF IfPassed
    <3> QED BY <1>1, <1>3, <2>1, <3>1, <3>2
  <2>2. CASE ~(Refilled >= n)
    <3>1. tokens' = Refilled
      BY <1>2, <2>2
    <3>2. \/ admitted' = admitted /\ overrun' = overrun
          \/ admitted' = admitted + n /\ overrun' = overrun + n
      BY <2>2 DEF IfPassed
    <3> QED BY <1>1, <1>3, <3>1, <3>2
  <2> QED BY <2>1, <2>2
<1> QED BY <1>2, <1>3, <1>4 DEF BucketInv

\* A thread that does not sleep starts another step of its call; the bucket is as it was.
LEMMA ThreadGoesOn ==
    ASSUME TrafficInv, NEW u \in TrafficUsers, NEW c \in UserCalls, WaitPaid(c),
           trafficUser' = [trafficUser EXCEPT ![u] = c], UNCHANGED <<tokens, last_refill, trafficNow, historyVars>>
    PROVE  TrafficInv'
<1>1. trafficUser \in [TrafficUsers -> UserCalls]
  BY DEF TrafficInv, UserTypeOK
<1>2. trafficUser' \in [TrafficUsers -> UserCalls]
  BY <1>1
<1>3. UNCHANGED <<tokens, last_refill, trafficNow, admitted, credit, overrun>>
  BY DEF historyVars
<1>4. UserTypeOK' /\ BucketInv'
  BY <1>2, <1>3 DEF TrafficInv, UserTypeOK, BucketInv
<1>5. ASSUME NEW v \in TrafficUsers PROVE WaitPaid(trafficUser[v])'
  <2>1. PICK x : x = trafficUser'[v] /\ WaitPaid(x)
    <3>1. trafficUser'[v] = IF v = u THEN c ELSE trafficUser[v]
      BY <1>1
    <3> QED BY <3>1 DEF TrafficInv, WaitsPaid
  <2> QED BY <1>3, <2>1 DEF WaitPaid
<1> QED BY <1>4, <1>5 DEF TrafficInv, WaitsPaid

LEMMA TrafficInvStep ==
    ASSUME TrafficInv, TrafficNext
    PROVE  TrafficInv'
<1>0. /\ UserTypeOK /\ BucketInv /\ WaitsPaid
      /\ trafficUser \in [TrafficUsers -> UserCalls]
  BY DEF TrafficInv, UserTypeOK
<1>1. ASSUME NEW u \in TrafficUsers, NEW d \in Directions, NEW n \in ByteCounts, RecordTotal(u, d, n)
      PROVE  TrafficInv'
  <2>1. PICK c \in UserCalls : c = UserCall("sample", d, n) /\ c.pc = "sample"
    BY CallTyped, TrafficAssumption
  <2>2. WaitPaid(c)
    BY <2>1 DEF WaitPaid
  <2>3. trafficUser' = [trafficUser EXCEPT ![u] = c] /\ UNCHANGED <<tokens, last_refill, trafficNow, historyVars>>
    BY <1>1, <2>1 DEF RecordTotal
  <2> QED BY <2>2, <2>3, ThreadGoesOn
<1>2. ASSUME NEW u \in TrafficUsers, NEW n \in ByteCounts, ConsumeTokens(u, n)
      PROVE  TrafficInv'
  <2> DEFINE consumed == Min({n, Refilled})
  <2>1. /\ Refilled \in 0..bucket_capacity /\ rate_per_sec * trafficNow \in Nat
        /\ admitted + Refilled <= bucket_capacity + credit + rate_per_sec * trafficNow + overrun
    BY <1>0, RefillPaid
  <2>2. /\ tokens' = Refilled - consumed /\ admitted' = admitted + consumed
        /\ last_refill' = trafficNow /\ trafficNow' = trafficNow /\ credit' = credit /\ overrun' = overrun
    BY <1>2 DEF ConsumeTokens
  <2>3. consumed \in 0..Refilled
    <3>1. n \in Nat /\ Refilled \in Nat
      BY <2>1, TrafficAssumption
    <3>2. n \in Int /\ Refilled \in Int
      BY <3>1
    <3>3. consumed \in {n, Refilled} /\ consumed <= n /\ consumed <= Refilled
      BY <3>2, MinOfTwo
    <3> HIDE DEF consumed
    <3> QED BY <3>1, <3>3
  <2> HIDE DEF consumed
  <2>4. BucketInv' /\ tokens' \in 0..bucket_capacity /\ admitted' \in Nat
    BY <1>0, <2>1, <2>2, <2>3, TrafficAssumption DEF UserTypeOK, BucketInv
  <2>5. trafficUser[u].pc = "free" /\ trafficUser' = Disturbed(u)
    BY <1>2 DEF ConsumeTokens, Called
  <2>6. trafficUser' = [Disturbed(u) EXCEPT ![u] = trafficUser[u]]
    <3>1. PICK D \in [TrafficUsers -> UserCalls] : D = Disturbed(u) /\ D[u] = trafficUser[u]
      BY <1>0, DisturbFacts
    <3>2. [D EXCEPT ![u] = trafficUser[u]] = D
      BY <3>1
    <3> QED BY <2>5, <3>1, <3>2
  <2>7. trafficUser' \in [TrafficUsers -> UserCalls] /\ WaitsPaid'
    BY <1>0, <2>5, <2>6, AllDisturbed
  <2> QED BY <1>0, <2>2, <2>4, <2>7 DEF TrafficInv, UserTypeOK
<1>3. ASSUME NEW u \in TrafficUsers, NEW n \in ByteCounts, WaitFor(u, n)
      PROVE  TrafficInv'
  <2>1. n \in Nat /\ Check(n) /\ IfPassed(n) /\ UNCHANGED <<trafficNow, credit>> /\ overrun' = overrun
    BY <1>3, TrafficAssumption DEF WaitFor
  <2>2. /\ tokens' \in 0..bucket_capacity /\ last_refill' \in 0..trafficNow'
        /\ trafficNow' \in Nat /\ admitted' \in Nat /\ credit' \in Nat /\ overrun' \in Nat
        /\ BucketInv'
    BY <1>0, <2>1, CheckPays
  <2>3. PICK c \in UserCalls : c.pc # "sleep" /\ trafficUser' = AfterCheck(u, n, c)
    <3>1. UserCall("wait", "tx", n) \in UserCalls /\ UserCall("wait", "tx", n).pc = "wait"
      BY <2>1, CallTyped DEF Directions
    <3>2. PICK c : c = IF Refilled >= n THEN UserFree ELSE UserCall("wait", "tx", n)
      OBVIOUS
    <3>3. trafficUser' = AfterCheck(u, n, c)
      BY <1>3, <3>2 DEF WaitFor
    <3> QED BY <3>1, <3>2, <3>3, FreeTyped
  <2>4. trafficUser' \in [TrafficUsers -> UserCalls] /\ WaitsPaid'
    BY <1>0, <2>1, <2>3, CheckKeeps
  <2> QED BY <2>2, <2>4 DEF TrafficInv, UserTypeOK
<1>4. ASSUME NEW u \in TrafficUsers, CheckTokens(u)
      PROVE  TrafficInv'
  <2>1. PICK n \in Nat : n = trafficUser[u].bytes
    BY <1>0 DEF UserCalls
  <2>2. Check(n) /\ IfPassed(n) /\ UNCHANGED <<trafficNow, credit>> /\ overrun' = overrun
        /\ trafficUser' = AfterCheck(u, n, UserFree)
    BY <1>4, <2>1 DEF CheckTokens
  <2>3. /\ tokens' \in 0..bucket_capacity /\ last_refill' \in 0..trafficNow'
        /\ trafficNow' \in Nat /\ admitted' \in Nat /\ credit' \in Nat /\ overrun' \in Nat
        /\ BucketInv'
    BY <1>0, <2>2, CheckPays
  <2>4. trafficUser' \in [TrafficUsers -> UserCalls] /\ WaitsPaid'
    BY <1>0, <2>2, FreeTyped, CheckKeeps
  <2> QED BY <2>3, <2>4 DEF TrafficInv, UserTypeOK
<1>5. ASSUME NEW u \in TrafficUsers, WaitOver(u)
      PROVE  TrafficInv'
  <2>1. PICK c \in UserCalls : c = trafficUser[u]
    BY <1>0
  <2>2. /\ c.pc = "sleep" /\ SleptEnough(c) /\ Check(c.bytes) /\ UNCHANGED <<trafficNow, credit>>
        /\ admitted' = admitted + c.bytes
        /\ overrun' = IF c.disturbed \/ c.bytes > bucket_capacity THEN overrun + c.bytes ELSE overrun
        /\ trafficUser' = AfterCheck(u, c.bytes, UserFree)
    BY <1>5, <2>1 DEF WaitOver
  <2>3. c.bytes \in Nat /\ bucket_capacity \in Nat /\ WaitPaid(c)
    BY <1>0, <2>1, TrafficAssumption DEF UserCalls, WaitsPaid
  <2>4. \/ overrun' = overrun /\ Refilled >= c.bytes
        \/ overrun' = overrun + c.bytes
    <3>1. CASE c.disturbed \/ c.bytes > bucket_capacity
      BY <2>2, <3>1
    <3>2. CASE ~(c.disturbed \/ c.bytes > bucket_capacity)
      <4>1. c.bytes <= bucket_capacity
        BY <2>3, <3>2
      <4>2. Refilled >= c.bytes
        BY <1>0, <2>2, <2>3, <3>2, <4>1, WaitPasses
      <4> QED BY <2>2, <3>2, <4>2
    <3> QED BY <3>1, <3>2
  <2>5. /\ tokens' \in 0..bucket_capacity /\ last_refill' \in 0..trafficNow'
        /\ trafficNow' \in Nat /\ admitted' \in Nat /\ credit' \in Nat /\ overrun' \in Nat
        /\ BucketInv'
    BY <1>0, <2>2, <2>3, <2>4, CheckPays
  <2>6. trafficUser' \in [TrafficUsers -> UserCalls] /\ WaitsPaid'
    BY <1>0, <2>2, <2>3, FreeTyped, CheckKeeps
  <2> QED BY <2>5, <2>6 DEF TrafficInv, UserTypeOK
<1>6. ASSUME NEW u \in TrafficUsers, Sleep(u)
      PROVE  TrafficInv'
  <2>1. PICK x \in UserCalls : x = trafficUser[u]
    BY <1>0
  <2>2. PICK c : c = [x EXCEPT !.pc = "sleep", !.since = trafficNow, !.need = x.bytes - tokens]
    OBVIOUS
  <2>3. x.bytes \in Nat /\ tokens \in Nat /\ trafficNow \in Nat /\ last_refill \in Nat /\ last_refill <= trafficNow
    BY <1>0, TrafficAssumption DEF UserCalls, UserTypeOK
  <2>4. c \in UserCalls /\ c.since = trafficNow /\ c.need = x.bytes - tokens /\ c.bytes = x.bytes
    <3>1. PICK need \in Int : need = x.bytes - tokens
      BY <2>3
    <3>2. c = [x EXCEPT !.pc = "sleep", !.since = trafficNow, !.need = need]
      BY <2>2, <3>1
    <3> QED BY <2>3, <3>1, <3>2 DEF UserCalls
  <2>5. WaitPaid(c)
    <3>1. rate_per_sec * last_refill \in Nat /\ rate_per_sec * trafficNow \in Nat
          /\ rate_per_sec * last_refill <= rate_per_sec * trafficNow
      BY <2>3, RateGrows, TrafficAssumption
    <3>2. tokens + rate_per_sec * c.since + c.need >= c.bytes + rate_per_sec * last_refill
      BY <2>3, <2>4, <3>1
    <3> QED BY <3>2 DEF WaitPaid
  <2>6. trafficUser' = [trafficUser EXCEPT ![u] = c] /\ UNCHANGED <<tokens, last_refill, trafficNow, historyVars>>
    BY <1>6, <2>1, <2>2 DEF Sleep
  <2> QED BY <2>4, <2>5, <2>6, ThreadGoesOn
<1>7. ASSUME NEW u \in TrafficUsers, ResetLimiter(u)
      PROVE  TrafficInv'
  <2>1. PICK c : c = [UserCall("refill", "tx", 0) EXCEPT !.since = trafficNow]
    OBVIOUS
  <2>2. c \in UserCalls /\ c.pc = "refill"
    <3>1. PICK x \in UserCalls : x = UserCall("refill", "tx", 0) /\ x.pc = "refill"
      BY CallTyped DEF Directions
    <3>2. trafficNow \in Nat
      BY <1>0 DEF UserTypeOK
    <3> QED BY <2>1, <3>1, <3>2 DEF UserCalls
  <2>3. /\ tokens' = bucket_capacity /\ credit' = credit + bucket_capacity
        /\ trafficUser' = [trafficUser EXCEPT ![u] = c]
        /\ UNCHANGED <<last_refill, trafficNow, admitted, overrun>>
    BY <1>7, <2>1 DEF ResetLimiter
  <2>4. trafficUser' \in [TrafficUsers -> UserCalls]
    BY <1>0, <2>2, <2>3
  <2>5. rate_per_sec * last_refill \in Nat
    BY <1>0, RateGrows, TrafficAssumption DEF UserTypeOK
  <2>6. BucketInv'
    BY <1>0, <2>3, <2>5, TrafficAssumption DEF BucketInv, UserTypeOK
  <2>7. WaitsPaid'
    <3>1. ASSUME NEW v \in TrafficUsers PROVE WaitPaid(trafficUser[v])'
      <4>1. PICK x \in UserCalls : x = trafficUser'[v]
        BY <2>4
      <4>2. x.bytes <= bucket_capacity => tokens' >= x.bytes
        BY <2>3, TrafficAssumption DEF UserCalls
      <4> QED BY <4>1, <4>2 DEF WaitPaid
    <3> QED BY <3>1 DEF WaitsPaid
  <2>8. UserTypeOK'
    BY <1>0, <2>3, <2>4, TrafficAssumption DEF UserTypeOK
  <2> QED BY <2>6, <2>7, <2>8 DEF TrafficInv
<1>8. ASSUME NEW u \in TrafficUsers, ResetRefill(u)
      PROVE  TrafficInv'
  <2>1. trafficUser[u].since \in Nat
    BY <1>0 DEF UserCalls
  <2>2. PICK t \in trafficUser[u].since..trafficNow :
           /\ last_refill' = t
           /\ credit' = IF t < last_refill THEN credit + (last_refill - t) * rate_per_sec ELSE credit
    BY <1>8 DEF ResetRefill
  <2>3. /\ trafficUser' = [Disturbed(u) EXCEPT ![u] = UserFree]
        /\ UNCHANGED <<tokens, trafficNow, admitted, overrun>>
    BY <1>8 DEF ResetRefill
  <2>4. t \in Nat /\ t <= trafficNow /\ last_refill \in Nat /\ trafficNow \in Nat /\ credit \in Nat
    BY <1>0, <2>1, <2>2 DEF UserTypeOK
  <2>5. trafficUser' \in [TrafficUsers -> UserCalls] /\ WaitsPaid'
    BY <1>0, <2>3, FreeTyped, AllDisturbed
  <2>6. credit' \in Nat /\ credit + rate_per_sec * last_refill <= credit' + rate_per_sec * t
        /\ rate_per_sec * t \in Nat /\ rate_per_sec * last_refill \in Nat
    <3>1. CASE t < last_refill
      <4>1. /\ rate_per_sec * t \in Nat /\ rate_per_sec * last_refill \in Nat
            /\ (last_refill - t) * rate_per_sec \in Nat
            /\ (last_refill - t) * rate_per_sec + rate_per_sec * t = rate_per_sec * last_refill
        BY <2>4, <3>1, RateGrows, TrafficAssumption
      <4>2. credit' = credit + (last_refill - t) * rate_per_sec
        BY <2>2, <3>1
      <4> QED BY <2>4, <4>1, <4>2
    <3>2. CASE ~(t < last_refill)
      <4>1. /\ rate_per_sec * t \in Nat /\ rate_per_sec * last_refill \in Nat
            /\ rate_per_sec * last_refill <= rate_per_sec * t
        BY <2>4, <3>2, RateGrows, TrafficAssumption
      <4>2. credit' = credit
        BY <2>2, <3>2
      <4> QED BY <2>4, <4>1, <4>2
    <3> QED BY <3>1, <3>2
  <2>7. BucketInv'
    <3>1. admitted + tokens <= bucket_capacity + credit + rate_per_sec * last_refill + overrun
      BY <1>0 DEF BucketInv
    <3>2. admitted + tokens <= bucket_capacity + credit' + rate_per_sec * t + overrun
      <4>1. /\ admitted \in Nat /\ tokens \in Nat /\ overrun \in Nat /\ bucket_capacity \in Nat
            /\ credit \in Nat /\ credit' \in Nat
        BY <1>0, <2>6, TrafficAssumption DEF UserTypeOK
      <4> QED BY <2>6, <3>1, <4>1
    <3> QED BY <2>2, <2>3, <3>2 DEF BucketInv
  <2>8. UserTypeOK'
    BY <1>0, <2>2, <2>3, <2>4, <2>5, <2>6 DEF UserTypeOK
  <2> QED BY <2>5, <2>7, <2>8 DEF TrafficInv
<1>9. ASSUME NEW u \in TrafficUsers,
             RecordSample(u) \/ ResetTotals(u) \/ ResetSamples(u) \/ ResetPeaks(u)
      PROVE  TrafficInv'
  <2>1. PICK x \in UserCalls : x = trafficUser[u]
    BY <1>0
  <2>2. \A s \in {"check", "clear", "peak"} :
           [x EXCEPT !.pc = s] \in UserCalls /\ [x EXCEPT !.pc = s].pc = s
    BY DEF UserCalls
  <2>3. \E c \in UserCalls : c.pc # "sleep" /\ trafficUser' = [trafficUser EXCEPT ![u] = c]
    <3>1. CASE RecordSample(u)
      <4>1. trafficUser' = [trafficUser EXCEPT ![u] = [x EXCEPT !.pc = "check"]]
        BY <2>1, <3>1 DEF RecordSample
      <4> QED BY <2>2, <4>1
    <3>2. CASE ResetTotals(u)
      <4>1. trafficUser' = [trafficUser EXCEPT ![u] = [x EXCEPT !.pc = "clear"]]
        BY <2>1, <3>2 DEF ResetTotals
      <4> QED BY <2>2, <4>1
    <3>3. CASE ResetSamples(u)
      <4>1. trafficUser' = [trafficUser EXCEPT ![u] = [x EXCEPT !.pc = "peak"]]
        BY <2>1, <3>3 DEF ResetSamples
      <4> QED BY <2>2, <4>1
    <3>4. CASE ResetPeaks(u)
      BY <3>4, FreeTyped DEF ResetPeaks
    <3> QED BY <1>9, <3>1, <3>2, <3>3, <3>4
  <2>4. UNCHANGED <<tokens, last_refill, trafficNow, historyVars>>
    BY <1>9 DEF RecordSample, ResetTotals, ResetSamples, ResetPeaks
  <2>5. PICK c \in UserCalls : c.pc # "sleep" /\ trafficUser' = [trafficUser EXCEPT ![u] = c]
    BY <2>3
  <2>6. WaitPaid(c)
    BY <2>5 DEF WaitPaid
  <2> QED BY <2>4, <2>5, <2>6, ThreadGoesOn
<1>10. ASSUME NEW u \in TrafficUsers, AddConnection(u) \/ RemoveConnection(u)
       PROVE  TrafficInv'
  <2>1. UNCHANGED <<trafficUser, tokens, last_refill, trafficNow, admitted, credit, overrun>>
    BY <1>10 DEF AddConnection, RemoveConnection, historyVars
  <2> QED BY <2>1 DEF TrafficInv, UserTypeOK, BucketInv, WaitsPaid, WaitPaid
<1>11. CASE TrafficTick
  <2>1. /\ UNCHANGED <<trafficUser, tokens, last_refill, admitted, credit, overrun>>
        /\ trafficNow' = trafficNow + 1
    BY <1>11 DEF TrafficTick, historyVars
  <2>2. UserTypeOK'
    BY <1>0, <2>1, TrafficAssumption DEF UserTypeOK
  <2> QED BY <1>0, <2>1, <2>2 DEF TrafficInv, BucketInv, WaitsPaid, WaitPaid
<1> QED BY <1>1, <1>2, <1>3, <1>4, <1>5, <1>6, <1>7, <1>8, <1>9, <1>10, <1>11 DEF TrafficNext

\* However many threads call check, consume, wait_for and reset, and whenever they do,
\* their callers go on with no more bytes than RateBounded says (stats.rs, RateLimiter);
\* the second check of a wait_for that nobody disturbs passes.
THEOREM RateHolds == MeshSpec => []RateBounded
<1>1. MeshInit => TrafficInv
  <2> SUFFICES ASSUME TrafficInit PROVE TrafficInv
    BY DEF MeshInit
  <2>1. trafficUser = [u \in TrafficUsers |-> UserFree]
    BY DEF TrafficInit
  <2>2. UserTypeOK
    BY <2>1, FreeTyped, TrafficAssumption DEF TrafficInit, LimiterInit, UserTypeOK
  <2>3. BucketInv
    BY TrafficAssumption DEF TrafficInit, LimiterInit, BucketInv
  <2>4. WaitsPaid
    BY <2>1, FreeTyped DEF WaitsPaid, WaitPaid
  <2> QED BY <2>2, <2>3, <2>4 DEF TrafficInv
<1>2. TrafficInv /\ [MeshNext]_meshVars => TrafficInv'
  <2> SUFFICES ASSUME TrafficInv, [MeshNext]_meshVars PROVE TrafficInv'
    OBVIOUS
  <2>1. [TrafficNext]_trafficVars
    BY TrafficStep DEF meshVars
  <2>2. CASE TrafficNext
    BY <2>2, TrafficInvStep
  <2>3. CASE UNCHANGED trafficVars
    BY <2>3 DEF trafficVars, historyVars, TrafficInv, UserTypeOK, BucketInv, WaitsPaid, WaitPaid
  <2>4. QED
    BY <2>1, <2>2, <2>3
<1>3. TrafficInv => RateBounded
  <2> SUFFICES ASSUME UserTypeOK, BucketInv PROVE RateBounded
    BY DEF TrafficInv
  <2>1. /\ rate_per_sec * last_refill \in Nat /\ rate_per_sec * trafficNow \in Nat
        /\ rate_per_sec * last_refill <= rate_per_sec * trafficNow
    BY RateGrows, TrafficAssumption DEF UserTypeOK
  <2>2. QED
    BY <2>1, TrafficAssumption DEF UserTypeOK, BucketInv, RateBounded
<1>4. QED
  BY <1>1, <1>2, <1>3, PTL DEF MeshSpec

-----------------------------------------------------------------------------
(* The handshake. *)

LEMMA HsStep == MeshNext => [HsNext]_hsVars
BY DEF MeshNext, Rest

\* Every Data on its way was sent by an initiator no later than the last one was, by
\* a clock that is ahead by no more than MaxSkew.
HsInv ==
    /\ hsNow \in Nat /\ dataSent \in Int /\ dataSent <= hsNow
    /\ hsSkew \in [HsParties -> 0..MaxSkew]
    /\ \A m \in hsNet : m.type = "Data" => dataSent >= 0 /\ m.timestamp \in 0..(dataSent + MaxSkew)

LEMMA HsInvStep ==
    ASSUME HsInv, HsNext
    PROVE  HsInv'
<1>1. ASSUME NEW i \in Initiators, StartHandshake(i)
      PROVE  HsInv'
  BY <1>1 DEF StartHandshake, HsInv, HsMsg
<1>2. ASSUME NEW i \in Initiators, HandleHelloAck(i)
      PROVE  HsInv'
  <2>1. hsSkew[i] \in Nat /\ hsSkew[i] <= MaxSkew /\ hsNow \in Nat /\ MaxSkew \in Nat
    BY HandshakeAssumption DEF HsInv, HsParties
  <2>2. /\ dataSent' = hsNow /\ hsNow' = hsNow /\ hsSkew' = hsSkew
        /\ hsNet' = hsNet \cup {HsMsg("Data", hsNow + hsSkew[i])}
    BY <1>2 DEF HandleHelloAck, Clock
  <2>3. ASSUME NEW m \in hsNet', m.type = "Data" PROVE m.timestamp \in 0..(hsNow + MaxSkew)
    <3>1. CASE m \in hsNet
      BY <2>1, <2>3, <3>1 DEF HsInv
    <3>2. CASE m = HsMsg("Data", hsNow + hsSkew[i])
      <4>1. m.timestamp = hsNow + hsSkew[i]
        BY <3>2 DEF HsMsg
      <4> QED BY <2>1, <4>1
    <3> QED BY <2>2, <2>3, <3>1, <3>2
  <2> QED BY <2>1, <2>2, <2>3 DEF HsInv
<1>3. ASSUME NEW i \in Initiators, CompleteHandshake(i)
      PROVE  HsInv'
  BY <1>3 DEF CompleteHandshake, HsInv
<1>4. ASSUME NEW b \in Responders, HandleHello(b)
      PROVE  HsInv'
  BY <1>4 DEF HandleHello, HsInv, HsMsg
<1>5. ASSUME NEW b \in Responders, HandleData(b)
      PROVE  HsInv'
  BY <1>5 DEF HandleData, HsInv
<1>6. ASSUME NEW x \in HsParties, HsRestart(x)
      PROVE  HsInv'
  BY <1>6 DEF HsRestart, HsInv
<1>7. CASE HsTick
  BY <1>7 DEF HsTick, HsInv
<1>8. QED
  BY <1>1, <1>2, <1>3, <1>4, <1>5, <1>6, <1>7 DEF HsNext

\* The phases of responders change by their own steps and by restarts.
HsPhaseOK ==
    /\ phase \in [HsParties -> {"Init", "HelloSent", "HelloReceived", "HelloAckReceived", "Established"}]
    /\ DOMAIN used_timestamps = HsParties

LEMMA HsPhaseStep ==
    ASSUME HsPhaseOK, HsNext
    PROVE  HsPhaseOK'
BY DEF HsPhaseOK, HsNext, StartHandshake, HandleHelloAck, CompleteHandshake, HandleHello, HandleData,
       HsRestart, HsTick, HsParties, UseTimestamp, ArrivesCut

\* What must hold when b becomes Established.
FreshFor(b) ==
    /\ dataSent >= 0
    /\ \/ used_timestamps'[b] = used_timestamps[b]
       \/ hsNow - dataSent <= REPLAY_WINDOW + MaxSkew

LEMMA FreshStep ==
    ASSUME HsInv, HsPhaseOK, HsNext, NEW b \in Responders, phase[b] # "Established", phase'[b] = "Established"
    PROVE  FreshFor(b)
<1>1. b \in HsParties /\ b \notin Initiators
  BY HandshakeAssumption DEF HsParties
<1>2. HandleData(b)
  BY <1>1 DEF HsPhaseOK, HsNext, StartHandshake, HandleHelloAck, CompleteHandshake, HandleHello, HandleData,
              HsRestart, HsTick, HsParties
<1>3. PICK m \in hsNet : m.type = "Data" /\ (UseTimestamp(b, m) \/ ArrivesCut)
  BY <1>2 DEF HandleData
<1>4. dataSent >= 0 /\ m.timestamp \in 0..(dataSent + MaxSkew)
  BY <1>3 DEF HsInv
<1>5. CASE ArrivesCut
  BY <1>4, <1>5 DEF ArrivesCut, FreshFor
<1>6. CASE UseTimestamp(b, m)
  <2>1. ~ (hsNow + hsSkew[b] > m.timestamp + REPLAY_WINDOW)
    BY <1>6 DEF UseTimestamp, Validate, Clock
  <2>2. hsSkew[b] \in Nat /\ hsNow \in Nat /\ dataSent \in Int /\ MaxSkew \in Nat /\ REPLAY_WINDOW \in Nat
    BY <1>1, HandshakeAssumption DEF HsInv
  <2>3. m.timestamp \in Int /\ m.timestamp <= dataSent + MaxSkew
    BY <1>4, <2>2
  <2>4. hsNow - dataSent <= REPLAY_WINDOW + MaxSkew
    BY <2>1, <2>2, <2>3
  <2> QED BY <1>4, <2>4 DEF FreshFor
<1>7. QED
  BY <1>3, <1>5, <1>6

\* A responder that looks at a timestamp is established only by Data that was sent
\* within the window and what the clocks are apart, whatever is lost, delayed or
\* repeated, and whoever restarts (handshake.rs, handle_data).
THEOREM FreshEstablishes == MeshSpec => EstablishedFresh
<1> DEFINE Inv == HsInv /\ HsPhaseOK
<1>1. MeshInit => Inv
  <2> SUFFICES ASSUME MeshInit PROVE Inv
    OBVIOUS
  <2>1. HsInit
    BY DEF MeshInit
  <2> QED BY <2>1, HandshakeAssumption DEF HsInit, HsInv, HsPhaseOK
<1>2. Inv /\ [MeshNext]_meshVars => Inv'
  <2> SUFFICES ASSUME Inv, [MeshNext]_meshVars PROVE Inv'
    OBVIOUS
  <2>1. [HsNext]_hsVars
    BY HsStep DEF meshVars
  <2>2. CASE HsNext
    BY <2>2, HsInvStep, HsPhaseStep
  <2>3. CASE UNCHANGED hsVars
    BY <2>3 DEF hsVars, HsInv, HsPhaseOK
  <2>4. QED
    BY <2>1, <2>2, <2>3
<1>3. Inv /\ [MeshNext]_meshVars =>
         [\A b \in Responders : phase[b] # "Established" /\ phase'[b] = "Established" =>
             /\ dataSent >= 0
             /\ \/ used_timestamps'[b] = used_timestamps[b]
                \/ hsNow - dataSent <= REPLAY_WINDOW + MaxSkew]_hsVars
  BY HsStep, FreshStep DEF meshVars, FreshFor
<1>4. QED
  BY <1>1, <1>2, <1>3, PTL DEF MeshSpec, EstablishedFresh

-----------------------------------------------------------------------------
(* Sessions. *)

LEMMA SessionStep == MeshNext => [SessionNext]_sessionVars
BY DEF MeshNext, Rest

\* The table; what a thread does to its copy never comes back to it.
SessionTypeOK ==
    /\ sessions \in [SessionPeers ->
           [state : SessionStates \cup {"none"}, keys : Nat \cup {NoKeys}, last_active : Nat,
            send_counter : Nat, recv_counter : Nat]]
    /\ sessionNow \in Nat /\ keysMade \in Nat

LEMMA SessionTypeStep ==
    ASSUME SessionTypeOK, SessionNext
    PROVE  SessionTypeOK'
<1> USE DEF SessionTypeOK
<1>1. ASSUME NEW u \in SessionUsers, NEW p \in SessionPeers, GetOrCreate(u, p) \/ GetSession(u, p)
      PROVE  SessionTypeOK'
  <2>1. NewSession \in [state : SessionStates \cup {"none"}, keys : Nat \cup {NoKeys}, last_active : Nat,
                        send_counter : Nat, recv_counter : Nat]
    BY DEF NewSession, NoSession, SessionStates
  <2>2. sessions' = sessions \/ sessions' = [sessions EXCEPT ![p] = NewSession]
    BY <1>1 DEF GetOrCreate, GetSession
  <2>3. UNCHANGED <<sessionNow, keysMade>>
    BY <1>1 DEF GetOrCreate, GetSession
  <2>4. QED
    BY <2>1, <2>2, <2>3
<1>2. ASSUME NEW u \in SessionUsers, NextSendCounter(u) \/ VerifyRecvCounter(u, 0)
      PROVE  SessionTypeOK'
  BY <1>2 DEF NextSendCounter, VerifyRecvCounter
<1>3. ASSUME NEW p \in SessionPeers, NEW new \in SessionStates, UpdateState(p, new)
      PROVE  SessionTypeOK'
  BY <1>3 DEF UpdateState
<1>4. ASSUME NEW p \in SessionPeers, SetKeys(p) \/ RemoveSession(p) \/ SecureRemove(p) \/ TouchSession(p)
      PROVE  SessionTypeOK'
  BY <1>4 DEF SetKeys, RemoveSession, SecureRemove, TouchSession, NoSession
<1>5. CASE CleanupExpired
  BY <1>5 DEF CleanupExpired, NoSession
<1>6. CASE SessionTick
  BY <1>6 DEF SessionTick
<1>7. QED
  BY <1>1, <1>2, <1>3, <1>4, <1>5, <1>6 DEF SessionNext

\* The move that a step makes with a session that is stored before and after.
SessionMove(p) ==
    \/ IsSessionExpired(sessions[p])
    \/ /\ Progress(sessions'[p].state) >= Progress(sessions[p].state)
       /\ sessions[p].keys = NoKeys \/ sessions'[p].keys # NoKeys

LEMMA ProgressGrows ==
    ASSUME NEW s \in SessionStates, NEW t \in ValidTransitions(s)
    PROVE  Progress(t) >= Progress(s)
BY DEF SessionStates, ValidTransitions, Progress

LEMMA ProgressSame ==
    ASSUME NEW s
    PROVE  Progress(s) \in Int /\ Progress(s) >= Progress(s)
BY DEF Progress

LEMMA SessionMoves ==
    ASSUME SessionTypeOK, SessionNext, NEW p \in SessionPeers,
           sessions[p].state # "none", sessions'[p].state # "none"
    PROVE  SessionMove(p)
<1>0. ASSUME sessions'[p] = sessions[p] PROVE SessionMove(p)
  BY <1>0, ProgressSame DEF SessionMove
<1>1. ASSUME NEW u \in SessionUsers, NEW q \in SessionPeers, GetOrCreate(u, q)
      PROVE  SessionMove(p)
  <2>1. CASE sessions'[p] = sessions[p]
    BY <2>1, <1>0
  <2>2. CASE sessions'[p] # sessions[p]
    <3>1. q = p /\ IsSessionExpired(sessions[p])
      BY <1>1, <2>2 DEF GetOrCreate, SessionTypeOK
    <3>2. QED
      BY <3>1 DEF SessionMove
  <2>3. QED
    BY <2>1, <2>2
<1>2. ASSUME NEW q \in SessionPeers, NEW new \in SessionStates, UpdateState(q, new)
      PROVE  SessionMove(p)
  <2>1. CASE q = p
    <3>1. /\ sessions'[p].state = new /\ sessions'[p].keys = sessions[p].keys
          /\ new \in ValidTransitions(sessions[p].state)
      BY <1>2, <2>1 DEF UpdateState, SessionTypeOK
    <3>2. sessions[p].state \in SessionStates
      BY DEF SessionTypeOK
    <3>3. QED
      BY <3>1, <3>2, ProgressGrows DEF SessionMove
  <2>2. CASE q # p
    BY <1>0, <1>2, <2>2 DEF UpdateState, SessionTypeOK
  <2>3. QED
    BY <2>1, <2>2
<1>3. ASSUME NEW q \in SessionPeers, SetKeys(q)
      PROVE  SessionMove(p)
  <2>1. CASE q = p
    <3>1. sessions'[p].state = sessions[p].state /\ sessions'[p].keys = keysMade + 1 /\ keysMade + 1 \in Nat
      BY <1>3, <2>1 DEF SetKeys, SessionTypeOK
    <3>2. QED
      BY <3>1, SessionAssumption, ProgressSame DEF SessionMove
  <2>2. CASE q # p
    BY <1>0, <1>3, <2>2 DEF SetKeys, SessionTypeOK
  <2>3. QED
    BY <2>1, <2>2
<1>4. ASSUME NEW q \in SessionPeers, TouchSession(q)
      PROVE  SessionMove(p)
  <2>1. sessions'[p].state = sessions[p].state /\ sessions'[p].keys = sessions[p].keys
    BY <1>4 DEF TouchSession, SessionTypeOK
  <2>2. QED
    BY <2>1, ProgressSame DEF SessionMove
<1>5. ASSUME NEW q \in SessionPeers, RemoveSession(q) \/ SecureRemove(q)
      PROVE  SessionMove(p)
  <2>1. sessions'[p] = sessions[p]
    BY <1>5 DEF RemoveSession, SecureRemove, SessionTypeOK, NoSession
  <2>2. QED
    BY <2>1, <1>0
<1>6. CASE CleanupExpired
  <2>1. sessions'[p] = sessions[p]
    BY <1>6 DEF CleanupExpired, SessionTypeOK, NoSession
  <2>2. QED
    BY <2>1, <1>0
<1>7. ASSUME UNCHANGED sessions
      PROVE  SessionMove(p)
  BY <1>7, <1>0
<1>8. QED
  BY <1>1, <1>2, <1>3, <1>4, <1>5, <1>6, <1>7
     DEF SessionNext, GetSession, NextSendCounter, VerifyRecvCounter, SessionTick

\* However threads share the table, a session that is not expired neither goes back nor
\* loses its keys (session.rs, get_or_create and update_state).
THEOREM SessionsKept == MeshSpec => SessionKept
<1>1. MeshInit => SessionTypeOK
  BY DEF MeshInit, SessionInit, SessionTypeOK, NoSession
<1>2. SessionTypeOK /\ [MeshNext]_meshVars => SessionTypeOK'
  <2> SUFFICES ASSUME SessionTypeOK, [MeshNext]_meshVars PROVE SessionTypeOK'
    OBVIOUS
  <2>1. [SessionNext]_sessionVars
    BY SessionStep DEF meshVars
  <2>2. CASE SessionNext
    BY <2>2, SessionTypeStep
  <2>3. CASE UNCHANGED sessionVars
    BY <2>3 DEF sessionVars, SessionTypeOK
  <2>4. QED
    BY <2>1, <2>2, <2>3
<1>3. SessionTypeOK /\ [MeshNext]_meshVars =>
         [\A p \in SessionPeers :
             sessions[p].state # "none" /\ sessions'[p].state # "none" =>
                \/ IsSessionExpired(sessions[p])
                \/ /\ Progress(sessions'[p].state) >= Progress(sessions[p].state)
                   /\ sessions[p].keys = NoKeys \/ sessions'[p].keys # NoKeys]_sessionVars
  BY SessionStep, SessionMoves DEF meshVars, SessionMove
<1>4. QED
  BY <1>1, <1>2, <1>3, PTL DEF MeshSpec, SessionKept

-----------------------------------------------------------------------------
(* Hole punching. *)

LEMMA PunchStep == MeshNext => [PunchNext]_punchVars
BY DEF MeshNext, Rest

Sockets == Punchers \cup {SharedSocket}

\* A peer, or the peers that are removed.
PunchedFor == PunchPeers \cup {NoPunchPeer} \cup SUBSET PunchPeers

PunchCalls ==
    [pc : {"free", "open", "recv", "punched", "give_up", "remove"},
     peer : PunchedFor,
     attempt : Nat, result : {"none", "degraded", "success", "error"}]
PunchPackets == [magic : {"LLHP", "LLKA"}, from : PunchPeers]

PunchTypeOK ==
    /\ puncher \in [Punchers -> PunchCalls]
    /\ punchInbox \in [Sockets -> Seq(PunchPackets)]

\* A call whose punch is recorded is on its way to EndPunch, and a punch packet that
\* waits was heard.  (Two calls may punch for one peer: the first to end takes the
\* record away from both, but nobody leaves one behind.)
PunchInv ==
    /\ punched_peers \subseteq heard
    /\ \A s \in Sockets : \A i \in 1..Len(punchInbox[s]) :
          punchInbox[s][i].magic = "LLHP" => punchInbox[s][i].from \in heard
    /\ \A p \in active_punches : \E t \in Punchers :
          puncher[t].pc \in {"recv", "punched", "give_up"} /\ puncher[t].peer = p

LEMMA SocketIsOne ==
    ASSUME NEW t \in Punchers
    PROVE  SocketOf(t) \in Sockets
BY DEF SocketOf, Sockets

LEMMA PunchRecords ==
    /\ PuncherFree \in PunchCalls
    /\ \A r \in {"none", "degraded", "success", "error"} :
          [PuncherFree EXCEPT !.result = r] \in PunchCalls
    /\ \A p \in PunchPeers : [pc |-> "open", peer |-> p, attempt |-> 0, result |-> "none"] \in PunchCalls
    /\ \A P \in SUBSET PunchPeers : [PuncherFree EXCEPT !.pc = "remove", !.peer = P] \in PunchCalls
BY DEF PuncherFree, PunchCalls, PunchedFor

\* A call that goes on, without and with another attempt.
LEMMA PunchGoesOn ==
    ASSUME NEW t \in Punchers, puncher \in [Punchers -> PunchCalls],
           NEW new \in {"recv", "punched", "give_up"},
           \/ puncher' = [puncher EXCEPT ![t].pc = new]
           \/ puncher' = [puncher EXCEPT ![t].attempt = @ + 1, ![t].pc = new]
    PROVE  /\ puncher' \in [Punchers -> PunchCalls]
           /\ puncher'[t].pc = new /\ puncher'[t].peer = puncher[t].peer
           /\ \A u \in Punchers \ {t} : puncher'[u] = puncher[u]
<1>1. CASE puncher' = [puncher EXCEPT ![t].pc = new]
  BY <1>1 DEF PunchCalls
<1>2. CASE puncher' = [puncher EXCEPT ![t].attempt = @ + 1, ![t].pc = new]
  <2>1. puncher' = [puncher EXCEPT ![t] = [puncher[t] EXCEPT !.attempt = puncher[t].attempt + 1, !.pc = new]]
    BY <1>2
  <2>2. [puncher[t] EXCEPT !.attempt = puncher[t].attempt + 1, !.pc = new] \in PunchCalls
    <3> DEFINE c == puncher[t]
    <3>1. c \in PunchCalls
      OBVIOUS
    <3> HIDE DEF c
    <3>2. c.attempt + 1 \in Nat
      BY <3>1 DEF PunchCalls
    <3>3. [c EXCEPT !.attempt = c.attempt + 1] \in PunchCalls
      BY <3>1, <3>2 DEF PunchCalls
    <3>4. \A d \in PunchCalls : [d EXCEPT !.pc = new] \in PunchCalls
      BY DEF PunchCalls
    <3>5. [c EXCEPT !.attempt = c.attempt + 1, !.pc = new] \in PunchCalls
      BY <3>3, <3>4
    <3>6. QED
      BY <3>5 DEF c
  <2>3. /\ [puncher[t] EXCEPT !.attempt = puncher[t].attempt + 1, !.pc = new].pc = new
        /\ [puncher[t] EXCEPT !.attempt = puncher[t].attempt + 1, !.pc = new].peer = puncher[t].peer
    BY DEF PunchCalls
  <2>4. QED
    BY <2>1, <2>2, <2>3
<1>3. QED
  BY <1>1, <1>2

\* What an attempt does to the call.
LEMMA PunchAttempt ==
    ASSUME PunchTypeOK, NEW t \in Punchers, Receive(t) \/ WouldBlock(t) \/ RecordPunch(t)
    PROVE  /\ puncher' \in [Punchers -> PunchCalls]
           /\ puncher'[t].pc \in {"recv", "punched", "give_up"} /\ puncher'[t].peer = puncher[t].peer
           /\ \A u \in Punchers \ {t} : puncher'[u] = puncher[u]
<1>1. \E new \in {"recv", "punched", "give_up"} :
         \/ puncher' = [puncher EXCEPT ![t].pc = new]
         \/ puncher' = [puncher EXCEPT ![t].attempt = @ + 1, ![t].pc = new]
  <2>1. CASE Receive(t)
    <3>1. CASE IsValidPunchResponse(Head(punchInbox[SocketOf(t)]), puncher[t].peer)
      BY <2>1, <3>1 DEF Receive
    <3>2. CASE ~IsValidPunchResponse(Head(punchInbox[SocketOf(t)]), puncher[t].peer)
      BY <2>1, <3>2 DEF Receive
    <3>3. QED
      BY <3>1, <3>2
  <2>2. CASE WouldBlock(t)
    BY <2>2 DEF WouldBlock
  <2>3. CASE RecordPunch(t)
    BY <2>3 DEF RecordPunch
  <2>4. QED
    BY <2>1, <2>2, <2>3
<1>2. QED
  BY <1>1, PunchGoesOn DEF PunchTypeOK

LEMMA PunchTypeStep ==
    ASSUME PunchTypeOK, PunchNext
    PROVE  PunchTypeOK'
<1> USE DEF PunchTypeOK
<1>1. ASSUME UNCHANGED <<puncher, punchInbox>>
      PROVE  PunchTypeOK'
  BY <1>1
<1>2. ASSUME NEW t \in Punchers, NEW p \in PunchPeers, PunchHole(t, p)
      PROVE  PunchTypeOK'
  BY <1>2, PunchRecords DEF PunchHole
<1>3. ASSUME NEW t \in Punchers, NEW P \in SUBSET PunchPeers, RemovePunched(t, P)
      PROVE  PunchTypeOK'
  BY <1>3, PunchRecords DEF RemovePunched
<1>4. ASSUME NEW t \in Punchers, BindFails(t) \/ EndPunch(t) \/ RemoveActive(t)
      PROVE  PunchTypeOK'
  BY <1>4, PunchRecords DEF BindFails, EndPunch, RemoveActive
<1>5. ASSUME NEW t \in Punchers, Receive(t) \/ WouldBlock(t) \/ RecordPunch(t)
      PROVE  PunchTypeOK'
  <2>1. SocketOf(t) \in Sockets /\ t \in Sockets
    BY SocketIsOne DEF Sockets
  <2>2. \/ punchInbox' = punchInbox
        \/ punchInbox' = [punchInbox EXCEPT ![t] = <<>>]
        \/ /\ punchInbox[SocketOf(t)] # <<>>
           /\ punchInbox' = [punchInbox EXCEPT ![SocketOf(t)] = Tail(@)]
    BY <1>5 DEF Receive, WouldBlock, RecordPunch
  <2>3. punchInbox' \in [Sockets -> Seq(PunchPackets)]
    <3>1. <<>> \in Seq(PunchPackets)
      OBVIOUS
    <3>2. punchInbox[SocketOf(t)] # <<>> => Tail(punchInbox[SocketOf(t)]) \in Seq(PunchPackets)
      BY <2>1
    <3>3. QED
      BY <2>1, <2>2, <3>1, <3>2
  <2>4. QED
    BY <1>5, <2>3, PunchAttempt
<1>6. ASSUME NEW t \in Punchers, NEW p \in PunchPeers, NEW magic \in {"LLHP", "LLKA"},
             PacketArrives(SocketOf(t), [PunchPacket(p) EXCEPT !.magic = magic])
      PROVE  PunchTypeOK'
  <2>1. SocketOf(t) \in Sockets
    BY SocketIsOne
  <2>2. [PunchPacket(p) EXCEPT !.magic = magic] \in PunchPackets
    BY DEF PunchPacket, PunchPackets
  <2>3. QED
    BY <1>6, <2>1, <2>2 DEF PacketArrives
<1>7. QED
  <2>1. ASSUME NEW t \in Punchers, NEW p \in PunchPeers, RemovePeer(t, p) \/ ClearPunches(t)
        PROVE  PunchTypeOK'
    BY <1>3, <2>1 DEF RemovePeer, ClearPunches
  <2>2. ASSUME NEW t \in Punchers, ClearPunches(t)
        PROVE  PunchTypeOK'
    BY <1>3, <2>2 DEF ClearPunches
  <2>3. QED
    BY <1>1, <1>2, <1>4, <1>5, <1>6, <2>1, <2>2
       DEF PunchNext, BindSocket, DetectNatType, SetNatType

LEMMA PunchInvStep ==
    ASSUME PunchTypeOK, PunchInv, PunchNext
    PROVE  PunchInv'
<1> USE DEF PunchTypeOK, PunchInv, PunchCalls
<1>1. ASSUME UNCHANGED <<punched_peers, heard, puncher, punchInbox, active_punches>>
      PROVE  PunchInv'
  BY <1>1
<1>2. ASSUME NEW t \in Punchers, NEW p \in PunchPeers, PunchHole(t, p)
      PROVE  PunchInv'
  BY <1>2 DEF PunchHole, PuncherFree
<1>3. ASSUME NEW t \in Punchers, NEW P, RemovePunched(t, P)
      PROVE  PunchInv'
  BY <1>3 DEF RemovePunched, PuncherFree
<1>4. ASSUME NEW t \in Punchers, BindFails(t)
      PROVE  PunchInv'
  BY <1>4 DEF BindFails, PuncherFree
<1>5. ASSUME NEW t \in Punchers, WouldBlock(t)
      PROVE  PunchInv'
  <2>1. UNCHANGED <<punched_peers, heard, punchInbox, active_punches>> /\ puncher[t].pc = "recv"
    BY <1>5 DEF WouldBlock
  <2>2. QED
    BY <1>5, <2>1, PunchAttempt
<1>6. ASSUME NEW t \in Punchers, EndPunch(t)
      PROVE  PunchInv'
  BY <1>6 DEF EndPunch, PuncherFree
<1>7. ASSUME NEW t \in Punchers, RemoveActive(t)
      PROVE  PunchInv'
  BY <1>7 DEF RemoveActive, PuncherFree
<1>8. ASSUME NEW t \in Punchers, RecordPunch(t)
      PROVE  PunchInv'
  <2>1. \A s \in Sockets : punchInbox'[s] = punchInbox[s] \/ punchInbox'[s] = <<>>
    BY <1>8 DEF RecordPunch
  <2>2. UNCHANGED <<punched_peers, heard>>
    BY <1>8 DEF RecordPunch
  <2>3. \A p \in active_punches' : \E u \in Punchers :
          puncher'[u].pc \in {"recv", "punched", "give_up"} /\ puncher'[u].peer = p
    BY <1>8 DEF RecordPunch
  <2>4. QED
    BY <2>1, <2>2, <2>3
<1>9. ASSUME NEW t \in Punchers, Receive(t)
      PROVE  PunchInv'
  <2> DEFINE s == SocketOf(t)
  <2>1. s \in Sockets
    BY SocketIsOne
  <2> HIDE DEF s
  <2>2. /\ punchInbox[s] # <<>> /\ punchInbox' = [punchInbox EXCEPT ![s] = Tail(@)]
        /\ UNCHANGED <<heard, active_punches>>
        /\ puncher[t].pc = "recv"
    BY <1>9 DEF Receive, s
  <2>3. punched_peers' \subseteq heard
    <3>1. punched_peers' = punched_peers \/
          /\ punched_peers' = punched_peers \cup {puncher[t].peer}
          /\ IsValidPunchResponse(Head(punchInbox[s]), puncher[t].peer)
      BY <1>9 DEF Receive, s
    <3>2. Head(punchInbox[s]).magic = "LLHP" => Head(punchInbox[s]).from \in heard
      BY <2>1, <2>2
    <3>3. QED
      BY <3>1, <3>2 DEF IsValidPunchResponse
  <2>4. \A r \in Sockets : \A i \in 1..Len(punchInbox'[r]) :
           \E j \in 1..Len(punchInbox[r]) : punchInbox'[r][i] = punchInbox[r][j]
    <3> SUFFICES ASSUME NEW r \in Sockets, NEW i \in 1..Len(punchInbox'[r])
                 PROVE  \E j \in 1..Len(punchInbox[r]) : punchInbox'[r][i] = punchInbox[r][j]
      OBVIOUS
    <3>1. CASE r = s
      <4>1. punchInbox'[r] = Tail(punchInbox[s])
        BY <2>1, <2>2, <3>1
      <4>2. punchInbox[s] \in Seq(PunchPackets)
        BY <2>1
      <4> HIDE DEF PunchTypeOK, PunchInv, PunchCalls
      <4>3. i + 1 \in 1..Len(punchInbox[s]) /\ Tail(punchInbox[s])[i] = punchInbox[s][i + 1]
        BY <2>2, <4>1, <4>2, TailIndex
      <4>4. QED
        BY <3>1, <4>1, <4>3
    <3>2. CASE r # s
      BY <2>1, <2>2, <3>2
    <3>3. QED
      BY <3>1, <3>2
  <2>5. \A p \in active_punches' : \E u \in Punchers :
          puncher'[u].pc \in {"recv", "punched", "give_up"} /\ puncher'[u].peer = p
    BY <1>9, <2>2, PunchAttempt
  <2>6. QED
    BY <2>2, <2>3, <2>4, <2>5
<1>10. ASSUME NEW t \in Punchers, NEW p \in PunchPeers, NEW magic \in {"LLHP", "LLKA"},
             PacketArrives(SocketOf(t), [PunchPacket(p) EXCEPT !.magic = magic])
      PROVE  PunchInv'
  <2> DEFINE s == SocketOf(t)
             pkt == [PunchPacket(p) EXCEPT !.magic = magic]
  <2>1. s \in Sockets
    BY SocketIsOne
  <2>2. pkt.magic = magic /\ pkt.from = p
    BY DEF PunchPacket
  <2> HIDE DEF s, pkt
  <2>3. /\ punchInbox' = [punchInbox EXCEPT ![s] = Append(@, pkt)]
        /\ heard' = IF pkt.magic = "LLHP" THEN heard \cup {pkt.from} ELSE heard
        /\ UNCHANGED <<punched_peers, puncher, active_punches>>
    BY <1>10 DEF PacketArrives, s, pkt
  <2>4. \A r \in Sockets : \A i \in 1..Len(punchInbox'[r]) :
           \/ i \in 1..Len(punchInbox[r]) /\ punchInbox'[r][i] = punchInbox[r][i]
           \/ punchInbox'[r][i] = pkt
    BY <2>1, <2>3
  <2>5. QED
    BY <2>2, <2>3, <2>4
<1>11. QED
  BY <1>1, <1>2, <1>3, <1>4, <1>5, <1>6, <1>7, <1>8, <1>9, <1>10
     DEF PunchNext, BindSocket, DetectNatType, SetNatType, RemovePeer, ClearPunches

\* However calls of punch_hole, remove_peer and clear overlap, and whichever of them
\* takes a packet from a shared socket, only peers that were heard count as punched and
\* no punch stays active after its calls (hole_punch.rs, punch_hole).
THEOREM PunchesAreTracked == MeshSpec => []PunchesTracked
<1> DEFINE Inv == PunchTypeOK /\ PunchInv
<1>1. MeshInit => Inv
  <2> SUFFICES ASSUME PunchInit PROVE Inv
    BY DEF MeshInit
  <2>1. PunchTypeOK
    <3>1. <<>> \in Seq(PunchPackets)
      OBVIOUS
    <3>2. QED
      BY <3>1, PunchRecords DEF PunchInit, PunchTypeOK, Sockets
  <2>2. PunchInv
    BY DEF PunchInit, PunchInv, Sockets
  <2>3. QED
    BY <2>1, <2>2
<1>2. Inv /\ [MeshNext]_meshVars => Inv'
  <2> SUFFICES ASSUME Inv, [MeshNext]_meshVars PROVE Inv'
    OBVIOUS
  <2>1. [PunchNext]_punchVars
    BY PunchStep DEF meshVars
  <2>2. CASE PunchNext
    BY <2>2, PunchTypeStep, PunchInvStep
  <2>3. CASE UNCHANGED punchVars
    BY <2>3 DEF punchVars, PunchTypeOK, PunchInv
  <2>4. QED
    BY <2>1, <2>2, <2>3
<1>3. Inv => PunchesTracked
  BY DEF PunchTypeOK, PunchInv, PunchesTracked
<1>4. QED
  BY <1>1, <1>2, <1>3, PTL DEF MeshSpec

-----------------------------------------------------------------------------
(* Multi-path transfer. *)

LEMMA MpStep == MeshNext => [MpNext]_mpVars
BY DEF MeshNext, Rest

\* Numbers below next_seq are the ones that were sent; everything put out is below the
\* expected number, which never passes what was sent.
MpInv ==
    /\ next_seq \in Nat /\ expected_seq \in 0..next_seq
    /\ \A f \in flight : f.seq \in 0..(next_seq - 1)
    /\ reorder \subseteq 0..(next_seq - 1)
    /\ output \in Seq(Nat)
    /\ \A i \in 1..Len(output) : output[i] < expected_seq
    /\ \A i, j \in 1..Len(output) : i < j => output[i] < output[j]

\* What a concatenation holds.
LEMMA Concatenated ==
    ASSUME NEW S, NEW a \in Seq(S), NEW b \in Seq(S)
    PROVE  /\ a \o b \in Seq(S) /\ Len(a \o b) = Len(a) + Len(b)
           /\ \A i \in 1..Len(a) : (a \o b)[i] = a[i]
           /\ \A i \in (Len(a) + 1)..(Len(a) + Len(b)) : (a \o b)[i] = b[i - Len(a)]
OBVIOUS

\* A run of numbers from n on is put after smaller ones.
LEMMA RunAppended ==
    ASSUME NEW q \in Seq(Nat), NEW n \in Nat, NEW m \in Nat, n < m,
           \A i \in 1..Len(q) : q[i] < n,
           \A i, j \in 1..Len(q) : i < j => q[i] < q[j]
    PROVE  LET r == q \o [i \in 1..(m - n) |-> n + i - 1]
           IN  /\ r \in Seq(Nat)
               /\ \A i \in 1..Len(r) : r[i] < m
               /\ \A i, j \in 1..Len(r) : i < j => r[i] < r[j]
<1> DEFINE run == [i \in 1..(m - n) |-> n + i - 1]
           r == q \o run
<1>0. Len(q) \in Nat /\ \A i \in 1..Len(q) : q[i] \in Nat /\ q[i] < n
  OBVIOUS
<1>1. m - n \in Nat
  OBVIOUS
<1>2. run \in [1..(m - n) -> Nat]
  BY <1>1
<1>3. run \in Seq(Nat) /\ Len(run) = m - n
  BY <1>1, <1>2
<1>4. \A i \in 1..(m - n) : run[i] = n + i - 1
  OBVIOUS
<1> HIDE DEF run
<1>5. /\ r \in Seq(Nat) /\ Len(r) = Len(q) + (m - n)
      /\ \A i \in 1..Len(q) : r[i] = q[i]
      /\ \A i \in (Len(q) + 1)..Len(r) : r[i] = run[i - Len(q)]
  <2>1. /\ r \in Seq(Nat) /\ Len(r) = Len(q) + Len(run)
        /\ \A i \in 1..Len(q) : r[i] = q[i]
        /\ \A i \in (Len(q) + 1)..(Len(q) + Len(run)) : r[i] = run[i - Len(q)]
    BY <1>3, Concatenated
  <2> HIDE DEF r
  <2>2. QED
    BY <2>1, <1>3
<1>6. \A i \in (Len(q) + 1)..Len(r) : r[i] = n + (i - Len(q)) - 1
  <2> SUFFICES ASSUME NEW i \in (Len(q) + 1)..Len(r) PROVE r[i] = n + (i - Len(q)) - 1
    OBVIOUS
  <2>1. i - Len(q) \in 1..(m - n)
    BY <1>1, <1>5
  <2>2. QED
    BY <2>1, <1>4, <1>5
<1> HIDE DEF r
<1>7. \A i \in 1..Len(r) : r[i] < m
  <2> SUFFICES ASSUME NEW i \in 1..Len(r) PROVE r[i] < m
    OBVIOUS
  <2>1. CASE i \in 1..Len(q)
    BY <2>1, <1>5
  <2>2. CASE i \in (Len(q) + 1)..Len(r)
    BY <2>2, <1>5, <1>6
  <2>3. QED
    BY <2>1, <2>2
<1>8. ASSUME NEW i \in 1..Len(r), NEW j \in 1..Len(r), i < j
      PROVE  r[i] < r[j]
  <2>1. CASE j \in 1..Len(q)
    <3>1. i \in 1..Len(q)
      BY <2>1, <1>0, <1>8, <1>5
    <3>2. r[i] = q[i] /\ r[j] = q[j] /\ q[i] < q[j]
      BY ONLY <2>1, <3>1, <1>5, <1>8, \A a, b \in 1..Len(q) : a < b => q[a] < q[b]
    <3>3. QED
      BY <3>2
  <2>2. CASE i \in 1..Len(q) /\ j \in (Len(q) + 1)..Len(r)
    <3>1. q[i] < n /\ q[i] \in Nat /\ r[i] = q[i]
      BY ONLY <2>2, <1>0, <1>5
    <3>2. r[j] = n + (j - Len(q)) - 1 /\ j - Len(q) >= 1
      BY <2>2, <1>6
    <3>3. QED
      BY <3>1, <3>2
  <2>3. CASE i \in (Len(q) + 1)..Len(r) /\ j \in (Len(q) + 1)..Len(r)
    BY <2>3, <1>6, <1>8
  <2>4. QED
    BY <2>1, <2>2, <2>3, <1>8
<1>9. QED
  BY <1>5, <1>7, <1>8 DEF r, run

LEMMA MpInvStep ==
    ASSUME MpInv, MpNext
    PROVE  MpInv'
<1>1. ASSUME UNCHANGED <<next_seq, flight, reorder, expected_seq, output>>
      PROVE  MpInv'
  BY <1>1 DEF MpInv
<1>2. ASSUME NEW len \in DataLens, SendViaPaths(len)
      PROVE  MpInv'
  <2>1. FragmentCount(len) \in Nat
    BY MultipathAssumption DEF FragmentCount
  <2>2. /\ next_seq' = next_seq + FragmentCount(len)
        /\ UNCHANGED <<reorder, expected_seq, output>>
    BY <1>2 DEF SendViaPaths
  <2>3. \A f \in flight' : f \in flight \/ f.seq \in next_seq..(next_seq + FragmentCount(len) - 1)
    BY <1>2 DEF SendViaPaths, Fragment
  <2>4. \A f \in flight' : f.seq \in 0..(next_seq' - 1)
    BY <2>1, <2>2, <2>3 DEF MpInv
  <2>5. QED
    BY <2>1, <2>2, <2>4 DEF MpInv
<1>3. ASSUME NEW f \in flight, InsertFragment(f), f.seq = expected_seq
      PROVE  MpInv'
  <2>1. PICK m \in (f.seq + 1) .. (f.seq + 1 + Cardinality(reorder)) :
           /\ FirstGap(f.seq, m)
           /\ output' = output \o [i \in 1 .. (m - f.seq) |-> f.seq + i - 1]
           /\ reorder' = reorder \ (f.seq + 1) .. (m - 1)
           /\ expected_seq' = m
    <3>1. f.seq \in Nat
      BY DEF MpInv
    <3>2. ~(f.seq > expected_seq)
      BY <1>3, <3>1
    <3>3. QED
      BY <1>3, <3>2 DEF InsertFragment
  <2>2. f.seq \in Nat /\ f.seq < next_seq /\ m \in Int /\ f.seq < m
    BY <2>1 DEF MpInv
  <2>3. m <= next_seq
    <3>1. CASE m = f.seq + 1
      BY <2>2, <3>1 DEF MpInv
    <3>2. CASE m # f.seq + 1
      <4>1. m - 1 \in (f.seq + 1) .. (m - 1)
        BY <2>2, <3>2
      <4>2. QED
        BY <2>1, <2>2, <4>1 DEF FirstGap, MpInv
    <3>3. QED
      BY <3>1, <3>2
  <2>4. UNCHANGED <<next_seq, flight>>
    BY <1>3 DEF InsertFragment
  <2>5. /\ output' \in Seq(Nat)
        /\ \A i \in 1..Len(output') : output'[i] < m
        /\ \A i, j \in 1..Len(output') : i < j => output'[i] < output'[j]
    <3>1. /\ output \in Seq(Nat) /\ m \in Nat /\ f.seq < m
          /\ \A i \in 1..Len(output) : output[i] < f.seq
          /\ \A i, j \in 1..Len(output) : i < j => output[i] < output[j]
      BY <1>3, <2>2 DEF MpInv
    <3>2. LET r == output \o [i \in 1..(m - f.seq) |-> f.seq + i - 1]
          IN  /\ r \in Seq(Nat)
              /\ \A i \in 1..Len(r) : r[i] < m
              /\ \A i, j \in 1..Len(r) : i < j => r[i] < r[j]
      BY ONLY <2>2, <3>1, RunAppended
    <3>3. QED
      BY <2>1, <3>2
  <2>6. expected_seq' = m /\ expected_seq' \in 0..next_seq' /\ next_seq' \in Nat
    BY <2>1, <2>2, <2>3, <2>4 DEF MpInv
  <2>7. /\ \A g \in flight' : g.seq \in 0..(next_seq' - 1)
        /\ reorder' \subseteq 0..(next_seq' - 1)
    BY <2>1, <2>4 DEF MpInv
  <2>8. QED
    BY ONLY <2>5, <2>6, <2>7 DEF MpInv
<1>4. ASSUME NEW f \in flight, InsertFragment(f), f.seq # expected_seq
      PROVE  MpInv'
  BY <1>4 DEF InsertFragment, MpInv
<1>5. ASSUME NEW f \in flight, LoseFragment(f)
      PROVE  MpInv'
  BY <1>5 DEF LoseFragment, MpInv
<1>6. CASE SkipLost
  <2>1. PICK m \in reorder : m > expected_seq /\ expected_seq' = m
    BY <1>6 DEF SkipLost
  <2>2. UNCHANGED <<next_seq, flight, reorder, output>>
    BY <1>6 DEF SkipLost
  <2>3. QED
    BY <2>1, <2>2 DEF MpInv
<1>7. CASE ClearReorder
  BY <1>7 DEF ClearReorder, MpInv
<1>8. QED
  BY <1>1, <1>2, <1>3, <1>4, <1>5, <1>6, <1>7
     DEF MpNext, AddPath, RemovePath, RecordAck, RecordLoss, UpdatePathLatency

\* Whatever paths carry the fragments, and whatever is lost, repeated, overtaken or
\* skipped, the reorder buffer puts them out in order and once (multipath.rs,
\* ReorderBuffer).
THEOREM FragmentsInOrder == MeshSpec => []InOrderOnce
<1>1. MeshInit => MpInv
  BY DEF MeshInit, MpInit, ReorderInit, MpInv
<1>2. MpInv /\ [MeshNext]_meshVars => MpInv'
  <2> SUFFICES ASSUME MpInv, [MeshNext]_meshVars PROVE MpInv'
    OBVIOUS
  <2>1. [MpNext]_mpVars
    BY MpStep DEF meshVars
  <2>2. CASE MpNext
    BY <2>2, MpInvStep
  <2>3. CASE UNCHANGED mpVars
    BY <2>3 DEF mpVars, MpInv
  <2>4. QED
    BY <2>1, <2>2, <2>3
<1>3. MpInv => InOrderOnce
  BY DEF MpInv, InOrderOnce
<1>4. QED
  BY <1>1, <1>2, <1>3, PTL DEF MeshSpec
-----------------------------------------------------------------------------
(* The router. *)

LEMMA VpnStep == MeshNext => [VpnNext]_<<addressVars, lanVars, vpnVars>>
BY DEF MeshNext, Rest

CallPcs ==
    {"free", "outer", "cache", "static", "store", "keep", "keep_inner",
     "lan", "lan_wait", "lan_write", "relay", "pong"}

\* The points at which a call has resolved its name.
Resolved == {"store", "keep", "keep_inner", "lan", "lan_wait", "lan_write", "relay", "pong"}

RouterCalls ==
    [pc : CallPcs, op : {"send", "ping"}, name : Names \cup {EmptyName}, id : Ids \cup {NoId}, ping : Nat]

Entries == [id : Ids \cup {NoId}, inserted_at : Nat]

RouterTypeOK ==
    /\ static_map \in [Names -> Ids \cup {NoId}]
    /\ cache \in [Names -> Entries] /\ outer \in [Names -> Entries]
    /\ addressNow \in Nat /\ pings \in Nat
    /\ call \in [Callers -> RouterCalls]
    /\ mapped \in [Names -> SUBSET Ids]
    /\ DOMAIN lanNodes = Names /\ DOMAIN vpnNodes = Names

\* An id that the resolver holds for a name is one that the name was mapped to.
MapsKnown ==
    \A n \in Names :
        /\ static_map[n] # NoId => static_map[n] \in mapped[n]
        /\ cache[n].id # NoId => cache[n].id \in mapped[n]
        /\ outer[n].id # NoId => outer[n].id \in mapped[n]

NodesAnnounced == \A n \in Names : Discovered(n) => n \in announced

\* A call holds an id of its name from the resolution on, even if the mapping is gone;
\* it writes to the local network only if its node announced itself there, and waits for
\* a PONG only after the relay took its message.
CallJustified(c) ==
    /\ c.pc # "free" => c.name \in Names
    /\ c.pc \in Resolved => c.id \in mapped[c.name]
    /\ c.pc \in {"lan_wait", "lan_write"} => hasLan
    /\ c.pc = "lan_write" => c.name \in announced
    /\ c.pc = "pong" => c.id \in accepted

RouterInv ==
    /\ RouterTypeOK /\ MapsKnown /\ NodesAnnounced /\ RouteJustified
    /\ \A t \in Callers : CallJustified(call[t])

\* A call moves on with what it has, ...
LEMMA GoesOn ==
    ASSUME RouterTypeOK, NEW t \in Callers, NEW pc \in CallPcs, Goes(t, pc)
    PROVE  /\ call' \in [Callers -> RouterCalls]
           /\ call'[t].pc = pc /\ call'[t].name = call[t].name /\ call'[t].id = call[t].id
           /\ \A u \in Callers \ {t} : call'[u] = call[u]
<1>1. call' = [call EXCEPT ![t].pc = pc]
  BY DEF Goes
<1>2. [call[t] EXCEPT !.pc = pc] \in RouterCalls
  BY DEF RouterTypeOK, RouterCalls
<1>3. call'[t] = [call[t] EXCEPT !.pc = pc]
  BY <1>1 DEF RouterTypeOK
<1>4. QED
  BY <1>1, <1>2, <1>3 DEF RouterTypeOK, RouterCalls

\* ... with the id that it found, ...
LEMMA GoesWithId ==
    ASSUME RouterTypeOK, NEW t \in Callers, NEW pc \in CallPcs, NEW id \in Ids, HasId(t, pc, id)
    PROVE  /\ call' \in [Callers -> RouterCalls]
           /\ call'[t].pc = pc /\ call'[t].name = call[t].name /\ call'[t].id = id
           /\ \A u \in Callers \ {t} : call'[u] = call[u]
<1> DEFINE c == [call EXCEPT ![t].pc = pc]
<1>1. call' = [c EXCEPT ![t].id = id]
  BY DEF HasId
<1>2. [call[t] EXCEPT !.pc = pc] \in RouterCalls
  BY DEF RouterTypeOK, RouterCalls
<1>3. /\ c \in [Callers -> RouterCalls]
      /\ c[t].pc = pc /\ c[t].name = call[t].name
      /\ \A u \in Callers \ {t} : c[u] = call[u]
  BY <1>2 DEF RouterTypeOK, RouterCalls
<1> HIDE DEF c
<1>4. [c[t] EXCEPT !.id = id] \in RouterCalls
  BY <1>3 DEF RouterCalls
<1>5. call'[t] = [c[t] EXCEPT !.id = id]
  BY <1>1, <1>3
<1>6. QED
  BY <1>1, <1>3, <1>4, <1>5 DEF RouterCalls

\* ... or ends.
LEMMA GoesHome ==
    ASSUME RouterTypeOK, NEW t \in Callers, call' = [call EXCEPT ![t] = CallFree]
    PROVE  /\ call' \in [Callers -> RouterCalls]
           /\ call'[t].pc = "free"
           /\ \A u \in Callers \ {t} : call'[u] = call[u]
<1>1. CallFree \in RouterCalls /\ CallFree.pc = "free"
  BY DEF CallFree, RouterCalls, CallPcs
<1>2. QED
  BY <1>1 DEF RouterTypeOK

\* The histories only grow, so a call that does not move stays justified.
LEMMA CallStays ==
    ASSUME NEW c \in RouterCalls, CallJustified(c),
           RouterTypeOK, UNCHANGED hasLan,
           \A n \in Names : mapped[n] \subseteq mapped'[n],
           announced \subseteq announced', accepted \subseteq accepted'
    PROVE  /\ c.pc # "free" => c.name \in Names
           /\ c.pc \in Resolved => c.id \in mapped'[c.name]
           /\ c.pc \in {"lan_wait", "lan_write"} => hasLan'
           /\ c.pc = "lan_write" => c.name \in announced'
           /\ c.pc = "pong" => c.id \in accepted'
BY DEF CallJustified, RouterCalls, Resolved

\* A step of the resolver.
LEMMA ResolveStepInv ==
    ASSUME RouterInv, NEW t \in Callers, ResolveStep(t), UNCHANGED <<lanVars, vpnVars>>
    PROVE  RouterInv'
<1> USE DEF RouterInv
<1> DEFINE n == call[t].name
           Others == \A u \in Callers \ {t} : call'[u] = call[u]
<1>0. /\ UNCHANGED <<wrapped, static_map, addressNow, events, mapped, lanVars, vpnVars>>
      /\ call[t].pc # "free"
  BY DEF ResolveStep, ResolveOuter, ResolveCache, ResolveStatic, CacheStore, OuterStore, InnerStore
<1>1. n \in Names /\ call[t] \in RouterCalls
  BY <1>0 DEF CallJustified, RouterTypeOK
<1>2. /\ UNCHANGED <<static_map, addressNow, pings, mapped, lanNodes, vpnNodes, announced, accepted, hasLan>>
  BY <1>0 DEF lanVars, vpnVars
<1>3. NodesAnnounced' /\ RouteJustified'
  BY <1>2 DEF NodesAnnounced, Discovered, RouteJustified
\* It is enough that the caches stay known and that this call is justified where it arrives.
<1>4. ASSUME call' \in [Callers -> RouterCalls], Others,
             cache' \in [Names -> Entries], outer' \in [Names -> Entries],
             \A m \in Names : /\ cache'[m].id # NoId => cache'[m].id \in mapped[m]
                              /\ outer'[m].id # NoId => outer'[m].id \in mapped[m],
             CallJustified(call[t])'
      PROVE  RouterInv'
  <2>1. RouterTypeOK'
    BY <1>2, <1>4 DEF RouterTypeOK
  <2>2. MapsKnown'
    BY <1>2, <1>4 DEF MapsKnown
  <2>3. ASSUME NEW u \in Callers \ {t} PROVE CallJustified(call[u])'
    BY <1>2, <1>4, <2>3 DEF CallJustified
  <2>4. QED
    BY <1>3, <1>4, <2>1, <2>2, <2>3
<1>5. CASE UNCHANGED <<cache, outer>> /\ \E pc \in CallPcs \ Resolved : Goes(t, pc)
  <2>1. PICK pc \in CallPcs \ Resolved : Goes(t, pc)
    BY <1>5
  <2>2. /\ call' \in [Callers -> RouterCalls] /\ Others
        /\ call'[t].pc = pc /\ call'[t].name = n
    BY <2>1, GoesOn
  <2>3. CallJustified(call[t])'
    BY <1>1, <2>2 DEF CallJustified, Resolved
  <2>4. QED
    BY <1>4, <1>5, <2>2, <2>3 DEF RouterTypeOK, MapsKnown
<1>6. CASE UNCHANGED <<cache, outer>> /\ \E pc \in {"lan", "keep", "store"}, id \in mapped[n] : HasId(t, pc, id)
  <2>1. PICK pc \in {"lan", "keep", "store"}, id \in mapped[n] : HasId(t, pc, id)
    BY <1>6
  <2>2. id \in Ids /\ pc \in CallPcs
    BY <1>1 DEF RouterTypeOK, CallPcs
  <2>3. /\ call' \in [Callers -> RouterCalls] /\ Others
        /\ call'[t].pc = pc /\ call'[t].name = n /\ call'[t].id = id
    BY <2>1, <2>2, GoesWithId
  <2>4. CallJustified(call[t])'
    BY <1>1, <1>2, <2>3 DEF CallJustified, Resolved
  <2>5. QED
    BY <1>4, <1>6, <2>3, <2>4 DEF RouterTypeOK, MapsKnown
<1>7. CASE UNCHANGED <<cache, outer>> /\ call' = [call EXCEPT ![t] = CallFree]
  <2>1. /\ call' \in [Callers -> RouterCalls] /\ Others
        /\ call'[t].pc = "free"
    BY <1>7, GoesHome
  <2>2. CallJustified(call[t])'
    BY <2>1 DEF CallJustified, Resolved
  <2>3. QED
    BY <1>4, <1>7, <2>1, <2>2 DEF RouterTypeOK, MapsKnown
<1>8. ASSUME call[t].pc \in {"store", "keep", "keep_inner"},
             NEW pc \in {"lan", "keep", "keep_inner"}, Goes(t, pc),
             \/ /\ cache' = [cache EXCEPT ![n] = [id |-> call[t].id, inserted_at |-> addressNow]]
                /\ UNCHANGED outer
             \/ /\ outer' = [outer EXCEPT ![n] = [id |-> call[t].id, inserted_at |-> addressNow]]
                /\ UNCHANGED cache
      PROVE  RouterInv'
  <2>1. call[t].id \in mapped[n] /\ call[t].id \in Ids /\ pc \in CallPcs
    BY <1>1, <1>8 DEF CallJustified, Resolved, RouterTypeOK, CallPcs
  <2>2. /\ call' \in [Callers -> RouterCalls] /\ Others
        /\ call'[t].pc = pc /\ call'[t].name = n /\ call'[t].id = call[t].id
    BY <1>8, <2>1, GoesOn
  <2>3. CallJustified(call[t])'
    BY <1>1, <1>2, <1>8, <2>1, <2>2 DEF CallJustified, Resolved
  <2> DEFINE e == [id |-> call[t].id, inserted_at |-> addressNow]
  <2>4. e \in Entries /\ e.id = call[t].id
    BY <2>1 DEF Entries, RouterTypeOK
  <2> HIDE DEF e
  <2>5. /\ cache' \in [Names -> Entries] /\ outer' \in [Names -> Entries]
        /\ \A m \in Names : /\ cache'[m] = cache[m] \/ (m = n /\ cache'[m] = e)
                            /\ outer'[m] = outer[m] \/ (m = n /\ outer'[m] = e)
    BY <1>1, <1>8, <2>4 DEF RouterTypeOK, e
  <2>6. \A m \in Names : /\ cache'[m].id # NoId => cache'[m].id \in mapped[m]
                         /\ outer'[m].id # NoId => outer'[m].id \in mapped[m]
    BY <2>1, <2>4, <2>5 DEF MapsKnown
  <2>7. QED
    BY <1>4, <2>2, <2>3, <2>5, <2>6
<1>9. CASE ResolveOuter(t)
  <2>1. CASE Fresh(outer[n])
    <3>1. outer[n].id \in mapped[n]
      BY <1>1, <2>1 DEF Fresh, MapsKnown
    <3>2. QED
      BY <1>6, <1>9, <2>1, <3>1 DEF ResolveOuter
  <2>2. CASE ~Fresh(outer[n])
    BY <1>5, <1>9, <2>2 DEF ResolveOuter, CallPcs, Resolved
  <2>3. QED
    BY <2>1, <2>2
<1>10. CASE ResolveCache(t)
  <2>1. CASE Fresh(cache[n])
    <3>1. cache[n].id \in mapped[n]
      BY <1>1, <2>1 DEF Fresh, MapsKnown
    <3>2. QED
      BY <1>6, <1>10, <2>1, <3>1 DEF ResolveCache
  <2>2. CASE ~Fresh(cache[n])
    BY <1>5, <1>10, <2>2 DEF ResolveCache, CallPcs, Resolved
  <2>3. QED
    BY <2>1, <2>2
<1>11. CASE ResolveStatic(t)
  <2>1. CASE static_map[n] # NoId
    <3>1. static_map[n] \in mapped[n]
      BY <1>1, <2>1 DEF MapsKnown
    <3>2. QED
      BY <1>6, <1>11, <2>1, <3>1 DEF ResolveStatic
  <2>2. CASE ~(static_map[n] # NoId)
    BY <1>7, <1>11, <2>2 DEF ResolveStatic
  <2>3. QED
    BY <2>1, <2>2
<1>12. CASE CacheStore(t)
  BY <1>8, <1>12 DEF CacheStore
<1>13. CASE OuterStore(t)
  BY <1>8, <1>13 DEF OuterStore
<1>14. CASE InnerStore(t)
  BY <1>8, <1>14 DEF InnerStore
<1>15. QED
  BY <1>9, <1>10, <1>11, <1>12, <1>13, <1>14 DEF ResolveStep
\* Changes of the configuration, and time.
LEMMA ConfigStepInv ==
    ASSUME RouterInv, UNCHANGED <<lanVars, vpnVars>>,
           \/ \E n \in Names, id \in Ids : AddStaticMapping(n, id)
           \/ \E n \in Names : RemoveStaticMapping(n)
           \/ ClearCache \/ AddressTick
    PROVE  RouterInv'
<1> USE DEF RouterInv
<1>1. UNCHANGED <<pings, lanNodes, vpnNodes, announced, accepted, hasLan, call>>
  BY DEF lanVars, vpnVars, AddStaticMapping, RemoveStaticMapping, ClearCache, AddressTick
<1>2. NoEntry \in Entries /\ NoEntry.id = NoId
  BY DEF NoEntry, Entries
<1>3. NodesAnnounced'
  BY <1>1 DEF NodesAnnounced, Discovered
<1>4. /\ RouterTypeOK' /\ MapsKnown'
      /\ \A n \in Names : mapped[n] \subseteq mapped'[n]
  <2>1. CASE \E n \in Names, id \in Ids : AddStaticMapping(n, id)
    BY <1>1, <2>1 DEF AddStaticMapping, RouterTypeOK, MapsKnown
  <2>2. CASE \E n \in Names : RemoveStaticMapping(n)
    BY <1>1, <2>2 DEF RemoveStaticMapping, RouterTypeOK, MapsKnown
  <2>3. CASE ClearCache
    <3>1. /\ cache' = [n \in Names |-> NoEntry] /\ outer' = [n \in Names |-> NoEntry]
          /\ UNCHANGED <<static_map, addressNow, mapped>>
      BY <2>3 DEF ClearCache
    <3>2. QED
      BY <1>1, <1>2, <3>1 DEF RouterTypeOK, MapsKnown
  <2>4. CASE AddressTick
    BY <1>1, <2>4 DEF AddressTick, RouterTypeOK, MapsKnown
  <2>5. QED
    BY <2>1, <2>2, <2>3, <2>4
<1>5. RouteJustified'
  BY <1>1, <1>4 DEF RouteJustified
<1>6. ASSUME NEW t \in Callers PROVE CallJustified(call[t])'
  BY <1>1, <1>4, CallStays DEF CallJustified, RouterTypeOK
<1>7. QED
  BY <1>3, <1>4, <1>5, <1>6

\* A step of the socket's thread, and the status of the nodes.
LEMMA LanStepInv ==
    ASSUME RouterInv, UNCHANGED vpnVars,
           \/ LanStart \/ LanStop
           \/ \E f \in UdpFrames : ReceiveFrame(f)
           \/ ReadTimeout \/ TakeReceivedData \/ UpdateNodeStatus
    PROVE  RouterInv'
<1> USE DEF RouterInv
<1>1. UNCHANGED <<static_map, cache, outer, addressNow, call, mapped, pings, vpnNodes, accepted, hasLan>>
  BY DEF vpnVars, addressVars, LanStart, LanStop, ReceiveFrame, ReadTimeout, TakeReceivedData, UpdateNodeStatus
<1>2. DOMAIN lanNodes' = Names /\ NodesAnnounced' /\ announced \subseteq announced'
  <2>1. CASE UNCHANGED <<lanNodes, announced>>
    BY <2>1 DEF NodesAnnounced, Discovered, RouterTypeOK
  <2>2. ASSUME NEW f \in UdpFrames, ReceiveFrame(f)
        PROVE  DOMAIN lanNodes' = Names /\ NodesAnnounced' /\ announced \subseteq announced'
    <3>1. CASE lanNodes' = lanNodes
      BY <2>2, <3>1 DEF ReceiveFrame, NodesAnnounced, Discovered, RouterTypeOK
    <3>2. CASE lanNodes' # lanNodes
      <4> DEFINE seen == [seen |-> addressNow, status |-> "Online"]
      <4>1. /\ lanNodes' = [lanNodes EXCEPT ![f.name] = seen]
            /\ f.name # LocalName
            /\ \/ f.type \in {"Discover", "DiscoverReply"} /\ f.whole
               \/ Discovered(f.name)
        BY <2>2, <3>2 DEF ReceiveFrame, NodesAfter, ParseUdpFrame, UdpFrames
      <4>2. f.name \in Names
        BY <4>1 DEF UdpFrames
      <4>3. f.name \in announced' /\ announced \subseteq announced'
        BY <2>2, <4>1, <4>2 DEF ReceiveFrame, NodesAnnounced
      <4> HIDE DEF seen
      <4>4. QED
        BY <4>1, <4>2, <4>3 DEF NodesAnnounced, Discovered, RouterTypeOK
    <3>3. QED
      BY <3>1, <3>2
  <2>3. CASE UpdateNodeStatus
    BY <2>3 DEF UpdateNodeStatus, NodesAnnounced, Discovered
  <2>4. QED
    BY <2>1, <2>2, <2>3 DEF LanStart, LanStop, ReadTimeout, TakeReceivedData
<1>3. RouterTypeOK' /\ MapsKnown'
  BY <1>1, <1>2 DEF RouterTypeOK, MapsKnown
<1>4. RouteJustified'
  BY <1>1, <1>2 DEF RouteJustified
<1>5. ASSUME NEW t \in Callers PROVE CallJustified(call[t])'
  BY <1>1, <1>2, CallStays DEF CallJustified, RouterTypeOK
<1>6. QED
  BY <1>2, <1>3, <1>4, <1>5

\* A call of the router: how it begins, ...
LEMMA BeginStepInv ==
    ASSUME RouterInv, NEW t \in Callers, NEW g \in Targets, BeginSend(t, g) \/ BeginPing(t, g)
    PROVE  RouterInv'
<1> USE DEF RouterInv
<1> DEFINE pc == IF wrapped THEN "outer" ELSE "cache"
<1>1. g[2] \in Names /\ pc \in CallPcs
  BY AddressAssumption DEF BeginSend, BeginPing, CallPcs
<1> HIDE DEF pc
<1>2. /\ UNCHANGED <<static_map, cache, outer, addressNow, mapped, lanNodes, vpnNodes, announced, accepted, hasLan>>
      /\ pings' \in Nat
  BY DEF BeginSend, BeginPing, lanVars, vpnVars, RouterTypeOK
<1>3. \E op \in {"send", "ping"}, k \in Nat :
         call' = [call EXCEPT ![t] = [pc |-> pc, op |-> op, name |-> g[2], id |-> NoId, ping |-> k]]
  BY DEF BeginSend, BeginPing, NewCall, RouterTypeOK, pc
<1>4. PICK op \in {"send", "ping"}, k \in Nat :
         call' = [call EXCEPT ![t] = [pc |-> pc, op |-> op, name |-> g[2], id |-> NoId, ping |-> k]]
  BY <1>3
<1>5. [pc |-> pc, op |-> op, name |-> g[2], id |-> NoId, ping |-> k] \in RouterCalls
  BY <1>1 DEF RouterCalls
<1>6. /\ call' \in [Callers -> RouterCalls]
      /\ call'[t].pc = pc /\ call'[t].name = g[2]
      /\ \A u \in Callers \ {t} : call'[u] = call[u]
  BY <1>4, <1>5 DEF RouterTypeOK
<1>7. RouterTypeOK' /\ MapsKnown' /\ NodesAnnounced' /\ RouteJustified'
  BY <1>2, <1>6 DEF RouterTypeOK, MapsKnown, NodesAnnounced, Discovered, RouteJustified
<1>8. ASSUME NEW u \in Callers \ {t} PROVE CallJustified(call[u])'
  BY <1>2, <1>6 DEF CallJustified
<1>9. CallJustified(call[t])'
  BY <1>1, <1>6 DEF CallJustified, Resolved, pc
<1>10. QED
  BY <1>7, <1>8, <1>9

\* ... and how it goes on after the resolution.
LEMMA CallStepInv ==
    ASSUME RouterInv, NEW t \in Callers,
           PushListener(t) \/ TryLan(t) \/ LanWrite(t) \/ RelayAnswers(t) \/ PingEnds(t)
    PROVE  RouterInv'
<1> USE DEF RouterInv
<1> DEFINE n == call[t].name
           Others == \A u \in Callers \ {t} : call'[u] = call[u]
<1>1. UNCHANGED <<static_map, cache, outer, addressNow, mapped, lanNodes, pings, announced, hasLan>>
  BY DEF PushListener, TryLan, LanLookup, LanLookAgain, LanWrite, RelayAnswers, PingEnds, AddressRest,
         addressVars, lanVars, vpnVars
<1>2. /\ call[t].pc \in Resolved \ {"store", "keep", "keep_inner"}
      /\ n \in Names /\ call[t].id \in mapped[n] /\ call[t] \in RouterCalls
  BY DEF PushListener, TryLan, LanLookup, LanLookAgain, LanWrite, RelayAnswers, PingEnds,
         CallJustified, Resolved, RouterTypeOK
<1>3. MapsKnown' /\ NodesAnnounced'
  BY <1>1 DEF MapsKnown, NodesAnnounced, Discovered
\* Where the call goes, with what it has.
<1>4. ASSUME call' \in [Callers -> RouterCalls], Others, accepted \subseteq accepted', UNCHANGED vpnNodes,
             CallJustified(call[t])'
      PROVE  RouterInv'
  <2>1. RouterTypeOK' /\ RouteJustified'
    BY <1>1, <1>4 DEF RouterTypeOK, RouteJustified
  <2>2. ASSUME NEW u \in Callers \ {t} PROVE CallJustified(call[u])'
    BY <1>1, <1>4 DEF CallJustified
  <2>3. QED
    BY <1>3, <1>4, <2>1, <2>2
\* A call that ends with a node to record.
<1>5. ASSUME CallEnds(t), accepted \subseteq accepted', NEW via \in {"Lan", "Vpn"}, UpdateNode(t, via),
             via = "Lan" => hasLan /\ n \in announced,
             via = "Vpn" => call[t].id \in accepted'
      PROVE  RouterInv'
  <2>1. /\ call' \in [Callers -> RouterCalls] /\ Others
        /\ call'[t].pc = "free"
    BY <1>5, GoesHome DEF CallEnds
  <2> DEFINE node == [id |-> call[t].id, via |-> via]
  <2>2. vpnNodes' = [vpnNodes EXCEPT ![n] = node]
    BY <1>5 DEF UpdateNode
  <2>3. node.id = call[t].id /\ node.via = via
    OBVIOUS
  <2> HIDE DEF node
  <2>4. RouteJustified'
    BY <1>1, <1>2, <1>5, <2>2, <2>3 DEF RouteJustified, RouterTypeOK
  <2>5. RouterTypeOK'
    BY <1>1, <2>1, <2>2 DEF RouterTypeOK
  <2>6. ASSUME NEW u \in Callers \ {t} PROVE CallJustified(call[u])'
    BY <1>1, <1>5, <2>1 DEF CallJustified
  <2>7. CallJustified(call[t])'
    BY <2>1 DEF CallJustified, Resolved
  <2>8. QED
    BY <1>3, <2>4, <2>5, <2>6, <2>7
<1>6. ASSUME CallEnds(t), accepted \subseteq accepted', UNCHANGED vpnNodes
      PROVE  RouterInv'
  <2>1. /\ call' \in [Callers -> RouterCalls] /\ Others
        /\ call'[t].pc = "free"
    BY <1>6, GoesHome DEF CallEnds
  <2>2. QED
    BY <1>4, <1>6, <2>1 DEF CallJustified, Resolved
<1>7. ASSUME NEW pc \in {"lan_write", "lan_wait", "relay", "pong"}, Goes(t, pc),
             accepted \subseteq accepted', UNCHANGED vpnNodes,
             pc \in {"lan_wait", "lan_write"} => hasLan,
             pc = "lan_write" => n \in announced,
             pc = "pong" => call[t].id \in accepted'
      PROVE  RouterInv'
  <2>1. pc \in CallPcs
    BY DEF CallPcs
  <2>2. /\ call' \in [Callers -> RouterCalls] /\ Others
        /\ call'[t].pc = pc /\ call'[t].name = n /\ call'[t].id = call[t].id
    BY <1>7, <2>1, GoesOn
  <2>3. CallJustified(call[t])'
    BY <1>1, <1>2, <1>7, <2>2 DEF CallJustified
  <2>4. QED
    BY <1>4, <1>7, <2>2, <2>3
<1>8. CASE PushListener(t)
  <2>1. UNCHANGED <<call, vpnNodes, accepted>>
    BY <1>8 DEF PushListener, addressVars
  <2>2. QED
    BY <1>1, <1>2, <1>4, <2>1 DEF RouterTypeOK, CallJustified
<1>9. CASE TryLan(t)
  <2>1. UNCHANGED <<vpnNodes, accepted>>
    BY <1>9 DEF TryLan, vpnVars
  <2>2. CASE hasLan /\ LanLookup(t)
    BY <1>2, <1>7, <2>1, <2>2 DEF LanLookup, NodesAnnounced
  <2>3. CASE LanLookAgain(t)
    <3>1. hasLan
      BY <2>3 DEF LanLookAgain, CallJustified
    <3>2. CASE Discovered(n)
      BY <1>2, <1>7, <2>1, <2>3, <3>1, <3>2 DEF LanLookAgain, NodesAnnounced
    <3>3. CASE ~Discovered(n)
      BY <1>7, <2>1, <2>3, <3>3 DEF LanLookAgain
    <3>4. QED
      BY <3>2, <3>3
  <2>4. CASE ~hasLan /\ Goes(t, "relay")
    BY <1>7, <2>1, <2>4
  <2>5. QED
    BY <1>9, <2>2, <2>3, <2>4 DEF TryLan
<1>10. CASE LanWrite(t)
  <2>1. UNCHANGED accepted /\ hasLan /\ n \in announced
    BY <1>10 DEF LanWrite, CallJustified
  <2>2. QED
    BY <1>5, <1>7, <1>10, <2>1 DEF LanWrite
<1>11. CASE RelayAnswers(t)
  <2>1. CASE CallEnds(t) /\ UNCHANGED <<vpnNodes, accepted>>
    BY <1>6, <2>1
  <2>2. CASE CallEnds(t) /\ accepted' = accepted \cup {call[t].id} /\ UpdateNode(t, "Vpn")
    BY <1>5, <2>2
  <2>3. CASE Goes(t, "pong") /\ accepted' = accepted \cup {call[t].id} /\ UNCHANGED vpnNodes
    BY <1>7, <2>3
  <2>4. QED
    BY <1>11, <2>1, <2>2, <2>3 DEF RelayAnswers
<1>12. CASE PingEnds(t)
  <2>1. CallEnds(t) /\ UNCHANGED accepted /\ call[t].id \in accepted
    BY <1>12 DEF PingEnds, CallJustified
  <2>2. QED
    BY <1>5, <1>6, <1>12, <2>1 DEF PingEnds
<1>13. QED
  BY <1>8, <1>9, <1>10, <1>11, <1>12

\* Every step of the router.
LEMMA RouterInvStep ==
    ASSUME RouterInv, VpnNext
    PROVE  RouterInv'
<1>1. CASE AddressNext /\ UNCHANGED <<lanVars, vpnVars>>
  BY <1>1, ResolveStepInv, ConfigStepInv DEF AddressNext
<1>2. CASE /\ UNCHANGED vpnVars
           /\ \/ LanStart \/ LanStop
              \/ \E f \in UdpFrames : ReceiveFrame(f)
              \/ ReadTimeout \/ TakeReceivedData \/ UpdateNodeStatus
  BY <1>2, LanStepInv
<1>3. CASE \E t \in Callers, g \in Targets : BeginSend(t, g) \/ BeginPing(t, g)
  BY <1>3, BeginStepInv
<1>4. CASE \E t \in Callers : PushListener(t) \/ TryLan(t) \/ LanWrite(t) \/ RelayAnswers(t) \/ PingEnds(t)
  BY <1>4, CallStepInv
<1>5. CASE \/ VpnStart \/ VpnStop
           \/ \E ping \in 0..MaxPings, type \in {"Data", "Relay"} : MessageArrives(ping, type)
           \/ \E l \in Loops : LoopTurn(l) \/ Dispatch(l)
  <2>1. UNCHANGED <<static_map, cache, outer, addressNow, call, mapped, lanVars, pings, vpnNodes, accepted, hasLan>>
    BY <1>5 DEF VpnStart, VpnStop, MessageArrives, LoopTurn, Dispatch, addressVars
  <2>2. UNCHANGED <<lanNodes, announced>>
    BY <2>1 DEF lanVars
  <2>3. QED
    BY <2>1, <2>2 DEF RouterInv, RouterTypeOK, MapsKnown, NodesAnnounced, Discovered, RouteJustified, CallJustified
<1>6. QED
  BY <1>1, <1>2, <1>3, <1>4, <1>5 DEF VpnNext

\* What the router has recorded of a node always has its reason, although the resolution
\* of a name, the look at the local network, the relay's answer and the PONG are steps
\* between which mappings are changed, caches cleared and loops stopped (vpn_router.rs,
\* send and ping_node; address.rs, resolve).
THEOREM RoutesAreJustified == MeshSpec => []RouteJustified
<1>1. MeshInit => RouterInv
  <2> SUFFICES ASSUME VpnInit, AddressInit, LanInit, OuterInit PROVE RouterInv
    BY DEF MeshInit, VpnInit, AddressInit
  <2>1. NoEntry \in Entries /\ NoEntry.id = NoId
    BY DEF NoEntry, Entries
  <2>2. CallFree \in RouterCalls /\ CallFree.pc = "free"
    BY DEF CallFree, RouterCalls, CallPcs
  <2>3. RouterTypeOK
    BY <2>1, <2>2 DEF RouterTypeOK, VpnInit, AddressInit, LanInit, OuterInit
  <2>4. MapsKnown /\ NodesAnnounced /\ RouteJustified
    BY <2>1 DEF MapsKnown, NodesAnnounced, Discovered, RouteJustified, VpnInit, AddressInit, LanInit, OuterInit
  <2>5. ASSUME NEW t \in Callers PROVE CallJustified(call[t])
    BY <2>2 DEF CallJustified, Resolved, AddressInit
  <2>6. QED
    BY <2>3, <2>4, <2>5 DEF RouterInv
<1>2. RouterInv /\ [MeshNext]_meshVars => RouterInv'
  <2> SUFFICES ASSUME RouterInv, [MeshNext]_meshVars PROVE RouterInv'
    OBVIOUS
  <2>1. [VpnNext]_<<addressVars, lanVars, vpnVars>>
    BY VpnStep DEF meshVars
  <2>2. CASE VpnNext
    BY <2>2, RouterInvStep
  <2>3. CASE UNCHANGED <<addressVars, lanVars, vpnVars>>
    BY <2>3 DEF addressVars, lanVars, vpnVars, RouterInv, RouterTypeOK, MapsKnown, NodesAnnounced,
                Discovered, RouteJustified, CallJustified
  <2>4. QED
    BY <2>1, <2>2, <2>3
<1>3. RouterInv => RouteJustified
  BY DEF RouterInv
<1>4. QED
  BY <1>1, <1>2, <1>3, PTL DEF MeshSpec

-----------------------------------------------------------------------------
(* The connection pool of Relay. *)

\* A step of the mesh is a step of the relay layer, or leaves it alone.
LEMMA RelayStep == MeshNext => [RelayNext]_relayVars
BY DEF MeshNext, Rest

RelayTypes == {"Data", "Relay"}
RelayTargets == Remotes \cup {NoRemote}
RelayMessages == [type : RelayTypes, target : RelayTargets]
RelaySockets == [state : {"open", "closed", "reset"}, flight : Seq(RelayMessages)]
SenderRecords == [pc : {"free", "connect", "write", "return"}, target : RelayTargets,
                  addr : RelayAddrs, sock : Nat, type : RelayTypes]
Slots == [sock : 1..MaxSocks, in_use : BOOLEAN]

\* The types; the connections of an address are different sockets, all opened before.
PoolTypeOK ==
    /\ pool \in [RelayAddrs -> SUBSET Slots]
    /\ \A a \in RelayAddrs : \A c \in pool[a] : c.sock <= Len(socks)
    /\ \A a \in RelayAddrs : \A c, d \in pool[a] : c.sock = d.sock => c = d
    /\ socks \in Seq(RelaySockets) /\ Len(socks) <= MaxSocks
    /\ sender \in [Senders -> SenderRecords]
    /\ spoiled \in BOOLEAN

HasConnection == {t \in Senders : sender[t].pc \in {"write", "return"}}
HoldingAt(a) == {t \in HasConnection : sender[t].addr = a}
InUseAt(a) == {c \in pool[a] : c.in_use}
InUse == {x \in RelayAddrs \X [sock : 1..MaxSocks, in_use : {TRUE}] : x[2] \in pool[x[1]]}

\* Unless the pool is spoiled: no connection is known to be broken, and per address as
\* many connections are in use as there are senders that have one.
PoolInv ==
    /\ IsFiniteSet(InUse) /\ \A a \in RelayAddrs : IsFiniteSet(InUseAt(a))
    /\ ~spoiled =>
         /\ \A s \in DOMAIN socks : socks[s].state # "reset"
         /\ active_count = Cardinality(HasConnection)
         /\ Cardinality(InUse) = Cardinality(HasConnection)
         /\ \A a \in RelayAddrs : Cardinality(InUseAt(a)) = Cardinality(HoldingAt(a))

\* The senders that have a connection are finitely many.
LEMMA FiniteHolding ==
    /\ IsFiniteSet(HasConnection) /\ Cardinality(HasConnection) \in Nat
    /\ \A a : IsFiniteSet(HoldingAt(a)) /\ Cardinality(HoldingAt(a)) \in Nat
<1>1. HasConnection \subseteq Senders /\ \A a : HoldingAt(a) \subseteq Senders
  BY DEF HasConnection, HoldingAt
<1> QED BY <1>1, RelayAssumption, FS_Subset, FS_CardinalityType

\* The connection that is first is one of those to choose from.
LEMMA FirstIsOne ==
    ASSUME NEW S \in SUBSET Slots, S # {}
    PROVE  FirstSlot(S) \in S
<1> DEFINE T == {c.sock : c \in S}
<1>1. T \subseteq Nat /\ T # {}
  BY RelayAssumption DEF Slots
<1>2. PICK x \in T : \A y \in T : x <= y
  BY <1>1, LeastNat
<1>3. PICK c \in S : \A d \in S : c.sock <= d.sock
  BY <1>2
<1> QED BY <1>3 DEF FirstSlot

\* A connection more is in use, by a sender that had none.
LEMMA OneMore ==
    ASSUME PoolTypeOK, PoolInv, NEW t \in Senders, NEW a \in RelayAddrs, NEW c,
           t \notin HasConnection, c \notin InUseAt(a), <<a, c>> \notin InUse,
           HasConnection' = HasConnection \cup {t},
           HoldingAt(a)' = HoldingAt(a) \cup {t},
           InUseAt(a)' = InUseAt(a) \cup {c},
           InUse' = InUse \cup {<<a, c>>},
           \A b \in RelayAddrs \ {a} : HoldingAt(b)' = HoldingAt(b) /\ InUseAt(b)' = InUseAt(b),
           spoiled' = spoiled,
           ~spoiled => \A s \in DOMAIN socks' : socks'[s].state # "reset",
           active_count' = active_count + 1
    PROVE  PoolInv'
<1>1. t \notin HoldingAt(a)
  BY DEF HoldingAt
<1>2. /\ IsFiniteSet(InUse') /\ Cardinality(InUse') = Cardinality(InUse) + 1
      /\ IsFiniteSet(InUseAt(a)') /\ Cardinality(InUseAt(a)') = Cardinality(InUseAt(a)) + 1
  BY FS_AddElement DEF PoolInv
<1>3. /\ Cardinality(HasConnection') = Cardinality(HasConnection) + 1
      /\ Cardinality(HoldingAt(a)') = Cardinality(HoldingAt(a)) + 1
  BY <1>1, FS_AddElement, FiniteHolding
<1>4. \A b \in RelayAddrs : IsFiniteSet(InUseAt(b)')
  BY <1>2 DEF PoolInv
<1>5. ASSUME ~spoiled', NEW b \in RelayAddrs PROVE Cardinality(InUseAt(b)') = Cardinality(HoldingAt(b)')
  BY <1>2, <1>3, <1>5 DEF PoolInv
<1>6. ASSUME ~spoiled' PROVE active_count' = Cardinality(HasConnection') /\ Cardinality(InUse') = Cardinality(HasConnection')
  BY <1>2, <1>3, <1>6 DEF PoolInv
<1> QED BY <1>2, <1>4, <1>5, <1>6 DEF PoolInv

\* A connection less is in use, and one sender less has one.
LEMMA OneLess ==
    ASSUME PoolTypeOK, PoolInv, NEW t \in Senders, NEW a \in RelayAddrs, NEW c,
           t \in HoldingAt(a), c \in InUseAt(a), <<a, c>> \in InUse,
           HasConnection' = HasConnection \ {t},
           HoldingAt(a)' = HoldingAt(a) \ {t},
           InUseAt(a)' = InUseAt(a) \ {c},
           InUse' = InUse \ {<<a, c>>},
           \A b \in RelayAddrs \ {a} : HoldingAt(b)' = HoldingAt(b) /\ InUseAt(b)' = InUseAt(b),
           spoiled' = spoiled,
           ~spoiled => \A s \in DOMAIN socks' : socks'[s].state # "reset",
           active_count' = Decremented(active_count)
    PROVE  PoolInv'
<1>1. t \in HasConnection
  BY DEF HoldingAt
<1>2. /\ IsFiniteSet(InUse') /\ Cardinality(InUse') = Cardinality(InUse) - 1
      /\ IsFiniteSet(InUseAt(a)') /\ Cardinality(InUseAt(a)') = Cardinality(InUseAt(a)) - 1
  BY FS_RemoveElement DEF PoolInv
<1>3. /\ Cardinality(HasConnection') = Cardinality(HasConnection) - 1
      /\ Cardinality(HoldingAt(a)') = Cardinality(HoldingAt(a)) - 1
  BY <1>1, FS_RemoveElement, FiniteHolding
<1>4. \A b \in RelayAddrs : IsFiniteSet(InUseAt(b)')
  BY <1>2 DEF PoolInv
<1>5. ASSUME ~spoiled', NEW b \in RelayAddrs PROVE Cardinality(InUseAt(b)') = Cardinality(HoldingAt(b)')
  BY <1>2, <1>3, <1>5 DEF PoolInv
<1>6. ASSUME ~spoiled' PROVE active_count' = Cardinality(HasConnection') /\ Cardinality(InUse') = Cardinality(HasConnection')
  <2>1. Cardinality(HasConnection) # 0
    BY <1>1, FiniteHolding, FS_EmptySet
  <2>2. active_count = Cardinality(HasConnection)
    BY <1>6 DEF PoolInv
  <2> QED BY <1>2, <1>3, <1>6, <2>1, <2>2 DEF PoolInv, Decremented
<1> QED BY <1>2, <1>4, <1>5, <1>6 DEF PoolInv

\* A step that changes neither who has a connection nor what is in use.
LEMMA SameUse ==
    ASSUME PoolInv,
           HasConnection' = HasConnection, InUse' = InUse,
           \A b \in RelayAddrs : HoldingAt(b)' = HoldingAt(b) /\ InUseAt(b)' = InUseAt(b),
           ~spoiled' => ~spoiled /\ \A s \in DOMAIN socks' : socks'[s].state # "reset",
           active_count' = active_count
    PROVE  PoolInv'
BY DEF PoolInv

\* A sender's record changes to x.
LEMMA SenderTyped ==
    ASSUME PoolTypeOK, NEW t \in Senders, NEW x \in SenderRecords, sender' = [sender EXCEPT ![t] = x]
    PROVE  sender' \in [Senders -> SenderRecords]
BY DEF PoolTypeOK

\* A sender that had none gets a connection.
LEMMA TakesConnection ==
    ASSUME PoolTypeOK, NEW t \in Senders, NEW x \in SenderRecords, sender' = [sender EXCEPT ![t] = x],
           NEW a, a = sender[t].addr, sender[t].pc = "connect", x.pc = "write", x.addr = a
    PROVE  /\ t \notin HasConnection /\ a \in RelayAddrs
           /\ HasConnection' = HasConnection \cup {t}
           /\ HoldingAt(a)' = HoldingAt(a) \cup {t}
           /\ \A b \in RelayAddrs \ {a} : HoldingAt(b)' = HoldingAt(b)
<1>1. \A u \in Senders : sender'[u] = IF u = t THEN x ELSE sender[u]
  BY DEF PoolTypeOK
<1>3. a \in RelayAddrs /\ t \notin HasConnection
  BY DEF PoolTypeOK, SenderRecords, HasConnection
<1>4. HasConnection' = HasConnection \cup {t}
  BY <1>1 DEF HasConnection
<1>6. \A b : HoldingAt(b)' = {u \in HasConnection' : sender'[u].addr = b}
  BY DEF HoldingAt
<1>7. HoldingAt(a)' = HoldingAt(a) \cup {t}
  BY <1>1, <1>4, <1>6 DEF HoldingAt, HasConnection
<1>8. \A b \in RelayAddrs \ {a} : HoldingAt(b)' = HoldingAt(b)
  BY <1>1, <1>4, <1>6 DEF HoldingAt, HasConnection
<1> QED BY <1>3, <1>4, <1>7, <1>8

\* A sender gives its connection back.
LEMMA GivesUpConnection ==
    ASSUME PoolTypeOK, NEW t \in Senders, NEW a, a = sender[t].addr,
           sender' = [sender EXCEPT ![t] = SenderFree], sender[t].pc = "return"
    PROVE  /\ a \in RelayAddrs /\ t \in HoldingAt(a)
           /\ HasConnection' = HasConnection \ {t}
           /\ HoldingAt(a)' = HoldingAt(a) \ {t}
           /\ \A b \in RelayAddrs \ {a} : HoldingAt(b)' = HoldingAt(b)
<1>8a. SenderFree.pc = "free"
  BY DEF SenderFree
<1>0. PICK x : x = SenderFree /\ x.pc = "free"
  BY <1>8a
<1>1. \A u \in Senders : sender'[u] = IF u = t THEN x ELSE sender[u]
  BY <1>0 DEF PoolTypeOK
<1>3. a \in RelayAddrs /\ t \in HoldingAt(a)
  BY DEF PoolTypeOK, SenderRecords, HasConnection, HoldingAt
<1>4. HasConnection' = HasConnection \ {t}
  BY <1>0, <1>1 DEF HasConnection
<1>6. \A b : HoldingAt(b)' = {u \in HasConnection' : sender'[u].addr = b}
  BY DEF HoldingAt
<1>7. \A b : HoldingAt(b)' = HoldingAt(b) \ {t}
  BY <1>1, <1>4, <1>6 DEF HoldingAt, HasConnection
<1>8. \A b \in RelayAddrs \ {a} : t \notin HoldingAt(b)
  BY DEF HoldingAt
<1> QED BY <1>3, <1>4, <1>7, <1>8

\* A sender that goes on with a connection, or without one.
LEMMA KeepsConnection ==
    ASSUME PoolTypeOK, NEW t \in Senders, NEW x \in SenderRecords, sender' = [sender EXCEPT ![t] = x],
           \/ sender[t].pc \in {"free", "connect"} /\ x.pc \in {"free", "connect"}
           \/ sender[t].pc \in {"write", "return"} /\ x.pc \in {"write", "return"} /\ x.addr = sender[t].addr
    PROVE  HasConnection' = HasConnection /\ \A b \in RelayAddrs : HoldingAt(b)' = HoldingAt(b)
<1>1. \A u \in Senders : sender'[u] = IF u = t THEN x ELSE sender[u]
  BY DEF PoolTypeOK
<1>4. HasConnection' = HasConnection
  BY <1>1 DEF HasConnection
<1>6. \A b : HoldingAt(b)' = {u \in HasConnection' : sender'[u].addr = b}
  BY DEF HoldingAt
<1>7. \A u \in HasConnection : sender'[u].addr = sender[u].addr
  BY <1>1, <1>4 DEF HasConnection
<1>8. \A b : HoldingAt(b)' = HoldingAt(b)
  BY <1>4, <1>6, <1>7 DEF HoldingAt
<1> QED BY <1>4, <1>8

\* InUse by its members.
LEMMA InUseBySlot ==
    ASSUME NEW p \in [RelayAddrs -> SUBSET Slots], NEW a \in RelayAddrs, NEW c
    PROVE  <<a, c>> \in {x \in RelayAddrs \X [sock : 1..MaxSocks, in_use : {TRUE}] : x[2] \in p[x[1]]}
               <=> c \in {d \in p[a] : d.in_use}
<1>1. p[a] \subseteq Slots
  OBVIOUS
<1>2. c \in Slots => (c.in_use <=> c \in [sock : 1..MaxSocks, in_use : {TRUE}])
  BY DEF Slots
<1> QED BY <1>1, <1>2

\* The slots in use, all together and per address, before and after a step.
LEMMA InUseNow == PoolTypeOK => \A a \in RelayAddrs : \A c : <<a, c>> \in InUse <=> c \in InUseAt(a)
BY InUseBySlot DEF PoolTypeOK, InUse, InUseAt

LEMMA InUseNext == PoolTypeOK' => \A a \in RelayAddrs : \A c : <<a, c>> \in InUse' <=> c \in InUseAt(a)'
BY InUseBySlot DEF PoolTypeOK, InUse, InUseAt

LEMMA Pairs ==
    ASSUME NEW A, NEW B, NEW x \in A \X B
    PROVE  \E a \in A, b \in B : x = <<a, b>>
OBVIOUS

\* Two sets of pairs with the same pairs are equal.
LEMMA SamePairs ==
    ASSUME NEW A, NEW B, NEW X \in SUBSET (A \X B), NEW Y \in SUBSET (A \X B),
           \A a \in A, b \in B : <<a, b>> \in X <=> <<a, b>> \in Y
    PROVE  X = Y
<1>1. ASSUME NEW x \in A \X B PROVE x \in X <=> x \in Y
  BY Pairs
<1> QED BY <1>1

\* What is in use per address decides what is in use: the same, one more, one less.
LEMMA InUseEqual ==
    ASSUME PoolTypeOK, PoolTypeOK',
           \A b \in RelayAddrs : InUseAt(b)' = InUseAt(b)
    PROVE  InUse' = InUse
<1> DEFINE U == [sock : 1..MaxSocks, in_use : {TRUE}]
<1>1. InUse \subseteq RelayAddrs \X U /\ InUse' \subseteq RelayAddrs \X U
  BY DEF InUse
<1> HIDE DEF U
<1>2. \A b \in RelayAddrs, d \in U : <<b, d>> \in InUse' <=> <<b, d>> \in InUse
  BY InUseNow, InUseNext
<1> QED BY <1>1, <1>2, SamePairs

LEMMA InUseMore ==
    ASSUME PoolTypeOK, PoolTypeOK', NEW a \in RelayAddrs, NEW c,
           InUseAt(a)' = InUseAt(a) \cup {c},
           \A b \in RelayAddrs \ {a} : InUseAt(b)' = InUseAt(b)
    PROVE  InUse' = InUse \cup {<<a, c>>}
<1> DEFINE U == [sock : 1..MaxSocks, in_use : {TRUE}]
<1>1. InUse \subseteq RelayAddrs \X U /\ InUse' \subseteq RelayAddrs \X U
  BY DEF InUse
<1> HIDE DEF U
<1>2. <<a, c>> \in InUse'
  BY InUseNext
<1>3. ASSUME NEW b \in RelayAddrs, NEW d \in U
      PROVE  <<b, d>> \in InUse' <=> <<b, d>> \in InUse \cup {<<a, c>>}
  BY InUseNow, InUseNext
<1>4. InUse \cup {<<a, c>>} \subseteq RelayAddrs \X U
  BY <1>1, <1>2
<1> QED BY <1>1, <1>3, <1>4, SamePairs

LEMMA InUseLess ==
    ASSUME PoolTypeOK, PoolTypeOK', NEW a \in RelayAddrs, NEW c,
           InUseAt(a)' = InUseAt(a) \ {c},
           \A b \in RelayAddrs \ {a} : InUseAt(b)' = InUseAt(b)
    PROVE  InUse' = InUse \ {<<a, c>>}
<1> DEFINE U == [sock : 1..MaxSocks, in_use : {TRUE}]
<1>1. InUse \subseteq RelayAddrs \X U /\ InUse' \subseteq RelayAddrs \X U
  BY DEF InUse
<1> HIDE DEF U
<1>3. ASSUME NEW b \in RelayAddrs, NEW d \in U
      PROVE  <<b, d>> \in InUse' <=> <<b, d>> \in InUse \ {<<a, c>>}
  BY InUseNow, InUseNext
<1>4. InUse \ {<<a, c>>} \subseteq RelayAddrs \X U
  BY <1>1
<1> QED BY <1>1, <1>3, <1>4, SamePairs

\* conn.in_use = b for one connection: what the pool keeps of its types.
LEMMA MarkedTyped ==
    ASSUME PoolTypeOK, NEW a \in RelayAddrs, NEW c \in pool[a], NEW b \in BOOLEAN,
           pool' = Marked(a, c, b), Len(socks') = Len(socks)
    PROVE  /\ pool' \in [RelayAddrs -> SUBSET Slots]
           /\ \A e \in RelayAddrs : \A f \in pool'[e] : f.sock <= Len(socks')
           /\ \A e \in RelayAddrs : \A f, g \in pool'[e] : f.sock = g.sock => f = g
<1>1. PICK n : n = [sock |-> c.sock, in_use |-> b]
  OBVIOUS
<1>2. c \in Slots /\ c.sock <= Len(socks)
  BY DEF PoolTypeOK
<1>3. n \in Slots /\ n.sock = c.sock /\ n.sock <= Len(socks)
  BY <1>1, <1>2 DEF Slots
<1>4. pool' = [pool EXCEPT ![a] = (pool[a] \ {c}) \cup {n}]
  BY <1>1 DEF Marked
<1>5. \A e \in RelayAddrs : pool'[e] = IF e = a THEN (pool[a] \ {c}) \cup {n} ELSE pool[e]
  BY <1>4 DEF PoolTypeOK
<1>6. pool' \in [RelayAddrs -> SUBSET Slots]
  BY <1>3, <1>4 DEF PoolTypeOK
<1>7. \A e \in RelayAddrs : \A f \in pool'[e] : f.sock <= Len(socks')
  BY <1>3, <1>5 DEF PoolTypeOK
<1>8. \A f \in pool[a] \ {c} : f.sock # n.sock
  BY <1>3 DEF PoolTypeOK
<1>9. \A e \in RelayAddrs : \A f, g \in pool'[e] : f.sock = g.sock => f = g
  BY <1>5, <1>8 DEF PoolTypeOK
<1> QED BY <1>6, <1>7, <1>9

\* A slot that was idle is marked.
LEMMA MarkedInUse ==
    ASSUME PoolTypeOK, NEW a \in RelayAddrs, NEW c \in pool[a], ~c.in_use, pool' = Marked(a, c, TRUE),
           NEW n, n = [sock |-> c.sock, in_use |-> TRUE]
    PROVE  /\ InUseAt(a)' = InUseAt(a) \cup {n} /\ n \notin InUseAt(a)
           /\ \A b \in RelayAddrs \ {a} : InUseAt(b)' = InUseAt(b)
<1>1. n.sock = c.sock /\ n.in_use
  OBVIOUS
<1>2. pool' = [pool EXCEPT ![a] = (pool[a] \ {c}) \cup {n}]
  BY DEF Marked
<1>3. \A e \in RelayAddrs : pool'[e] = IF e = a THEN (pool[a] \ {c}) \cup {n} ELSE pool[e]
  BY <1>2 DEF PoolTypeOK
<1>4. n \notin pool[a]
  BY <1>1 DEF PoolTypeOK
<1> QED BY <1>1, <1>3, <1>4 DEF InUseAt

\* A slot that was in use is freed.
LEMMA MarkedFree ==
    ASSUME PoolTypeOK, NEW a \in RelayAddrs, NEW c \in InUseAt(a), pool' = Marked(a, c, FALSE)
    PROVE  /\ InUseAt(a)' = InUseAt(a) \ {c}
           /\ \A b \in RelayAddrs \ {a} : InUseAt(b)' = InUseAt(b)
<1>1. PICK n : n = [sock |-> c.sock, in_use |-> FALSE]
  OBVIOUS
<1>2. ~n.in_use
  BY <1>1
<1>3. pool' = [pool EXCEPT ![a] = (pool[a] \ {c}) \cup {n}]
  BY <1>1 DEF Marked
<1>4. \A e \in RelayAddrs : pool'[e] = IF e = a THEN (pool[a] \ {c}) \cup {n} ELSE pool[e]
  BY <1>3 DEF PoolTypeOK
<1> QED BY <1>2, <1>4 DEF InUseAt

\* The first idle connection is an idle one of the pool; so for those in use.
LEMMA IdleIsInPool ==
    ASSUME PoolTypeOK, NEW a \in RelayAddrs, IdleSlots(a) # {}
    PROVE  FirstSlot(IdleSlots(a)) \in pool[a] /\ ~FirstSlot(IdleSlots(a)).in_use
<1>1. IdleSlots(a) \in SUBSET Slots
  BY DEF IdleSlots, PoolTypeOK
<1>2. FirstSlot(IdleSlots(a)) \in IdleSlots(a)
  BY <1>1, FirstIsOne
<1> QED BY <1>2 DEF IdleSlots

LEMMA UsedIsInUse ==
    ASSUME PoolTypeOK, NEW a \in RelayAddrs, UsedSlots(a) # {}
    PROVE  FirstSlot(UsedSlots(a)) \in InUseAt(a)
<1>1. UsedSlots(a) \in SUBSET Slots
  BY DEF UsedSlots, PoolTypeOK
<1>2. FirstSlot(UsedSlots(a)) \in UsedSlots(a)
  BY <1>1, FirstIsOne
<1> QED BY <1>2 DEF UsedSlots, InUseAt

\* The records a sender's steps write.
LEMMA SenderFreeTyped == SenderFree \in SenderRecords /\ SenderFree.pc = "free"
BY DEF SenderFree, SenderRecords, RelayTargets, RelayTypes, RelayAddrs

\* The record of a sender that got the connection k.
LEMMA HasOne ==
    ASSUME NEW y \in SenderRecords, NEW k \in Nat
    PROVE  /\ [y EXCEPT !.pc = "write", !.sock = k] \in SenderRecords
           /\ [y EXCEPT !.pc = "write", !.sock = k].pc = "write"
           /\ [y EXCEPT !.pc = "write", !.sock = k].addr = y.addr
BY DEF SenderRecords

\* get_connection finds an idle connection.
LEMMA ReuseStep ==
    ASSUME PoolTypeOK, PoolInv, NEW t \in Senders, ReuseConnection(t)
    PROVE  PoolTypeOK' /\ PoolInv'
<1>1. PICK a : a = sender[t].addr
  OBVIOUS
<1>2. PICK c : c = FirstSlot(IdleSlots(a))
  OBVIOUS
<1>3. a \in RelayAddrs
  BY <1>1 DEF PoolTypeOK, SenderRecords
<1>4. /\ sender[t].pc = "connect" /\ IdleSlots(a) # {}
      /\ pool' = Marked(a, c, TRUE)
      /\ active_count' = active_count + 1
      /\ sender' = [sender EXCEPT ![t].pc = "write", ![t].sock = c.sock]
      /\ UNCHANGED <<socks, spoiled>>
  BY <1>1, <1>2 DEF ReuseConnection
<1>5. c \in pool[a] /\ ~c.in_use
  BY <1>2, <1>3, <1>4, IdleIsInPool
<1>6. PICK y \in SenderRecords : y = sender[t]
  BY DEF PoolTypeOK
<1>7. PICK x : x = [y EXCEPT !.pc = "write", !.sock = c.sock]
  OBVIOUS
<1>8. c \in Slots
  BY <1>3, <1>5 DEF PoolTypeOK
<1>9. x \in SenderRecords /\ x.pc = "write" /\ x.addr = a
  <2>1. c.sock \in Nat
    BY <1>8, RelayAssumption DEF Slots
  <2> QED BY <1>1, <1>6, <1>7, <2>1, HasOne
<1>10. sender' = [sender EXCEPT ![t] = x]
  BY <1>4, <1>6, <1>7 DEF PoolTypeOK
<1>11. PoolTypeOK'
  BY <1>3, <1>4, <1>5, <1>9, <1>10, MarkedTyped, SenderTyped DEF PoolTypeOK
<1>12. PICK n : n = [sock |-> c.sock, in_use |-> TRUE]
  OBVIOUS
<1>13. /\ InUseAt(a)' = InUseAt(a) \cup {n} /\ n \notin InUseAt(a)
       /\ \A b \in RelayAddrs \ {a} : InUseAt(b)' = InUseAt(b)
  BY <1>3, <1>4, <1>5, <1>12, MarkedInUse
<1>14. InUse' = InUse \cup {<<a, n>>} /\ <<a, n>> \notin InUse
  BY <1>3, <1>11, <1>13, InUseMore, InUseNow
<1>15. /\ t \notin HasConnection
       /\ HasConnection' = HasConnection \cup {t}
       /\ HoldingAt(a)' = HoldingAt(a) \cup {t}
       /\ \A b \in RelayAddrs \ {a} : HoldingAt(b)' = HoldingAt(b)
  BY <1>1, <1>4, <1>9, <1>10, TakesConnection
<1>16. spoiled' = spoiled /\ (~spoiled => \A s \in DOMAIN socks' : socks'[s].state # "reset")
  BY <1>4 DEF PoolInv
<1>17. PoolInv'
  BY <1>3, <1>4, <1>13, <1>14, <1>15, <1>16, OneMore
<1> QED BY <1>11, <1>17

\* get_connection opens one.
LEMMA OpenStep ==
    ASSUME PoolTypeOK, PoolInv, NEW t \in Senders, OpenConnection(t)
    PROVE  PoolTypeOK' /\ PoolInv'
<1>1. PICK a : a = sender[t].addr
  OBVIOUS
<1>2. PICK k : k = Len(socks) + 1
  OBVIOUS
<1>3. a \in RelayAddrs
  BY <1>1 DEF PoolTypeOK, SenderRecords
<1>4. PICK n : n = [sock |-> k, in_use |-> TRUE]
  OBVIOUS
<1>5. PICK o : o = [state |-> "open", flight |-> <<>>]
  OBVIOUS
<1>6. /\ sender[t].pc = "connect"
      /\ Len(socks) < MaxSocks
      /\ socks' = Append(socks, o)
      /\ pool' = [pool EXCEPT ![a] = pool[a] \cup {n}]
      /\ active_count' = active_count + 1
      /\ sender' = [sender EXCEPT ![t].pc = "write", ![t].sock = k]
      /\ UNCHANGED spoiled
  BY <1>1, <1>2, <1>4, <1>5 DEF OpenConnection
<1>7. k \in 1..MaxSocks /\ Len(socks) \in Nat /\ k > Len(socks)
  BY <1>2, <1>6, RelayAssumption DEF PoolTypeOK
<1>8. n \in Slots /\ n.sock = k /\ n.in_use
  BY <1>4, <1>7 DEF Slots
<1>9. o \in RelaySockets /\ o.state = "open"
  BY <1>5 DEF RelaySockets
<1>10. /\ socks' \in Seq(RelaySockets) /\ Len(socks') = k
       /\ \A s \in DOMAIN socks' : socks'[s] = IF s = k THEN o ELSE socks[s]
       /\ \A s \in DOMAIN socks' : s # k => s \in DOMAIN socks
  BY <1>2, <1>6, <1>9 DEF PoolTypeOK
<1>11. PICK y \in SenderRecords : y = sender[t]
  BY DEF PoolTypeOK
<1>12. PICK x : x = [y EXCEPT !.pc = "write", !.sock = k]
  OBVIOUS
<1>13. x \in SenderRecords /\ x.pc = "write" /\ x.addr = a
  <2>1. k \in Nat
    BY <1>7, RelayAssumption
  <2> QED BY <1>1, <1>11, <1>12, <2>1, HasOne
<1>14. sender' = [sender EXCEPT ![t] = x]
  BY <1>6, <1>11, <1>12 DEF PoolTypeOK
<1>15. \A e \in RelayAddrs : pool'[e] = IF e = a THEN pool[a] \cup {n} ELSE pool[e]
  BY <1>6 DEF PoolTypeOK
<1>16. \A e \in RelayAddrs : \A c \in pool[e] : c.sock <= Len(socks) /\ c.sock \in Nat
  BY DEF PoolTypeOK, Slots
<1>17. n \notin pool[a] /\ \A c \in pool[a] : c.sock # n.sock
  BY <1>3, <1>7, <1>8, <1>16
<1>18. PoolTypeOK'
  <2>1. pool' \in [RelayAddrs -> SUBSET Slots]
    BY <1>6, <1>8 DEF PoolTypeOK
  <2>2. \A e \in RelayAddrs : \A c \in pool'[e] : c.sock <= Len(socks')
    BY <1>7, <1>8, <1>10, <1>15, <1>16
  <2>3. \A e \in RelayAddrs : \A c, d \in pool'[e] : c.sock = d.sock => c = d
    BY <1>15, <1>17 DEF PoolTypeOK
  <2>4. sender' \in [Senders -> SenderRecords]
    BY <1>13, <1>14, SenderTyped
  <2>5. Len(socks') <= MaxSocks
    BY <1>7, <1>10
  <2> QED BY <1>6, <1>10, <2>1, <2>2, <2>3, <2>4, <2>5 DEF PoolTypeOK
<1>19. /\ InUseAt(a)' = InUseAt(a) \cup {n} /\ n \notin InUseAt(a)
       /\ \A b \in RelayAddrs \ {a} : InUseAt(b)' = InUseAt(b)
  BY <1>3, <1>8, <1>15, <1>17 DEF InUseAt
<1>20. InUse' = InUse \cup {<<a, n>>} /\ <<a, n>> \notin InUse
  BY <1>3, <1>18, <1>19, InUseMore, InUseNow
<1>21. /\ t \notin HasConnection
       /\ HasConnection' = HasConnection \cup {t}
       /\ HoldingAt(a)' = HoldingAt(a) \cup {t}
       /\ \A b \in RelayAddrs \ {a} : HoldingAt(b)' = HoldingAt(b)
  BY <1>1, <1>6, <1>13, <1>14, TakesConnection
<1>22. spoiled' = spoiled /\ (~spoiled => \A s \in DOMAIN socks' : socks'[s].state # "reset")
  BY <1>6, <1>9, <1>10 DEF PoolInv
<1>23. PoolInv'
  BY <1>3, <1>6, <1>19, <1>20, <1>21, <1>22, OneMore
<1> QED BY <1>18, <1>23

\* The clone fails after the slot was marked: the pool is spoiled, but stays finite.
LEMMA CloneStep ==
    ASSUME PoolTypeOK, PoolInv, NEW t \in Senders, CloneFails(t)
    PROVE  PoolTypeOK' /\ PoolInv'
<1>1. PICK a : a = sender[t].addr
  OBVIOUS
<1>2. PICK c : c = FirstSlot(IdleSlots(a))
  OBVIOUS
<1>3. a \in RelayAddrs
  BY <1>1 DEF PoolTypeOK, SenderRecords
<1>4. /\ IdleSlots(a) # {}
      /\ pool' = Marked(a, c, TRUE)
      /\ sender' = [sender EXCEPT ![t] = SenderFree]
      /\ spoiled' = TRUE
      /\ UNCHANGED socks
  BY <1>1, <1>2 DEF CloneFails, Released
<1>5. c \in pool[a] /\ ~c.in_use
  BY <1>2, <1>3, <1>4, IdleIsInPool
<1>6. PoolTypeOK'
  BY <1>3, <1>4, <1>5, MarkedTyped, SenderTyped, SenderFreeTyped DEF PoolTypeOK
<1>7. PICK n : n = [sock |-> c.sock, in_use |-> TRUE]
  OBVIOUS
<1>8. /\ InUseAt(a)' = InUseAt(a) \cup {n}
      /\ \A b \in RelayAddrs \ {a} : InUseAt(b)' = InUseAt(b)
  BY <1>3, <1>4, <1>5, <1>7, MarkedInUse
<1>9. InUse' = InUse \cup {<<a, n>>}
  BY <1>3, <1>6, <1>8, InUseMore
<1>10. IsFiniteSet(InUse') /\ IsFiniteSet(InUseAt(a)')
  BY <1>3, <1>8, <1>9, FS_AddElement DEF PoolInv
<1>11. \A b \in RelayAddrs : IsFiniteSet(InUseAt(b)')
  BY <1>8, <1>10 DEF PoolInv
<1>12. PoolInv'
  BY <1>4, <1>10, <1>11 DEF PoolInv
<1> QED BY <1>6, <1>12

\* The connection that is returned: unless the pool is spoiled one is in use at the
\* sender's address, because the sender itself has one.
LEMMA ReturnStep ==
    ASSUME PoolTypeOK, PoolInv, NEW t \in Senders, ReturnConnection(t)
    PROVE  PoolTypeOK' /\ PoolInv'
<1>1. PICK a : a = sender[t].addr
  OBVIOUS
<1>2. a \in RelayAddrs
  BY <1>1 DEF PoolTypeOK, SenderRecords
<1>3. /\ sender[t].pc = "return"
      /\ pool' = IF UsedSlots(a) = {} THEN pool ELSE Marked(a, FirstSlot(UsedSlots(a)), FALSE)
      /\ active_count' = Decremented(active_count)
      /\ sender' = [sender EXCEPT ![t] = SenderFree]
      /\ UNCHANGED <<socks, spoiled>>
  BY <1>1 DEF ReturnConnection, Released
<1>4. /\ t \in HoldingAt(a)
      /\ HasConnection' = HasConnection \ {t}
      /\ HoldingAt(a)' = HoldingAt(a) \ {t}
      /\ \A b \in RelayAddrs \ {a} : HoldingAt(b)' = HoldingAt(b)
  BY <1>1, <1>3, GivesUpConnection
<1>5. CASE UsedSlots(a) = {}
  <2>1. pool' = pool
    BY <1>3, <1>5
  <2>2. PoolTypeOK'
    BY <1>3, <2>1, SenderTyped, SenderFreeTyped DEF PoolTypeOK
  <2>3. spoiled
    <3> SUFFICES ASSUME ~spoiled PROVE FALSE
      OBVIOUS
    <3>1. InUseAt(a) = {}
      <4>1. \A c \in pool[a] : c.sock \in DOMAIN socks
        BY <1>2 DEF PoolTypeOK, Slots
      <4> QED BY <1>2, <1>5, <4>1 DEF PoolInv, InUseAt, UsedSlots, HasPeer
    <3>2. Cardinality(HoldingAt(a)) = 0
      BY <1>2, <3>1, FS_EmptySet DEF PoolInv
    <3> QED BY <1>4, <3>2, FiniteHolding, FS_EmptySet
  <2>4. PoolInv'
    BY <1>3, <2>1, <2>3 DEF PoolInv, InUse, InUseAt
  <2> QED BY <2>2, <2>4
<1>6. CASE UsedSlots(a) # {}
  <2>1. PICK c : c = FirstSlot(UsedSlots(a))
    OBVIOUS
  <2>2. c \in InUseAt(a)
    BY <1>2, <1>6, <2>1, UsedIsInUse
  <2>3. c \in pool[a] /\ pool' = Marked(a, c, FALSE)
    BY <1>3, <1>6, <2>1, <2>2 DEF InUseAt
  <2>4. PoolTypeOK'
    BY <1>2, <1>3, <2>3, MarkedTyped, SenderTyped, SenderFreeTyped DEF PoolTypeOK
  <2>5. /\ InUseAt(a)' = InUseAt(a) \ {c}
        /\ \A b \in RelayAddrs \ {a} : InUseAt(b)' = InUseAt(b)
    BY <1>2, <2>2, <2>3, MarkedFree
  <2>6. InUse' = InUse \ {<<a, c>>} /\ <<a, c>> \in InUse
    BY <1>2, <2>2, <2>4, <2>5, InUseLess, InUseNow
  <2>7. spoiled' = spoiled /\ (~spoiled => \A s \in DOMAIN socks' : socks'[s].state # "reset")
    BY <1>3 DEF PoolInv
  <2>8. PoolInv'
    BY <1>2, <1>3, <1>4, <2>2, <2>5, <2>6, <2>7, OneLess
  <2> QED BY <2>4, <2>8
<1> QED BY <1>5, <1>6

\* clear: without a sender that has a connection nothing is lost.
LEMMA ClearStep ==
    ASSUME PoolTypeOK, PoolInv, ClearPool
    PROVE  PoolTypeOK' /\ PoolInv'
<1>1. /\ pool' = [a \in RelayAddrs |-> {}]
      /\ active_count' = 0
      /\ spoiled' = (spoiled \/ active_count # 0)
      /\ UNCHANGED <<socks, sender>>
  BY DEF ClearPool
<1>2. PoolTypeOK'
  BY <1>1 DEF PoolTypeOK
<1>3. InUse' = {} /\ \A b \in RelayAddrs : InUseAt(b)' = {}
  <2>1. \A b \in RelayAddrs : InUseAt(b)' = {}
    BY <1>1 DEF InUseAt
  <2>2. ASSUME NEW x \in InUse' PROVE FALSE
    BY <1>1, <2>2 DEF InUse
  <2> QED BY <2>1, <2>2
<1>4. HasConnection' = HasConnection /\ \A b : HoldingAt(b)' = HoldingAt(b)
  BY <1>1 DEF HasConnection, HoldingAt
<1>5. ASSUME ~spoiled' PROVE HasConnection = {} /\ \A b : HoldingAt(b) = {}
  <2>1. Cardinality(HasConnection) = 0
    BY <1>1, <1>5 DEF PoolInv
  <2>2. HasConnection = {}
    BY <2>1, FiniteHolding, FS_EmptySet
  <2> QED BY <2>2 DEF HoldingAt
<1>6. ASSUME ~spoiled' PROVE \A s \in DOMAIN socks' : socks'[s].state # "reset"
  BY <1>1, <1>6 DEF PoolInv
<1>7. IsFiniteSet({}) /\ Cardinality({}) = 0
  BY FS_EmptySet
<1>8. PoolInv'
  BY <1>1, <1>3, <1>4, <1>5, <1>6, <1>7 DEF PoolInv
<1> QED BY <1>2, <1>8

\* cleanup_idle drops nothing that is in use.
LEMMA CleanupStep ==
    ASSUME PoolTypeOK, PoolInv, CleanupIdle
    PROVE  PoolTypeOK' /\ PoolInv'
<1>1. PICK idle : /\ \A c \in idle : ~c.in_use
                  /\ pool' = [a \in RelayAddrs |-> pool[a] \ idle]
                  /\ UNCHANGED <<active_count, socks, sender, spoiled>>
  BY DEF CleanupIdle
<1>2. PoolTypeOK'
  BY <1>1 DEF PoolTypeOK
<1>3. \A b \in RelayAddrs : InUseAt(b)' = InUseAt(b)
  BY <1>1 DEF InUseAt
<1>4. InUse' = InUse
  BY <1>2, <1>3, InUseEqual
<1>5. HasConnection' = HasConnection /\ \A b : HoldingAt(b)' = HoldingAt(b)
  BY <1>1 DEF HasConnection, HoldingAt
<1>6. ~spoiled' => ~spoiled /\ \A s \in DOMAIN socks' : socks'[s].state # "reset"
  BY <1>1 DEF PoolInv
<1> QED BY <1>1, <1>2, <1>3, <1>4, <1>5, <1>6, SameUse

\* A step that leaves the pool alone and changes at most the record of a sender, to one
\* that has a connection to the same address if it had one.
LEMMA SenderStep ==
    ASSUME PoolTypeOK, PoolInv, NEW t \in Senders, NEW x \in SenderRecords,
           sender' = [sender EXCEPT ![t] = x],
           \/ sender[t].pc \in {"free", "connect"} /\ x.pc \in {"free", "connect"}
           \/ sender[t].pc \in {"write", "return"} /\ x.pc \in {"write", "return"} /\ x.addr = sender[t].addr,
           UNCHANGED <<pool, active_count>>,
           socks' \in Seq(RelaySockets), Len(socks') = Len(socks), spoiled' \in BOOLEAN,
           ~spoiled' => ~spoiled /\ \A s \in DOMAIN socks' : socks'[s].state # "reset"
    PROVE  PoolTypeOK' /\ PoolInv'
<1>1. PoolTypeOK'
  BY SenderTyped DEF PoolTypeOK
<1>2. HasConnection' = HasConnection /\ \A b \in RelayAddrs : HoldingAt(b)' = HoldingAt(b)
  BY KeepsConnection
<1>3. InUse' = InUse /\ \A b \in RelayAddrs : InUseAt(b)' = InUseAt(b)
  BY DEF InUse, InUseAt
<1> QED BY <1>1, <1>2, <1>3, SameUse

\* A step that leaves the pool and the senders alone.
LEMMA SocketStep ==
    ASSUME PoolTypeOK, PoolInv, UNCHANGED <<pool, active_count, sender, spoiled>>,
           socks' \in Seq(RelaySockets), Len(socks') = Len(socks),
           ~spoiled => \A s \in DOMAIN socks' : socks'[s].state # "reset"
    PROVE  PoolTypeOK' /\ PoolInv'
<1>1. PoolTypeOK'
  BY DEF PoolTypeOK
<1>2. HasConnection' = HasConnection /\ \A b \in RelayAddrs : HoldingAt(b)' = HoldingAt(b)
  BY DEF HasConnection, HoldingAt
<1>3. InUse' = InUse /\ \A b \in RelayAddrs : InUseAt(b)' = InUseAt(b)
  BY DEF InUse, InUseAt
<1> QED BY <1>1, <1>2, <1>3, SameUse

\* RelayManager::send starts.
LEMMA SendStep ==
    ASSUME PoolTypeOK, PoolInv, NEW t \in Senders, NEW r \in Remotes, RelaySend(t, r)
    PROVE  PoolTypeOK' /\ PoolInv'
<1>1. PICK y \in SenderRecords : y = sender[t]
  BY DEF PoolTypeOK
<1>2. UNCHANGED <<pool, active_count, socks, spoiled>> /\ y.pc = "free"
  BY <1>1 DEF RelaySend
<1>3. \/ sender' = [sender EXCEPT ![t] = [y EXCEPT !.pc = "connect", !.target = r, !.addr = Direct(r)]]
      \/ sender' = [sender EXCEPT ![t] = [y EXCEPT !.pc = "connect", !.target = r, !.addr = NextHop, !.type = "Relay"]]
      \/ sender' = sender
  BY <1>1 DEF RelaySend, PoolTypeOK
<1>4. Direct(r) \in RelayAddrs /\ NextHop \in RelayAddrs /\ r \in RelayTargets /\ "Relay" \in RelayTypes
  BY DEF RelayAddrs, RelayTargets, RelayTypes
<1>5. \E x \in SenderRecords : sender' = [sender EXCEPT ![t] = x] /\ x.pc \in {"free", "connect"}
  <2>1. CASE sender' = [sender EXCEPT ![t] = [y EXCEPT !.pc = "connect", !.target = r, !.addr = Direct(r)]]
    <3>1. PICK x : x = [y EXCEPT !.pc = "connect", !.target = r, !.addr = Direct(r)]
      OBVIOUS
    <3>2. x \in SenderRecords /\ x.pc = "connect"
      BY <1>4, <3>1 DEF SenderRecords
    <3> QED BY <2>1, <3>1, <3>2
  <2>2. CASE sender' = [sender EXCEPT ![t] = [y EXCEPT !.pc = "connect", !.target = r, !.addr = NextHop, !.type = "Relay"]]
    <3>1. PICK x : x = [y EXCEPT !.pc = "connect", !.target = r, !.addr = NextHop, !.type = "Relay"]
      OBVIOUS
    <3>2. x \in SenderRecords /\ x.pc = "connect"
      BY <1>4, <3>1 DEF SenderRecords
    <3> QED BY <2>2, <3>1, <3>2
  <2>3. CASE sender' = sender
    BY <1>1, <1>2, <2>3 DEF PoolTypeOK
  <2> QED BY <1>3, <2>1, <2>2, <2>3
<1>6. PICK x \in SenderRecords : sender' = [sender EXCEPT ![t] = x] /\ x.pc \in {"free", "connect"}
  BY <1>5
<1>7. /\ socks' \in Seq(RelaySockets) /\ Len(socks') = Len(socks) /\ spoiled' \in BOOLEAN
      /\ ~spoiled' => ~spoiled /\ \A s \in DOMAIN socks' : socks'[s].state # "reset"
  BY <1>2 DEF PoolTypeOK, PoolInv
<1> QED BY <1>1, <1>2, <1>6, <1>7, SenderStep

\* get_connection fails.
LEMMA ConnectFailsStep ==
    ASSUME PoolTypeOK, PoolInv, NEW t \in Senders, ConnectFails(t)
    PROVE  PoolTypeOK' /\ PoolInv'
<1>1. /\ sender[t].pc = "connect" /\ sender' = [sender EXCEPT ![t] = SenderFree]
      /\ UNCHANGED <<pool, active_count, socks, spoiled>>
  BY DEF ConnectFails, Released
<1>2. /\ socks' \in Seq(RelaySockets) /\ Len(socks') = Len(socks) /\ spoiled' \in BOOLEAN
      /\ ~spoiled' => ~spoiled /\ \A s \in DOMAIN socks' : socks'[s].state # "reset"
  BY <1>1 DEF PoolTypeOK, PoolInv
<1> QED BY <1>1, <1>2, SenderFreeTyped, SenderStep

\* A socket changes to o.
LEMMA SocketTyped ==
    ASSUME PoolTypeOK, NEW s \in DOMAIN socks, NEW o \in RelaySockets, socks' = [socks EXCEPT ![s] = o]
    PROVE  /\ socks' \in Seq(RelaySockets) /\ Len(socks') = Len(socks)
           /\ \A i \in DOMAIN socks' : i \in DOMAIN socks /\ socks'[i] = IF i = s THEN o ELSE socks[i]
BY DEF PoolTypeOK

\* The message is written; if the server closed its end, the pool is spoiled.
LEMMA WriteStep ==
    ASSUME PoolTypeOK, PoolInv, NEW t \in Senders, WriteMessage(t)
    PROVE  PoolTypeOK' /\ PoolInv'
<1>1. PICK y \in SenderRecords : y = sender[t]
  BY DEF PoolTypeOK
<1>2. PICK s : s = y.sock
  OBVIOUS
<1>3. PICK m : m = MessageOf(t)
  OBVIOUS
<1>4. m \in RelayMessages
  BY <1>1, <1>3 DEF MessageOf, RelayMessages, SenderRecords
<1>5. PICK x : x = [y EXCEPT !.pc = "return"]
  OBVIOUS
<1>6. /\ y.pc = "write"
      /\ sender' = [sender EXCEPT ![t] = x]
      /\ spoiled' = (spoiled \/ socks[s].state # "open")
      /\ UNCHANGED <<pool, active_count>>
      /\ \/ socks[s].state = "open" /\ socks' = [socks EXCEPT ![s].flight = Append(@, m)]
         \/ socks[s].state # "open" /\ socks' = [socks EXCEPT ![s].state = "reset"]
  BY <1>1, <1>2, <1>3, <1>5 DEF WriteMessage, PoolTypeOK
<1>7. x \in SenderRecords /\ x.pc = "return" /\ x.addr = y.addr
  BY <1>1, <1>5 DEF SenderRecords
<1>8. /\ socks' \in Seq(RelaySockets) /\ Len(socks') = Len(socks)
      /\ ~spoiled' => \A i \in DOMAIN socks' : socks'[i].state # "reset"
  <2>1. CASE s \notin DOMAIN socks
    <3>1. socks' = socks
      BY <1>6, <2>1 DEF PoolTypeOK
    <3> QED BY <1>6, <3>1 DEF PoolTypeOK, PoolInv
  <2>2. CASE s \in DOMAIN socks
    <3>1. PICK o \in RelaySockets : o = socks[s]
      BY <2>2 DEF PoolTypeOK
    <3>2. CASE o.state = "open"
      <4>1. PICK q : q = [o EXCEPT !.flight = Append(o.flight, m)]
        OBVIOUS
      <4>2. q \in RelaySockets /\ q.state = "open"
        <5>1. o.flight \in Seq(RelayMessages)
          BY DEF RelaySockets
        <5>2. Append(o.flight, m) \in Seq(RelayMessages)
          BY <1>4, <5>1
        <5> QED BY <3>2, <4>1, <5>2 DEF RelaySockets
      <4>3. socks' = [socks EXCEPT ![s] = q]
        BY <1>6, <2>2, <3>1, <3>2, <4>1 DEF PoolTypeOK
      <4>4. ~spoiled' => \A i \in DOMAIN socks' : socks'[i].state # "reset"
        BY <1>6, <2>2, <4>2, <4>3, SocketTyped DEF PoolInv
      <4> QED BY <2>2, <4>2, <4>3, <4>4, SocketTyped
    <3>3. CASE o.state # "open"
      <4>1. PICK q : q = [o EXCEPT !.state = "reset"]
        OBVIOUS
      <4>2. q \in RelaySockets
        BY <3>1, <4>1 DEF RelaySockets
      <4>3. socks' = [socks EXCEPT ![s] = q]
        BY <1>6, <2>2, <3>1, <3>3, <4>1 DEF PoolTypeOK
      <4>4. spoiled'
        BY <1>6, <3>1, <3>3
      <4> QED BY <2>2, <4>2, <4>3, <4>4, SocketTyped
    <3> QED BY <3>2, <3>3
  <2> QED BY <2>1, <2>2
<1>9. spoiled' \in BOOLEAN /\ (~spoiled' => ~spoiled)
  BY <1>6
<1> QED BY <1>1, <1>6, <1>7, <1>8, <1>9, SenderStep

\* The server reads or closes its end.
LEMMA ServerReadStep ==
    ASSUME PoolTypeOK, PoolInv, NEW s \in DOMAIN socks, ReadMessage(s) \/ HandlerEnds(s)
    PROVE  PoolTypeOK' /\ PoolInv'
<1>1. PICK o \in RelaySockets : o = socks[s]
  BY DEF PoolTypeOK
<1>2. UNCHANGED <<pool, active_count, sender, spoiled>>
  BY DEF ReadMessage, HandlerEnds
<1>3. \E q \in RelaySockets : socks' = [socks EXCEPT ![s] = q] /\ q.state # "reset"
  <2>1. CASE ReadMessage(s)
    <3>1. PICK q : q = [o EXCEPT !.flight = Tail(o.flight)]
      OBVIOUS
    <3>2. o.state = "open" /\ o.flight # <<>>
      BY <1>1, <2>1 DEF ReadMessage
    <3>3. q \in RelaySockets /\ q.state = "open"
      <4>1. o.flight \in Seq(RelayMessages)
        BY DEF RelaySockets
      <4>2. Tail(o.flight) \in Seq(RelayMessages)
        BY <3>2, <4>1
      <4> QED BY <3>1, <3>2, <4>2 DEF RelaySockets
    <3>4. socks' = [socks EXCEPT ![s] = q]
      BY <1>1, <2>1, <3>1 DEF ReadMessage, PoolTypeOK
    <3> QED BY <3>3, <3>4
  <2>2. CASE HandlerEnds(s)
    <3>1. PICK q : q = [state |-> "closed", flight |-> <<>>]
      OBVIOUS
    <3>2. q \in RelaySockets /\ q.state = "closed"
      BY <3>1 DEF RelaySockets
    <3>3. socks' = [socks EXCEPT ![s] = q]
      BY <2>2, <3>1 DEF HandlerEnds
    <3> QED BY <3>2, <3>3
  <2> QED BY <2>1, <2>2
<1>4. PICK q \in RelaySockets : socks' = [socks EXCEPT ![s] = q] /\ q.state # "reset"
  BY <1>3
<1>5. /\ socks' \in Seq(RelaySockets) /\ Len(socks') = Len(socks)
      /\ ~spoiled => \A i \in DOMAIN socks' : socks'[i].state # "reset"
  BY <1>4, SocketTyped DEF PoolInv
<1> QED BY <1>2, <1>5, SocketStep

\* Every step of the relay layer preserves the invariant.
LEMMA PoolStep ==
    ASSUME PoolTypeOK, PoolInv, [RelayNext]_relayVars
    PROVE  PoolTypeOK' /\ PoolInv'
<1>1. ASSUME UNCHANGED <<pool, active_count, socks, sender, spoiled>> PROVE PoolTypeOK' /\ PoolInv'
  <2>1. /\ socks' \in Seq(RelaySockets) /\ Len(socks') = Len(socks)
        /\ ~spoiled => \A i \in DOMAIN socks' : socks'[i].state # "reset"
    BY <1>1 DEF PoolTypeOK, PoolInv
  <2> QED BY <1>1, <2>1, SocketStep
<1>2. CASE \E r \in Remotes : RelayRegister(r) \/ SetRelay(r)
  <2>1. UNCHANGED <<pool, active_count, socks, sender, spoiled>>
    BY <1>2 DEF RelayRegister, SetRelay
  <2> QED BY <1>1, <2>1
<1>3. CASE \E t \in Senders, r \in Remotes : RelaySend(t, r)
  BY <1>3, SendStep
<1>4. ASSUME NEW t \in Senders,
             ReuseConnection(t) \/ CloneFails(t) \/ OpenConnection(t) \/ ConnectFails(t) \/ WriteMessage(t) \/ ReturnConnection(t)
      PROVE  PoolTypeOK' /\ PoolInv'
  BY <1>4, ReuseStep, CloneStep, OpenStep, ConnectFailsStep, WriteStep, ReturnStep
<1>5. CASE CleanupIdle
  BY <1>5, CleanupStep
<1>6. CASE ClearPool
  BY <1>6, ClearStep
<1>7. CASE ServerStart \/ ServerStop \/ TakeReceived
  <2>1. UNCHANGED <<pool, active_count, socks, sender, spoiled>>
    BY <1>7 DEF ServerStart, ServerStop, TakeReceived
  <2> QED BY <1>1, <2>1
<1>8. CASE \E s \in DOMAIN socks : ReadMessage(s) \/ HandlerEnds(s)
  BY <1>8, ServerReadStep
<1>9. CASE UNCHANGED relayVars
  <2>1. UNCHANGED <<pool, active_count, socks, sender, spoiled>>
    BY <1>9 DEF relayVars, poolVars
  <2> QED BY <1>1, <2>1
<1> QED BY <1>2, <1>3, <1>4, <1>5, <1>6, <1>7, <1>8, <1>9 DEF RelayNext

\* As long as no connection broke and none was thrown away in use, active_count of the
\* connection pool (vpn/relay.rs), the slots marked in use and the senders that have a
\* connection are as many, whichever slot return_connection frees and whatever
\* cleanup_idle drops: for any number of senders, addresses and sockets and any max_size.
THEOREM PoolStaysBalanced == MeshSpec => []PoolBalanced
<1>1. MeshInit => PoolTypeOK /\ PoolInv
  <2> SUFFICES ASSUME RelayInit PROVE PoolTypeOK /\ PoolInv
    BY DEF MeshInit
  <2>1. PoolTypeOK
    <3>1. socks \in Seq(RelaySockets) /\ Len(socks) <= MaxSocks
      BY RelayAssumption DEF RelayInit
    <3>2. sender \in [Senders -> SenderRecords]
      BY SenderFreeTyped DEF RelayInit
    <3>3. pool \in [RelayAddrs -> SUBSET Slots] /\ \A a \in RelayAddrs : pool[a] = {}
      BY DEF RelayInit
    <3>4. spoiled = FALSE
      BY DEF RelayInit
    <3> QED BY <3>1, <3>2, <3>3, <3>4 DEF PoolTypeOK
  <2>2. InUse = {} /\ \A b \in RelayAddrs : InUseAt(b) = {}
    <3>1. \A b \in RelayAddrs : InUseAt(b) = {}
      BY DEF InUseAt, RelayInit
    <3>2. ASSUME NEW x \in InUse PROVE FALSE
      BY <3>2 DEF InUse, RelayInit
    <3> QED BY <3>1, <3>2
  <2>3. HasConnection = {} /\ \A b : HoldingAt(b) = {}
    <3>1. \A t \in Senders : sender[t].pc = "free"
      BY SenderFreeTyped DEF RelayInit
    <3> QED BY <3>1 DEF HasConnection, HoldingAt
  <2>4. IsFiniteSet({}) /\ Cardinality({}) = 0
    BY FS_EmptySet
  <2>5. active_count = 0 /\ socks = <<>>
    BY DEF RelayInit
  <2>6. PoolInv
    <3>1. DOMAIN socks = {}
      BY <2>5
    <3>2. \A b \in RelayAddrs : Cardinality(InUseAt(b)) = Cardinality(HoldingAt(b))
      BY <2>2, <2>3
    <3>3. active_count = Cardinality(HasConnection) /\ Cardinality(InUse) = Cardinality(HasConnection)
      BY <2>2, <2>3, <2>4, <2>5
    <3>4. IsFiniteSet(InUse) /\ \A b \in RelayAddrs : IsFiniteSet(InUseAt(b))
      BY <2>2, <2>4
    <3> QED BY <3>1, <3>2, <3>3, <3>4 DEF PoolInv
  <2> QED BY <2>1, <2>6
<1>2. PoolTypeOK /\ PoolInv /\ [MeshNext]_meshVars => (PoolTypeOK /\ PoolInv)'
  <2>1. [MeshNext]_meshVars => [RelayNext]_relayVars
    BY RelayStep DEF meshVars
  <2> QED BY <2>1, PoolStep
<1>3. PoolInv => PoolBalanced
  BY DEF PoolInv, PoolBalanced, HasConnection, InUse
<1>4. QED
  BY <1>1, <1>2, <1>3, PTL DEF MeshSpec

-----------------------------------------------------------------------------
(* The routing table of Dht. *)

\* A step of the mesh is a step of the routing table, or leaves it alone.
LEMMA DhtStep == MeshNext => [DhtNext]_dhtVars
BY DEF MeshNext, Rest

\* Every id has a bucket.
LEMMA IndexIsBucket == \A id : BucketIndex(id) \in 1..Bits
<1>1. SUFFICES ASSUME NEW id PROVE BucketIndex(id) \in 1..Bits
  OBVIOUS
<1>2. PICK ones : ones = {i \in 1..Bits : XorDistance(LocalId, id)[i] = 1}
  OBVIOUS
<1>3. CASE ones = {}
  BY <1>2, <1>3, DhtAssumption DEF BucketIndex
<1>4. CASE ones # {}
  <2>1. ones \subseteq 1..Bits
    BY <1>2
  <2>2. ones \subseteq Nat
    BY <2>1, DhtAssumption
  <2>3. \E i \in ones : \A j \in ones : i <= j
    BY <1>4, <2>2, LeastNat
  <2>4. BucketIndex(id) = CHOOSE i \in ones : \A j \in ones : i <= j
    BY <1>2, <1>4 DEF BucketIndex
  <2> QED BY <2>1, <2>3, <2>4
<1> QED BY <1>3, <1>4

\* The first place of a node in a bucket is one of its places.
LEMMA FirstIsPosition ==
    ASSUME NEW S, NEW q \in Seq(S), NEW id, Position(q, id) # {}
    PROVE  FirstPosition(q, id) \in 1..Len(q) /\ q[FirstPosition(q, id)].node_id = id
<1>1. Position(q, id) \subseteq Nat
  BY DEF Position
<1>2. \E i \in Position(q, id) : \A j \in Position(q, id) : i <= j
  BY <1>1, LeastNat
<1>3. FirstPosition(q, id) \in Position(q, id)
  BY <1>2 DEF FirstPosition, Min
<1> QED BY <1>3 DEF Position

\* A sequence without the element at k.
LEMMA RemoveAtFacts ==
    ASSUME NEW S, NEW q \in Seq(S), NEW k \in 1..Len(q)
    PROVE  /\ RemoveAt(q, k) \in Seq(S) /\ Len(RemoveAt(q, k)) = Len(q) - 1
           /\ \A i \in 1..(Len(q) - 1) : RemoveAt(q, k)[i] = IF i < k THEN q[i] ELSE q[i + 1]
<1>1. PICK u : u = SubSeq(q, 1, k - 1)
  OBVIOUS
<1>2. PICK v : v = SubSeq(q, k + 1, Len(q))
  OBVIOUS
<1>3. u \in Seq(S) /\ Len(u) = k - 1 /\ \A i \in 1..(k - 1) : u[i] = q[i]
  BY <1>1
<1>4. v \in Seq(S) /\ Len(v) = Len(q) - k /\ \A i \in 1..(Len(q) - k) : v[i] = q[k + i]
  BY <1>2
<1>5. RemoveAt(q, k) = u \o v
  BY <1>1, <1>2 DEF RemoveAt
<1>6. u \o v \in Seq(S) /\ Len(u \o v) = Len(q) - 1
  BY <1>3, <1>4
<1>7. ASSUME NEW i \in 1..(Len(q) - 1) PROVE (u \o v)[i] = IF i < k THEN q[i] ELSE q[i + 1]
  <2>1. CASE i < k
    BY <1>3, <1>4, <2>1
  <2>2. CASE ~(i < k)
    <3>1. (u \o v)[i] = v[i - (k - 1)]
      BY <1>3, <1>4, <2>2
    <3>2. i - (k - 1) \in 1..(Len(q) - k) /\ k + (i - (k - 1)) = i + 1
      BY <2>2
    <3> QED BY <1>4, <2>2, <3>1, <3>2
  <2> QED BY <2>1, <2>2
<1> QED BY <1>5, <1>6, <1>7

\* A bucket as it should be: ids that belong there, each once and not the local one,
\* and no more of them than it holds.
BucketOK(q, b) ==
    /\ \E S : q \in Seq(S)
    /\ Len(q) <= K_BUCKET_SIZE
    /\ \A i \in DOMAIN q : BucketIndex(q[i].node_id) = b /\ q[i].node_id # LocalId
    /\ \A i, j \in DOMAIN q : q[i].node_id = q[j].node_id => i = j

\* KBucket::remove leaves the bucket without the node.
LEMMA RemoveFacts ==
    ASSUME NEW b, NEW q, BucketOK(q, b), NEW id, NEW r, r = KBucketRemove(q, id)
    PROVE  /\ BucketOK(r, b)
           /\ Position(q, id) # {} => Len(r) = Len(q) - 1
           /\ \A i \in DOMAIN r : r[i].node_id # id
<1>0. PICK S : q \in Seq(S)
  BY DEF BucketOK
<1>1. CASE Position(q, id) = {}
  <2>1. r = q
    BY <1>1 DEF KBucketRemove
  <2> QED BY <1>1, <2>1 DEF Position
<1>2. CASE Position(q, id) # {}
  <2>1. PICK k \in 1..Len(q) : k = FirstPosition(q, id) /\ q[k].node_id = id
    BY <1>0, <1>2, FirstIsPosition
  <2>2. r = RemoveAt(q, k)
    BY <1>2, <2>1 DEF KBucketRemove
  <2>3. /\ r \in Seq(S) /\ Len(r) = Len(q) - 1
        /\ \A i \in 1..(Len(q) - 1) : r[i] = IF i < k THEN q[i] ELSE q[i + 1]
    BY <1>0, <2>2, RemoveAtFacts
  <2>4. PICK at \in [1..(Len(q) - 1) -> Nat] : \A i \in 1..(Len(q) - 1) : at[i] = IF i < k THEN i ELSE i + 1
    <3>1. [i \in 1..(Len(q) - 1) |-> IF i < k THEN i ELSE i + 1] \in [1..(Len(q) - 1) -> Nat]
      BY <1>0
    <3> QED BY <3>1
  <2>5. Len(q) \in Nat /\ DOMAIN r = 1..(Len(q) - 1) /\ DOMAIN q = 1..Len(q) /\ k \in Nat
    BY <1>0, <2>3
  <2>6. \A i \in DOMAIN r : at[i] \in DOMAIN q /\ at[i] # k /\ r[i] = q[at[i]]
    BY <2>3, <2>4, <2>5
  <2>7. \A i, j \in DOMAIN r : at[i] = at[j] => i = j
    BY <2>4, <2>5
  <2>8. \A i \in DOMAIN r : BucketIndex(r[i].node_id) = b /\ r[i].node_id # LocalId /\ r[i].node_id # id
    BY <2>1, <2>5, <2>6 DEF BucketOK
  <2>9. \A i, j \in DOMAIN r : r[i].node_id = r[j].node_id => i = j
    BY <2>6, <2>7 DEF BucketOK
  <2>10. Len(r) <= K_BUCKET_SIZE
    BY <2>3, <2>5, DhtAssumption DEF BucketOK
  <2> QED BY <2>3, <2>8, <2>9, <2>10 DEF BucketOK
<1> QED BY <1>1, <1>2

\* An entry at the end of a bucket that has room and does not know its id.
LEMMA AppendFacts ==
    ASSUME NEW b, NEW q, BucketOK(q, b), Len(q) + 1 <= K_BUCKET_SIZE,
           NEW e, BucketIndex(e.node_id) = b, e.node_id # LocalId, \A i \in DOMAIN q : q[i].node_id # e.node_id
    PROVE  BucketOK(Append(q, e), b)
<1>1. PICK S : q \in Seq(S)
  BY DEF BucketOK
<1>2. q \in Seq(S \cup {e})
  BY <1>1
<1>3. PICK r : r = Append(q, e)
  OBVIOUS
<1>4. /\ r \in Seq(S \cup {e}) /\ Len(r) = Len(q) + 1 /\ DOMAIN r = 1..(Len(q) + 1)
      /\ DOMAIN q = 1..Len(q) /\ Len(q) \in Nat
      /\ \A i \in 1..(Len(q) + 1) : r[i] = IF i = Len(q) + 1 THEN e ELSE q[i]
  BY <1>2, <1>3
<1>5. \A i \in DOMAIN r : i = Len(q) + 1 \/ i \in DOMAIN q
  BY <1>4
<1>6. \A i \in DOMAIN r : BucketIndex(r[i].node_id) = b /\ r[i].node_id # LocalId
  BY <1>4, <1>5 DEF BucketOK
<1>7. \A i, j \in DOMAIN r : r[i].node_id = r[j].node_id => i = j
  BY <1>4, <1>5 DEF BucketOK
<1> QED BY <1>3, <1>4, <1>6, <1>7 DEF BucketOK

\* An entry has the id it was made for.
LEMMA EntryId == \A id, addr : BucketEntry(id, addr).node_id = id
BY DEF BucketEntry

\* KBucket::insert and touch.
LEMMA InsertFacts ==
    ASSUME NEW q, NEW id, id # LocalId, BucketOK(q, BucketIndex(id)), NEW addr
    PROVE  BucketOK(KBucketInsert(q, id, addr), BucketIndex(id))
<1>0. PICK S : q \in Seq(S)
  BY DEF BucketOK
<1>1. PICK e : e = BucketEntry(id, addr) /\ e.node_id = id
  BY EntryId
<1>2. PICK r : r = KBucketInsert(q, id, addr)
  OBVIOUS
<1>3. CASE Position(q, id) # {}
  <2>1. PICK k \in 1..Len(q) : k = FirstPosition(q, id) /\ q[k].node_id = id
    BY <1>0, <1>3, FirstIsPosition
  <2>2. r = [q EXCEPT ![k] = e]
    BY <1>1, <1>2, <1>3, <2>1 DEF KBucketInsert
  <2>3. q \in Seq(S \cup {e})
    BY <1>0
  <2>4. /\ r \in Seq(S \cup {e}) /\ DOMAIN r = DOMAIN q /\ Len(r) = Len(q)
        /\ \A i \in DOMAIN q : r[i] = IF i = k THEN e ELSE q[i]
    BY <2>2, <2>3
  <2>5. \A i \in DOMAIN q : r[i].node_id = q[i].node_id
    BY <1>1, <2>1, <2>4
  <2> QED BY <1>2, <2>4, <2>5 DEF BucketOK
<1>4. CASE Position(q, id) = {} /\ Len(q) < K_BUCKET_SIZE
  <2>1. r = Append(q, e)
    BY <1>1, <1>2, <1>4 DEF KBucketInsert
  <2>2. Len(q) + 1 <= K_BUCKET_SIZE
    BY <1>0, <1>4, DhtAssumption
  <2>3. \A i \in DOMAIN q : q[i].node_id # e.node_id
    BY <1>1, <1>4 DEF Position
  <2> QED BY <1>1, <1>2, <2>1, <2>2, <2>3, AppendFacts
<1>5. CASE Position(q, id) = {} /\ ~(Len(q) < K_BUCKET_SIZE)
  <2>1. r = q
    BY <1>2, <1>5 DEF KBucketInsert
  <2> QED BY <1>2, <2>1
<1> QED BY <1>3, <1>4, <1>5

LEMMA TouchFacts ==
    ASSUME NEW q, NEW id, id # LocalId, BucketOK(q, BucketIndex(id))
    PROVE  BucketOK(KBucketTouch(q, id), BucketIndex(id))
<1>1. CASE Position(q, id) = {}
  BY <1>1 DEF KBucketTouch
<1>2. CASE Position(q, id) # {}
  <2>1. PICK e : e = BucketEntry(id, q[FirstPosition(q, id)].addr) /\ e.node_id = id
    BY EntryId
  <2>2. PICK p : p = KBucketRemove(q, id)
    OBVIOUS
  <2>3. BucketOK(p, BucketIndex(id)) /\ Len(p) = Len(q) - 1 /\ \A i \in DOMAIN p : p[i].node_id # id
    BY <1>2, <2>2, RemoveFacts
  <2>4. Len(p) + 1 <= K_BUCKET_SIZE
    <3>1. PICK S : q \in Seq(S)
      BY DEF BucketOK
    <3>2. Len(q) \in Nat /\ Len(q) <= K_BUCKET_SIZE
      BY <3>1 DEF BucketOK
    <3> QED BY <2>3, <3>2, DhtAssumption
  <2>5. KBucketTouch(q, id) = Append(p, e)
    BY <1>2, <2>1, <2>2 DEF KBucketTouch
  <2> QED BY <2>1, <2>3, <2>4, <2>5, AppendFacts
<1> QED BY <1>1, <1>2

\* The routing table is made of such buckets.
TableOK == buckets \in [1..Bits -> {buckets[b] : b \in 1..Bits}] /\ \A b \in 1..Bits : BucketOK(buckets[b], b)

\* One bucket of the table changes, or none.
LEMMA BucketChange ==
    ASSUME TableOK, NEW b, NEW r, b \in 1..Bits => BucketOK(r, b), buckets' = [buckets EXCEPT ![b] = r]
    PROVE  TableOK'
<1>1. DOMAIN buckets' = 1..Bits /\ buckets' = [c \in 1..Bits |-> buckets'[c]]
  BY DEF TableOK
<1>2. \A c \in 1..Bits : buckets'[c] = IF c = b THEN r ELSE buckets[c]
  BY DEF TableOK
<1>3. \A c \in 1..Bits : BucketOK(buckets'[c], c)
  BY <1>2 DEF TableOK
<1> QED BY <1>1, <1>3 DEF TableOK, BucketOK

LEMMA SameTable ==
    ASSUME TableOK, buckets' = buckets
    PROVE  TableOK'
BY DEF TableOK, BucketOK

\* Every step of the routing table keeps it so.
LEMMA TableStep ==
    ASSUME TableOK, [DhtNext]_dhtVars
    PROVE  TableOK'
<1>1. CASE \E nodes \in ConfigNodes : StartFromBootstrap(nodes)
  BY <1>1, SameTable DEF StartFromBootstrap
<1>2. ASSUME NEW s \in Peers, ProcessPing(s) \/ ProcessPong(s)
      PROVE  TableOK'
  <2>1. buckets' = TouchNode(buckets, s)
    BY <1>2 DEF ProcessPing, ProcessPong
  <2>2. CASE s = LocalId
    BY <2>1, <2>2, SameTable DEF TouchNode
  <2>3. CASE s # LocalId
    <3>1. BucketOK(buckets[BucketIndex(s)], BucketIndex(s))
      BY IndexIsBucket DEF TableOK
    <3>2. PICK r : r = KBucketTouch(buckets[BucketIndex(s)], s)
      OBVIOUS
    <3>3. BucketOK(r, BucketIndex(s))
      BY <2>3, <3>1, <3>2, TouchFacts
    <3>4. buckets' = [buckets EXCEPT ![BucketIndex(s)] = r]
      BY <2>1, <2>3, <3>2 DEF TouchNode
    <3> QED BY <3>3, <3>4, BucketChange
  <2> QED BY <2>2, <2>3
<1>3. ASSUME NEW b, NEW id, buckets' = [buckets EXCEPT ![b] = KBucketRemove(buckets[b], id)]
      PROVE  TableOK'
  <2>1. PICK r : r = KBucketRemove(buckets[b], id)
    OBVIOUS
  <2>2. b \in 1..Bits => BucketOK(r, b)
    BY <2>1, RemoveFacts DEF TableOK
  <2> QED BY <1>3, <2>1, <2>2, BucketChange
<1>4. ASSUME NEW s \in Peers, DropNode(s)
      PROVE  TableOK'
  <2>1. buckets' = RemoveNode(buckets, s)
    BY <1>4 DEF DropNode
  <2>2. CASE s = LocalId
    BY <2>1, <2>2, SameTable DEF RemoveNode
  <2>3. CASE s # LocalId
    BY <1>3, <2>1, <2>3 DEF RemoveNode
  <2> QED BY <2>2, <2>3
<1>5. CASE \E t \in Peers, short \in BOOLEAN : ProcessFindNode(t, short)
  BY <1>5, SameTable DEF ProcessFindNode
<1>6. CASE \E n \in Peers, cut \in {0, 1} : ProcessNodes([count |-> 1 + cut, nodes |-> <<<<n, "addr">>>>])
  BY <1>6, SameTable DEF ProcessNodes
<1>7. CASE \E k \in Keys, ttl \in ValueTTLs, w \in BOOLEAN : ProcessPut([whole |-> w, key |-> k, ttl |-> ttl])
  BY <1>7, SameTable DEF ProcessPut
<1>8. CASE \E k \in Keys : ProcessGet(k)
  BY <1>8, SameTable DEF ProcessGet
<1>9. CASE InsertNext
  <2>1. PICK id, addr : buckets' = InsertNode(buckets, id, addr)
    BY <1>9 DEF InsertNext
  <2>2. CASE id = LocalId
    BY <2>1, <2>2, SameTable DEF InsertNode
  <2>3. CASE id # LocalId
    <3>1. BucketOK(buckets[BucketIndex(id)], BucketIndex(id))
      BY IndexIsBucket DEF TableOK
    <3>2. PICK r : r = KBucketInsert(buckets[BucketIndex(id)], id, addr)
      OBVIOUS
    <3>3. BucketOK(r, BucketIndex(id))
      BY <2>3, <3>1, <3>2, InsertFacts
    <3>4. buckets' = [buckets EXCEPT ![BucketIndex(id)] = r]
      BY <2>1, <2>3, <3>2 DEF InsertNode
    <3> QED BY <3>3, <3>4, BucketChange
  <2> QED BY <2>2, <2>3
<1>10. CASE CleanupValues \/ DhtTick
  BY <1>10, SameTable DEF CleanupValues, DhtTick
<1>11. CASE RefreshScan \/ RefreshEnd
  BY <1>11, SameTable DEF RefreshScan, RefreshEnd
<1>12. CASE RefreshRemove
  BY <1>3, <1>12 DEF RefreshRemove
<1>13. CASE UNCHANGED dhtVars
  BY <1>13, SameTable DEF dhtVars
<1> QED BY <1>1, <1>2, <1>4, <1>5, <1>6, <1>7, <1>8, <1>9, <1>10, <1>11, <1>12, <1>13 DEF DhtNext

\* For any ids and bucket size, and however refresh is interleaved with the messages,
\* the lists and the removals of other threads: every node is in the routing table
\* (vpn/dht.rs) at most once, in the bucket of its distance, the local id never, and
\* no bucket has more nodes than it holds.
THEOREM TableStaysSound == MeshSpec => []NodesFiledOnce
<1>1. MeshInit => TableOK
  <2> SUFFICES ASSUME DhtInit PROVE TableOK
    BY DEF MeshInit
  <2>1. <<>> \in Seq({}) /\ DOMAIN <<>> = {} /\ Len(<<>>) = 0
    OBVIOUS
  <2>2. buckets = [b \in 1..Bits |-> <<>>]
    BY DEF DhtInit, EmptyBucket
  <2> QED BY <2>1, <2>2, DhtAssumption DEF TableOK, BucketOK
<1>2. TableOK /\ [MeshNext]_meshVars => TableOK'
  <2>1. [MeshNext]_meshVars => [DhtNext]_dhtVars
    BY DhtStep DEF meshVars
  <2> QED BY <2>1, TableStep
<1>3. TableOK => NodesFiledOnce
  BY IndexIsBucket DEF TableOK, BucketOK, NodesFiledOnce
<1>4. QED
  BY <1>1, <1>2, <1>3, PTL DEF MeshSpec
=============================================================================
