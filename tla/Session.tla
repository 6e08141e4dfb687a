------------------------------ MODULE Session -------------------------------
(***************************************************************************)
(* SessionManager (vpn/session.rs): the table of sessions, used by several  *)
(* threads, every method under its lock.  get_or_create and get hand out a  *)
(* copy; what a thread does to its copy, its counters first of all, never   *)
(* reaches the table (get_mut returns nothing).                             *)
(***************************************************************************)
EXTENDS Integers, FiniteSets

CONSTANTS
    SessionUsers, SessionPeers,
    session_timeout,
    NoKeys,
    MaxSessionTime, MaxSends, MaxKeys    \* bounds

ASSUME SessionAssumption == NoKeys \notin Nat

VARIABLES
    sessions,                 \* by remote id
    copy,                     \* the copy a thread works on
    sessionNow, keysMade,
    erased                    \* history: keys overwritten by secure_erase

sessionVars == <<sessions, copy, sessionNow, keysMade, erased>>

NoSession == [state |-> "none", keys |-> NoKeys, last_active |-> 0, send_counter |-> 0, recv_counter |-> 0]
NewSession == [NoSession EXCEPT !.state = "Init", !.last_active = sessionNow]
SessionStates == {"Init", "Handshake", "Established", "Closing", "Closed"}

SessionInit ==
    /\ sessions = [p \in SessionPeers |-> NoSession]
    /\ copy = [u \in SessionUsers |-> NoSession]
    /\ sessionNow = 0 /\ keysMade = 0
    /\ erased = {}

IsSessionExpired(s) == sessionNow - s.last_active > session_timeout

\* transition: the moves that are allowed.
ValidTransitions(state) ==
    CASE state = "Init" -> {"Handshake", "Closed"}
      [] state = "Handshake" -> {"Established", "Closed"}
      [] state = "Established" -> {"Closing"}
      [] state = "Closing" -> {"Closed"}
      [] OTHER -> {}

\* secure_close: the keys are overwritten.
SecureClose(s) == erased \cup ({s.keys} \ {NoKeys})

\* Mutant of GetOrCreate: an expired session is not the only one replaced.
GetOrCreateInactive(u, p) ==
    /\ IF sessions[p].state = "Established" /\ ~IsSessionExpired(sessions[p])
       THEN copy' = [copy EXCEPT ![u] = sessions[p]] /\ UNCHANGED sessions
       ELSE /\ copy' = [copy EXCEPT ![u] = NewSession]
            /\ sessions' = [sessions EXCEPT ![p] = NewSession]
    /\ UNCHANGED <<sessionNow, keysMade, erased>>

\* get_or_create: an expired session is replaced, its keys are not erased.
GetOrCreate(u, p) ==
    /\ IF sessions[p].state # "none" /\ ~IsSessionExpired(sessions[p])
       THEN copy' = [copy EXCEPT ![u] = sessions[p]] /\ UNCHANGED sessions
       ELSE /\ copy' = [copy EXCEPT ![u] = NewSession]
            /\ sessions' = [sessions EXCEPT ![p] = NewSession]
    /\ UNCHANGED <<sessionNow, keysMade, erased>>

\* get
GetSession(u, p) ==
    /\ sessions[p].state # "none"
    /\ copy' = [copy EXCEPT ![u] = sessions[p]]
    /\ UNCHANGED <<sessions, sessionNow, keysMade, erased>>

\* next_send_counter and verify_recv_counter, on the copy.
NextSendCounter(u) ==
    /\ copy[u].state # "none" /\ copy[u].send_counter < MaxSends
    /\ copy' = [copy EXCEPT ![u].send_counter = @ + 1, ![u].last_active = sessionNow]
    /\ UNCHANGED <<sessions, sessionNow, keysMade, erased>>

VerifyRecvCounter(u, counter) ==
    /\ copy[u].state # "none" /\ counter >= copy[u].recv_counter
    /\ copy' = [copy EXCEPT ![u].recv_counter = counter + 1, ![u].last_active = sessionNow]
    /\ UNCHANGED <<sessions, sessionNow, keysMade, erased>>

\* update_state
UpdateState(p, new) ==
    /\ sessions[p].state # "none" /\ new \in ValidTransitions(sessions[p].state)
    /\ sessions' = [sessions EXCEPT ![p].state = new, ![p].last_active = sessionNow]
    /\ UNCHANGED <<copy, sessionNow, keysMade, erased>>

\* set_keys, with keys that a handshake made.
SetKeys(p) ==
    /\ sessions[p].state # "none" /\ keysMade < MaxKeys
    /\ keysMade' = keysMade + 1
    /\ sessions' = [sessions EXCEPT ![p].keys = keysMade + 1, ![p].last_active = sessionNow]
    /\ UNCHANGED <<copy, sessionNow, erased>>

\* remove, and secure_remove.
RemoveSession(p) ==
    /\ sessions[p].state # "none"
    /\ sessions' = [sessions EXCEPT ![p] = NoSession]
    /\ UNCHANGED <<copy, sessionNow, keysMade, erased>>

SecureRemove(p) ==
    /\ sessions[p].state # "none"
    /\ erased' = SecureClose(sessions[p])
    /\ sessions' = [sessions EXCEPT ![p] = NoSession]
    /\ UNCHANGED <<copy, sessionNow, keysMade>>

\* cleanup_expired
CleanupExpired ==
    LET expired == {p \in SessionPeers : sessions[p].state # "none" /\ IsSessionExpired(sessions[p])}
    IN  /\ expired # {}
        /\ sessions' = [p \in SessionPeers |-> IF p \in expired THEN NoSession ELSE sessions[p]]
        /\ erased' = erased \cup UNION {SecureClose(sessions[p]) : p \in expired}
        /\ UNCHANGED <<copy, sessionNow, keysMade>>

TouchSession(p) ==
    /\ sessions[p].state # "none"
    /\ sessions' = [sessions EXCEPT ![p].last_active = sessionNow]
    /\ UNCHANGED <<copy, sessionNow, keysMade, erased>>

SessionTick ==
    /\ sessionNow < MaxSessionTime
    /\ sessionNow' = sessionNow + 1
    /\ UNCHANGED <<sessions, copy, keysMade, erased>>

SessionNext ==
    \/ \E u \in SessionUsers, p \in SessionPeers : GetOrCreate(u, p) \/ GetSession(u, p)
    \/ \E u \in SessionUsers : NextSendCounter(u) \/ VerifyRecvCounter(u, 0)
    \/ \E p \in SessionPeers, new \in SessionStates : UpdateState(p, new)
    \/ \E p \in SessionPeers : SetKeys(p) \/ RemoveSession(p) \/ SecureRemove(p) \/ TouchSession(p)
    \/ CleanupExpired \/ SessionTick

\* has_active_session, active_sessions
HasActiveSession(p) == sessions[p].state = "Established" /\ ~IsSessionExpired(sessions[p])

\* How far a session has come.
Progress(state) ==
    CASE state = "Init" -> 1 [] state = "Handshake" -> 2 [] state = "Established" -> 3
      [] state = "Closing" -> 4 [] OTHER -> 5

\* A session that is stored never goes back, and never loses the keys it has, while it
\* is not expired: it can be closed or removed, but only an expired one is replaced
\* by a new one, whatever the threads do.
SessionKept ==
    [][\A p \in SessionPeers :
          sessions[p].state # "none" /\ sessions'[p].state # "none" =>
             \/ IsSessionExpired(sessions[p])
             \/ /\ Progress(sessions'[p].state) >= Progress(sessions[p].state)
                /\ sessions[p].keys = NoKeys \/ sessions'[p].keys # NoKeys]_sessionVars
=============================================================================
