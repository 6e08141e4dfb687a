----------------------------- MODULE Handshake ------------------------------
(***************************************************************************)
(* The handshake (vpn/handshake.rs): Hello, HelloAck and Data between       *)
(* initiators and responders over a network that loses, delays, duplicates  *)
(* and reorders what is sent.  A node that restarts makes a new object, and *)
(* has forgotten the timestamps it used.  The Noise state is built and not  *)
(* used to encrypt; keys are left out.  Every party has a clock of its own, *)
(* and a message may arrive too short to hold a timestamp.  A Hello holds    *)
(* none.                                                                    *)
(***************************************************************************)
EXTENDS Integers, FiniteSets

CONSTANTS
    Initiators, Responders,
    REPLAY_WINDOW,            \* REPLAY_WINDOW_SECS
    MaxSkew,                  \* how far two clocks may be apart
    MaxHsTime, MaxHsRestarts  \* bounds: the time, new objects

\* A node that answers uses an object of its own.
ASSUME HandshakeAssumption == REPLAY_WINDOW \in Nat /\ MaxSkew \in Nat /\ Initiators \cap Responders = {}

VARIABLES
    phase, used_timestamps,
    hsNet,                    \* everything that was sent: it may arrive late, twice or never
    hsSkew,                   \* how far the clock of each party is ahead
    hsNow, hsRestarts,
    dataSent                  \* history: when an initiator last sent Data; -1 for never

hsVars == <<phase, used_timestamps, hsNet, hsSkew, hsNow, hsRestarts, dataSent>>

HsParties == Initiators \cup Responders

HsInit ==
    /\ phase = [x \in HsParties |-> "Init"]
    /\ used_timestamps = [x \in HsParties |-> {}]
    /\ hsNet = {}
    /\ hsSkew \in [HsParties -> 0..MaxSkew]
    /\ hsNow = 0 /\ hsRestarts = 0
    /\ dataSent = -1

\* SystemTime::now() of a party, in seconds.
Clock(x) == hsNow + hsSkew[x]

HsMsg(type, stamp) == [type |-> type, timestamp |-> stamp]

\* start_handshake, in any phase.
StartHandshake(i) ==
    /\ phase' = [phase EXCEPT ![i] = "HelloSent"]
    /\ hsNet' = hsNet \cup {HsMsg("Hello", 0)}
    /\ UNCHANGED <<used_timestamps, hsSkew, hsNow, hsRestarts, dataSent>>

\* handle_hello
HandleHello(b) ==
    /\ phase[b] = "Init"
    /\ \E m \in hsNet : m.type = "Hello"
    /\ phase' = [phase EXCEPT ![b] = "HelloReceived"]
    /\ hsNet' = hsNet \cup {HsMsg("HelloAck", Clock(b))}
    /\ UNCHANGED <<used_timestamps, hsSkew, hsNow, hsRestarts, dataSent>>

\* Mutant of Validate: the timestamp is not looked at.
ValidateNot(x, m) == TRUE

\* validate: not older than the window; one from the future passes.
Validate(x, m) == ~ Clock(x) > m.timestamp + REPLAY_WINDOW

\* check_replay
CheckReplay(x, m) == m.timestamp \notin used_timestamps[x]

\* What the handlers do with the timestamp of m, ...
UseTimestamp(x, m) ==
    /\ Validate(x, m) /\ CheckReplay(x, m)
    /\ used_timestamps' = [used_timestamps EXCEPT ![x] = @ \cup {m.timestamp}]

\* ... and when m arrives cut: from_bytes finds none in fewer than 8 bytes, and they go on.
ArrivesCut == UNCHANGED used_timestamps

\* handle_hello_ack
HandleHelloAck(i) ==
    /\ phase[i] = "HelloSent"
    /\ \E m \in hsNet : m.type = "HelloAck" /\ (UseTimestamp(i, m) \/ ArrivesCut)
    /\ phase' = [phase EXCEPT ![i] = "HelloAckReceived"]
    /\ hsNet' = hsNet \cup {HsMsg("Data", Clock(i))}
    /\ dataSent' = hsNow
    /\ UNCHANGED <<hsSkew, hsNow, hsRestarts>>

\* complete
CompleteHandshake(i) ==
    /\ phase[i] = "HelloAckReceived"
    /\ phase' = [phase EXCEPT ![i] = "Established"]
    /\ UNCHANGED <<used_timestamps, hsNet, hsSkew, hsNow, hsRestarts, dataSent>>

\* handle_data
HandleData(b) ==
    /\ phase[b] = "HelloReceived"
    /\ \E m \in hsNet : m.type = "Data" /\ (UseTimestamp(b, m) \/ ArrivesCut)
    /\ phase' = [phase EXCEPT ![b] = "Established"]
    /\ UNCHANGED <<hsNet, hsSkew, hsNow, hsRestarts, dataSent>>

\* A new object: after a restart, or for the next handshake.
HsRestart(x) ==
    /\ hsRestarts < MaxHsRestarts /\ phase[x] # "Init"
    /\ hsRestarts' = hsRestarts + 1
    /\ phase' = [phase EXCEPT ![x] = "Init"]
    /\ used_timestamps' = [used_timestamps EXCEPT ![x] = {}]
    /\ UNCHANGED <<hsNet, hsSkew, hsNow, dataSent>>

HsTick ==
    /\ hsNow < MaxHsTime
    /\ hsNow' = hsNow + 1
    /\ UNCHANGED <<phase, used_timestamps, hsNet, hsSkew, hsRestarts, dataSent>>

HsNext ==
    \/ \E i \in Initiators : StartHandshake(i) \/ HandleHelloAck(i) \/ CompleteHandshake(i)
    \/ \E b \in Responders : HandleHello(b) \/ HandleData(b)
    \/ \E x \in HsParties : HsRestart(x)
    \/ HsTick

\* A responder becomes Established only if some initiator had a HelloAck and sent Data,
\* and, unless what arrives is too short to hold a timestamp, so that none is used up,
\* sent it within REPLAY_WINDOW_SECS and what the clocks are apart: whatever was lost,
\* delayed or repeated and whoever restarted.  (It may be the Data of another handshake.)
EstablishedFresh ==
    [][\A b \in Responders : phase[b] # "Established" /\ phase'[b] = "Established" =>
          /\ dataSent >= 0
          /\ \/ used_timestamps'[b] = used_timestamps[b]
             \/ hsNow - dataSent <= REPLAY_WINDOW + MaxSkew]_hsVars
=============================================================================
