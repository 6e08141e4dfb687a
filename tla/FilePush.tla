------------------------------ MODULE FilePush ------------------------------
(***************************************************************************)
(* File push: cmd_push of crates/ctl/src/main.rs against the FilePush and   *)
(* FileChunk handlers of crates/daemon/src/main.rs, over UDP datagrams that *)
(* may be lost, delayed, reordered and duplicated, behind the daemon's      *)
(* per-address command quota (check_cmd).                                   *)
(*                                                                         *)
(* The file has N chunks; offsets are counted in chunks, so the FileAck for *)
(* chunk k carries k.  Time is counted in seconds and passes only while the *)
(* client waits for an acknowledgement in vain.                             *)
(***************************************************************************)
EXTENDS Integers, FiniteSets

CONSTANTS
    N,          \* the number of chunks of the file
    PushLimit,  \* CMD_RATE_LIMIT
    PushWindow, \* RATE_WINDOW_SECS
    IOErrors,   \* TRUE: opening or writing the file may fail
    Duplicable, \* the kinds of datagrams that the network may duplicate
    MaxPushLoss,\* bound: datagrams lost
    MaxDup      \* bound: datagrams duplicated

ASSUME NAssumption == N \in Nat
ASSUME QuotaAssumption == PushLimit \in Nat /\ PushWindow \in Nat
ASSUME PushBoundAssumption == MaxPushLoss \in Nat /\ MaxDup \in Nat
ASSUME PushKindAssumption == Duplicable \subseteq {"push", "chunk", "ack"}

\* "up to 3 retries": a chunk is sent at most four times.
MaxRetry == 3

Push == <<"push", 0>>
Chunk(k) == <<"chunk", k>>
Ack(k) == <<"ack", k>>

Commands == {Push} \cup {Chunk(k) : k \in 1..N}
Acks == {Ack(k) : k \in 0..N}
Datagram == Commands \cup Acks

VARIABLES
    pc,        \* where cmd_push is
    offset,    \* chunks acknowledged so far
    retry,     \* retries of the current chunk
    pushNow,   \* seconds since the push began
    entry,     \* TRUE: FILE_TRANSFERS has an entry for the transfer
    written,   \* the chunks that the remote file holds
    cmd_count, \* the client's entry in cmd_counts: commands in the window ...
    win_start, \* ... and when the window began
    net,       \* how many copies of each datagram are in flight
    pushLost,  \* how many copies of each datagram were lost
    dups,      \* datagrams duplicated so far
    truncated, \* history: the chunks that a FilePush erased again
    trouble    \* {"io", "quota"}: an error or the quota made the daemon silent;
               \* "early": a wait ran out with datagrams still in flight

pushClientVars == <<pc, offset, retry, pushNow>>
pushDaemonVars == <<entry, written, truncated, cmd_count, win_start, trouble>>
pushVars == <<pushClientVars, pushDaemonVars, net, pushLost, dups>>

PushInit ==
    /\ pc = "start"
    /\ offset = 0 /\ retry = 0 /\ pushNow = 0
    /\ entry = FALSE /\ written = {} /\ truncated = {}
    /\ cmd_count = 0 /\ win_start = 0
    /\ net = [m \in Datagram |-> 0]
    /\ pushLost = [m \in Datagram |-> 0]
    /\ dups = 0
    /\ trouble = {}

Put(m) == [net EXCEPT ![m] = @ + 1]
Take(m) == [net EXCEPT ![m] = @ - 1]

-----------------------------------------------------------------------------
(* The client.                                                              *)

\* FilePush is sent once; its acknowledgement is not waited for.
SendPush ==
    /\ pc = "start"
    /\ net' = Put(Push)
    /\ pc' = IF N = 0 THEN "done" ELSE "send"
    /\ UNCHANGED <<offset, retry, pushNow, pushDaemonVars, pushLost, dups>>

SendChunk ==
    /\ pc = "send"
    /\ net' = Put(Chunk(offset + 1))
    /\ pc' = "wait"
    /\ UNCHANGED <<offset, retry, pushNow, pushDaemonVars, pushLost, dups>>

\* Mutant of Accepts: any acknowledgement of the transfer is accepted.
AcceptsAny(k) == TRUE

\* An acknowledgement up to the end of the current chunk, or beyond.
Accepts(k) == k >= offset + 1

RecvAck(k) ==
    /\ pc = "wait"
    /\ net[Ack(k)] > 0
    /\ net' = Take(Ack(k))
    /\ IF Accepts(k)
       THEN /\ offset' = offset + 1
            /\ retry' = 0
            /\ pc' = IF offset + 1 = N THEN "done" ELSE "send"
       ELSE UNCHANGED <<offset, retry, pc>>
    /\ UNCHANGED <<pushNow, pushDaemonVars, pushLost, dups>>

InFlight == \E m \in Datagram : net[m] > 0

\* Whether the network was slower than a wait.
NoteEarly == trouble' = IF InFlight THEN trouble \cup {"early"} ELSE trouble

\* Mutant of Timeout: gives up after the first retry.
TimeoutEager ==
    /\ pc = "wait"
    /\ NoteEarly
    /\ pushNow' = pushNow + 1 + 2 * retry
    /\ pc' = IF retry = 1 THEN "failed" ELSE "send"
    /\ retry' = 1
    /\ UNCHANGED <<offset, entry, written, truncated, cmd_count, win_start, net, pushLost, dups>>

\* Mutant of Timeout: the last wait has no end.
TimeoutStuck ==
    /\ pc = "wait" /\ retry < MaxRetry
    /\ NoteEarly
    /\ pushNow' = pushNow + 1 + 2 * retry
    /\ pc' = "send" /\ retry' = retry + 1
    /\ UNCHANGED <<offset, entry, written, truncated, cmd_count, win_start, net, pushLost, dups>>

\* The wait for the acknowledgement runs out after 1, 3, 5 or 7 seconds.
Timeout ==
    /\ pc = "wait"
    /\ NoteEarly
    /\ pushNow' = pushNow + 1 + 2 * retry
    /\ IF retry = MaxRetry
       THEN pc' = "failed" /\ UNCHANGED retry
       ELSE pc' = "send" /\ retry' = retry + 1
    /\ UNCHANGED <<offset, entry, written, truncated, cmd_count, win_start, net, pushLost, dups>>

-----------------------------------------------------------------------------
(* The daemon: check_cmd, then the handler of the command.                  *)

WindowOver == pushNow - win_start > PushWindow
CountNow == IF WindowOver THEN 1 ELSE cmd_count + 1

\* check_cmd counts the command and says whether it may be handled.
Allowed == WindowOver \/ CountNow <= PushLimit

CheckCmd ==
    /\ cmd_count' = CountNow
    /\ win_start' = IF WindowOver THEN pushNow ELSE win_start

\* Over the quota: the command is dropped without an answer.
Throttle(m) ==
    /\ net[m] > 0
    /\ ~ Allowed
    /\ CheckCmd
    /\ net' = Take(m)
    /\ trouble' = trouble \cup {"quota"}
    /\ UNCHANGED <<pushClientVars, entry, written, truncated, pushLost, dups>>

\* Opening or writing the file fails: no answer.
FailIO(m) ==
    /\ IOErrors
    /\ net[m] > 0
    /\ m = Push \/ entry
    /\ Allowed
    /\ CheckCmd
    /\ net' = Take(m)
    /\ trouble' = trouble \cup {"io"}
    /\ UNCHANGED <<pushClientVars, entry, written, truncated, pushLost, dups>>

\* The file is created or truncated and the transfer registered.
HandleFilePush ==
    /\ net[Push] > 0
    /\ Allowed
    /\ CheckCmd
    /\ entry' = TRUE
    /\ written' = {}
    /\ truncated' = truncated \cup written
    /\ net' = [net EXCEPT ![Push] = @ - 1, ![Ack(0)] = @ + 1]
    /\ UNCHANGED <<pushClientVars, trouble, pushLost, dups>>

\* The entry is removed with the chunk that reaches the announced size.
EntryAfter(k) == k < N

HandleFileChunk(k) ==
    /\ net[Chunk(k)] > 0
    /\ entry
    /\ Allowed
    /\ CheckCmd
    /\ written' = written \cup {k}
    /\ entry' = EntryAfter(k)
    /\ net' = [net EXCEPT ![Chunk(k)] = @ - 1, ![Ack(k)] = @ + 1]
    /\ UNCHANGED <<pushClientVars, truncated, trouble, pushLost, dups>>

\* No active transfer: a warning, no answer.
IgnoreFileChunk(k) ==
    /\ net[Chunk(k)] > 0
    /\ ~ entry
    /\ Allowed
    /\ CheckCmd
    /\ net' = Take(Chunk(k))
    /\ UNCHANGED <<pushClientVars, entry, written, truncated, trouble, pushLost, dups>>

-----------------------------------------------------------------------------
(* The network.                                                             *)

\* How many datagrams were lost.
Losses == Cardinality({p \in Datagram \X (1..MaxPushLoss) : p[2] <= pushLost[p[1]]})

LoseDatagram(m) ==
    /\ net[m] > 0
    /\ Losses < MaxPushLoss
    /\ net' = Take(m)
    /\ pushLost' = [pushLost EXCEPT ![m] = @ + 1]
    /\ UNCHANGED <<pushClientVars, pushDaemonVars, dups>>

Duplicate(m) ==
    /\ net[m] > 0
    /\ m[1] \in Duplicable
    /\ dups < MaxDup
    /\ net' = Put(m)
    /\ dups' = dups + 1
    /\ UNCHANGED <<pushClientVars, pushDaemonVars, pushLost>>

PushClient == SendPush \/ SendChunk \/ (\E k \in 0..N : RecvAck(k)) \/ Timeout

PushDaemon ==
    \/ HandleFilePush
    \/ \E k \in 1..N : HandleFileChunk(k) \/ IgnoreFileChunk(k)
    \/ \E m \in Commands : Throttle(m) \/ FailIO(m)

PushNetwork == \E m \in Datagram : LoseDatagram(m) \/ Duplicate(m)

PushNext == PushClient \/ PushDaemon \/ PushNetwork

PushSpec == PushInit /\ [][PushNext]_pushVars

\* The client's loop and the daemon's receive loop keep running.
FairPushSpec == PushSpec /\ WF_pushVars(PushClient) /\ WF_pushVars(PushDaemon)

-----------------------------------------------------------------------------
(* Properties.                                                              *)

PushTypeOK ==
    /\ pc \in {"start", "send", "wait", "done", "failed"}
    /\ offset \in 0..N
    /\ retry \in 0..MaxRetry
    /\ pushNow \in Nat
    /\ entry \in BOOLEAN
    /\ written \subseteq 1..N /\ truncated \subseteq 1..N
    /\ cmd_count \in Nat
    /\ win_start \in Nat
    /\ net \in [Datagram -> Nat]
    /\ pushLost \in [Datagram -> Nat]
    /\ dups \in 0..MaxDup
    /\ trouble \subseteq {"io", "quota", "early"}

\* A push that reports success has written the whole file: no retry, late
\* acknowledgement or duplicate makes the client count a chunk that the daemon did
\* not write.  What is missing from the file then was erased by a second copy of
\* FilePush, which the daemon takes for a new transfer: unless the network can
\* duplicate that, the file is whole.
DoneMeansComplete ==
    pc = "done" => /\ written \cup truncated = 1..N
                   /\ "push" \notin Duplicable => written = 1..N

\* A push fails only if FilePush was lost, the acknowledgement of the last
\* chunk was lost, every retry of a chunk lost a datagram (the first round may
\* be spent because the chunk overtook FilePush), the daemon's file system or
\* quota kept it silent, or the network was slower than a wait.
FailureJustified ==
    pc = "failed" =>
        \/ pushLost[Push] > 0
        \/ pushLost[Ack(N)] > 0
        \/ pushLost[Chunk(offset + 1)] + pushLost[Ack(offset + 1)] >= MaxRetry
        \/ trouble # {}

\* The client's loop ends: a push that was begun succeeds or fails.
PushEnds == pc \in {"send", "wait"} ~> pc \in {"done", "failed"}
=============================================================================
