--------------------------- MODULE FilePushProofs ---------------------------
(***************************************************************************)
(* Proofs about FilePush, for every number of chunks, every quota and every *)
(* number of lost, duplicated and reordered datagrams.                      *)
(***************************************************************************)
EXTENDS FilePush, TLAPS

\* The chunks that the daemon ever wrote.
Stored == written \cup truncated

\* What each datagram in flight says of the file and of the client.
NetInv ==
    /\ \A k \in 1..N : net[Chunk(k)] > 0 => k <= offset + 1
    /\ \A k \in 1..N : net[Ack(k)] > 0 => k \in Stored

\* Without duplicates FilePush comes first, and once.
OnceInv ==
    "push" \notin Duplicable =>
        /\ net[Push] <= 1
        /\ net[Push] = 1 => ~ entry /\ written = {}
        /\ truncated = {}

\* The acknowledged chunks were written, and at most the next one.
FileInv ==
    /\ 1..offset \subseteq Stored
    /\ Stored \subseteq 1..(offset + 1)

ClientInv ==
    /\ pc = "start" => /\ offset = 0 /\ written = {} /\ ~ entry
                       /\ net[Push] = 0
    /\ pc \in {"send", "wait"} => offset < N
    /\ pc = "done" => offset = N

PushInv == PushTypeOK /\ NetInv /\ OnceInv /\ FileInv /\ ClientInv

-----------------------------------------------------------------------------
\* The datagrams are pairwise different.
LEMMA Datagrams ==
    /\ Push \in Datagram
    /\ \A k \in 1..N : Chunk(k) \in Datagram /\ Chunk(k) # Push
    /\ \A k \in 0..N : Ack(k) \in Datagram /\ Ack(k) # Push
    /\ \A j \in 1..N, k \in 0..N : Chunk(j) # Ack(k)
    /\ \A j, k \in 1..N : Chunk(j) = Chunk(k) => j = k
    /\ \A j, k \in 0..N : Ack(j) = Ack(k) => j = k
BY DEF Datagram, Commands, Acks, Push, Chunk, Ack

\* Taking a datagram out of the network keeps what is said of the others.
LEMMA TakeKeeps ==
    ASSUME PushTypeOK, NEW m \in Datagram, net[m] > 0, net' = Take(m)
    PROVE  /\ net' \in [Datagram -> Nat]
           /\ \A d \in Datagram : net'[d] <= net[d]
           /\ net'[m] = net[m] - 1
BY DEF PushTypeOK, Take

-----------------------------------------------------------------------------
\* A step of the client keeps the invariant.
LEMMA ClientStep ==
    ASSUME PushInv, PushClient
    PROVE  PushInv'
<1> USE NAssumption
<1>1. CASE SendPush
  <2>1. /\ net' = [net EXCEPT ![Push] = net[Push] + 1]
        /\ pc = "start" /\ pc' = IF N = 0 THEN "done" ELSE "send"
        /\ UNCHANGED <<offset, retry, pushNow, entry, written, truncated, cmd_count, win_start,
                       trouble, pushLost, dups>>
    BY <1>1 DEF SendPush, Put, pushDaemonVars
  <2>2. /\ net'[Push] = net[Push] + 1
        /\ \A d \in Datagram \ {Push} : net'[d] = net[d]
        /\ net' \in [Datagram -> Nat]
    BY <2>1, Datagrams DEF PushInv, PushTypeOK
  <2>3. PushTypeOK'
    BY <2>1, <2>2 DEF PushInv, PushTypeOK
  <2>4. NetInv' /\ OnceInv'
    BY <2>1, <2>2, Datagrams DEF PushInv, NetInv, OnceInv, Stored, ClientInv, PushTypeOK
  <2>5. QED
    BY <2>1, <2>3, <2>4 DEF PushInv, FileInv, Stored, ClientInv, PushTypeOK
<1>2. CASE SendChunk
  <2>1. /\ net' = [net EXCEPT ![Chunk(offset + 1)] = net[Chunk(offset + 1)] + 1]
        /\ pc = "send" /\ pc' = "wait"
        /\ UNCHANGED <<offset, retry, pushNow, entry, written, truncated, cmd_count, win_start,
                       trouble, pushLost, dups>>
    BY <1>2 DEF SendChunk, Put, pushDaemonVars
  <2>2. offset + 1 \in 1..N
    BY <2>1 DEF PushInv, PushTypeOK, ClientInv
  <2>3. /\ net' \in [Datagram -> Nat]
        /\ \A d \in Datagram \ {Chunk(offset + 1)} : net'[d] = net[d]
    BY <2>1, <2>2, Datagrams DEF PushInv, PushTypeOK
  <2>4. PushTypeOK'
    BY <2>1, <2>3 DEF PushInv, PushTypeOK
  <2>5. NetInv' /\ OnceInv'
    <3>1. net'[Push] = net[Push] /\ \A k \in 1..N : net'[Ack(k)] = net[Ack(k)]
      BY <2>2, <2>3, Datagrams
    <3>2. \A k \in 1..N : k # offset + 1 => net'[Chunk(k)] = net[Chunk(k)]
      BY <2>2, <2>3, Datagrams
    <3>3. QED
      BY <2>1, <3>1, <3>2 DEF PushInv, NetInv, OnceInv, Stored, PushTypeOK
  <2>6. QED
    BY <2>1, <2>4, <2>5 DEF PushInv, FileInv, Stored, ClientInv
<1>3. CASE \E k \in 0..N : RecvAck(k)
  <2>1. PICK k \in 0..N : RecvAck(k)
    BY <1>3
  <2>2. /\ net' = Take(Ack(k)) /\ net[Ack(k)] > 0 /\ pc = "wait"
        /\ UNCHANGED <<pushNow, entry, written, truncated, cmd_count, win_start, trouble, pushLost, dups>>
    BY <2>1 DEF RecvAck, pushDaemonVars
  <2>3. /\ net' \in [Datagram -> Nat]
        /\ \A d \in Datagram : net'[d] <= net[d]
        /\ net'[Push] = net[Push]
    BY <2>2, TakeKeeps, Datagrams DEF PushInv, PushTypeOK, Take
  <2>4. offset < N
    BY <2>2 DEF PushInv, ClientInv
  <2>5. CASE Accepts(k)
    <3>1. /\ offset' = offset + 1 /\ retry' = 0
          /\ pc' = IF offset + 1 = N THEN "done" ELSE "send"
      BY <2>1, <2>5 DEF RecvAck
    <3>2. k \in Stored /\ k = offset + 1
      BY <2>2, <2>5 DEF PushInv, PushTypeOK, NetInv, OnceInv, Stored, FileInv, Accepts
    <3>3. PushTypeOK'
      BY <2>2, <2>3, <2>4, <3>1 DEF PushInv, PushTypeOK, MaxRetry
    <3>4. NetInv' /\ OnceInv'
      BY <2>2, <2>3, <3>1, Datagrams DEF PushInv, NetInv, OnceInv, Stored, PushTypeOK
    <3>5. FileInv'
      BY <2>2, <3>1, <3>2 DEF PushInv, FileInv, Stored, PushTypeOK
    <3>6. ClientInv'
      BY <2>4, <3>1 DEF PushInv, ClientInv, PushTypeOK
    <3>7. QED
      BY <3>3, <3>4, <3>5, <3>6 DEF PushInv
  <2>6. CASE ~ Accepts(k)
    <3>1. UNCHANGED <<offset, retry, pc>>
      BY <2>1, <2>6 DEF RecvAck
    <3>2. NetInv' /\ OnceInv'
      BY <2>2, <2>3, <3>1, Datagrams DEF PushInv, NetInv, OnceInv, Stored, PushTypeOK
    <3>3. QED
      BY <2>2, <2>3, <3>1, <3>2 DEF PushInv, PushTypeOK, FileInv, Stored, ClientInv
  <2>7. QED
    BY <2>5, <2>6
<1>4. CASE Timeout
  <2>1. /\ UNCHANGED <<offset, entry, written, truncated, cmd_count, win_start, net, pushLost,
                       dups>>
        /\ trouble' \in {trouble, trouble \cup {"early"}}
        /\ pc = "wait" /\ pushNow' = pushNow + 1 + 2 * retry
        /\ \/ pc' = "failed" /\ retry' = retry
           \/ pc' = "send" /\ retry # MaxRetry /\ retry' = retry + 1
    BY <1>4 DEF Timeout, NoteEarly
  <2>2. PushTypeOK'
    BY <2>1 DEF PushInv, PushTypeOK, MaxRetry
  <2>3. QED
    BY <2>1, <2>2 DEF PushInv, NetInv, OnceInv, Stored, FileInv, ClientInv
<1>5. QED
  BY <1>1, <1>2, <1>3, <1>4 DEF PushClient

\* A step of the daemon keeps the invariant.
LEMMA DaemonStep ==
    ASSUME PushInv, PushDaemon
    PROVE  PushInv'
<1> USE NAssumption
<1>1. ASSUME NEW m \in Datagram, net[m] > 0, net' = Take(m), CheckCmd,
             trouble' \in SUBSET {"io", "quota", "early"},
             UNCHANGED <<pc, offset, retry, pushNow, entry, written, truncated, pushLost, dups>>
      PROVE  PushInv'
  <2>1. /\ net' \in [Datagram -> Nat]
        /\ \A d \in Datagram : net'[d] <= net[d]
    BY <1>1, TakeKeeps DEF PushInv
  <2>2. cmd_count' \in Nat /\ win_start' \in Nat
    BY <1>1 DEF CheckCmd, CountNow, PushInv, PushTypeOK
  <2>3. PushTypeOK'
    BY <1>1, <2>1, <2>2 DEF PushInv, PushTypeOK
  <2>4. net'[Push] \in Nat /\ net'[Push] <= net[Push] /\ net[Push] \in Nat
    BY <2>1, Datagrams DEF PushInv, PushTypeOK
  <2>5. NetInv' /\ OnceInv'
    BY <1>1, <2>1, <2>4, Datagrams DEF PushInv, NetInv, OnceInv, Stored, PushTypeOK
  <2>6. QED
    BY <1>1, <2>3, <2>4, <2>5 DEF PushInv, FileInv, Stored, ClientInv
<1>2. CASE HandleFilePush
  <2>1. /\ net[Push] > 0 /\ CheckCmd /\ entry' = TRUE /\ written' = {} /\ truncated' = truncated \cup written
        /\ net' = [net EXCEPT ![Push] = net[Push] - 1, ![Ack(0)] = net[Ack(0)] + 1]
        /\ UNCHANGED <<pc, offset, retry, pushNow, trouble, pushLost, dups>>
    BY <1>2, Datagrams DEF HandleFilePush, pushClientVars, PushInv, PushTypeOK
  <2>2. Stored' = Stored /\ pc # "start"
    BY <2>1, Datagrams DEF Stored, PushInv, ClientInv, PushTypeOK
  <2>3. /\ net' \in [Datagram -> Nat] /\ net'[Push] = net[Push] - 1 /\ net[Push] \in Nat
        /\ \A k \in 1..N : net'[Chunk(k)] = net[Chunk(k)] /\ net'[Ack(k)] = net[Ack(k)]
    <3>1. /\ Push \in Datagram /\ Ack(0) \in Datagram /\ Ack(0) # Push
          /\ net \in [Datagram -> Nat]
      BY Datagrams DEF PushInv, PushTypeOK
    <3>2. /\ net' \in [Datagram -> Nat] /\ net'[Push] = net[Push] - 1 /\ net[Push] \in Nat
          /\ \A d \in Datagram : d # Push /\ d # Ack(0) => net'[d] = net[d]
      BY <2>1, <3>1
    <3> QED
      BY <3>2, Datagrams
  <2>4. cmd_count' \in Nat /\ win_start' \in Nat
    BY <2>1 DEF CheckCmd, CountNow, PushInv, PushTypeOK
  <2>5. PushTypeOK'
    BY <2>1, <2>3, <2>4 DEF PushInv, PushTypeOK
  <2>6. NetInv' /\ OnceInv'
    <3>1. NetInv'
      BY <2>1, <2>2, <2>3 DEF PushInv, NetInv
    <3>2. "push" \notin Duplicable => net'[Push] = 0 /\ truncated' = {}
      BY <2>1, <2>3 DEF PushInv, OnceInv
    <3> QED
      BY <3>1, <3>2 DEF OnceInv
  <2>7. FileInv' /\ ClientInv'
    BY <2>1, <2>2 DEF PushInv, FileInv, ClientInv
  <2>8. QED
    BY <2>5, <2>6, <2>7 DEF PushInv
<1>3. CASE \E k \in 1..N : HandleFileChunk(k)
  <2>1. PICK k \in 1..N : HandleFileChunk(k)
    BY <1>3
  <2>2. /\ net[Chunk(k)] > 0 /\ CheckCmd /\ entry
        /\ written' = written \cup {k} /\ truncated' = truncated
        /\ net' = [net EXCEPT ![Chunk(k)] = net[Chunk(k)] - 1, ![Ack(k)] = net[Ack(k)] + 1]
        /\ UNCHANGED <<pc, offset, retry, pushNow, trouble, pushLost, dups>>
    BY <2>1, Datagrams DEF HandleFileChunk, pushClientVars, PushInv, PushTypeOK
  <2>3. entry' \in BOOLEAN
    <3>1. entry' = (k < N) /\ (k < N) \in BOOLEAN
      BY <2>1 DEF HandleFileChunk, EntryAfter
    <3>2. QED
      BY <3>1, Zenon
  <2>4. /\ net' \in [Datagram -> Nat] /\ net'[Push] = net[Push]
        /\ \A j \in 1..N : net'[Chunk(j)] <= net[Chunk(j)]
        /\ \A j \in 1..N : j # k => net'[Ack(j)] = net[Ack(j)]
    <3>1. /\ Chunk(k) \in Datagram /\ Ack(k) \in Datagram /\ Push \in Datagram
          /\ Chunk(k) # Ack(k) /\ Chunk(k) # Push /\ Ack(k) # Push
      BY Datagrams
    <3>2. /\ net' \in [Datagram -> Nat] /\ net'[Push] = net[Push]
          /\ \A d \in Datagram : d # Ack(k) => net'[d] <= net[d]
          /\ \A d \in Datagram : d # Ack(k) /\ d # Chunk(k) => net'[d] = net[d]
      BY <2>2, <3>1 DEF PushInv, PushTypeOK
    <3>3. QED
      BY <3>2, Datagrams
  <2>5. cmd_count' \in Nat /\ win_start' \in Nat
    BY <2>2 DEF CheckCmd, CountNow, PushInv, PushTypeOK
  <2>6. k <= offset + 1 /\ pc # "start" /\ Stored' = Stored \cup {k}
    BY <2>2 DEF PushInv, NetInv, ClientInv, Stored
  <2>7. PushTypeOK'
    BY <2>2, <2>3, <2>4, <2>5 DEF PushInv, PushTypeOK
  <2>8. NetInv'
    BY <2>2, <2>4, <2>6, Datagrams DEF PushInv, NetInv, PushTypeOK
  <2>9. OnceInv'
    BY <2>2, <2>4 DEF PushInv, OnceInv
  <2>10. FileInv'
    BY <2>2, <2>6 DEF PushInv, FileInv, PushTypeOK
  <2>11. QED
    BY <2>2, <2>6, <2>7, <2>8, <2>9, <2>10 DEF PushInv, ClientInv
<1>4. CASE \E k \in 1..N : IgnoreFileChunk(k)
  <2>1. PICK k \in 1..N : IgnoreFileChunk(k)
    BY <1>4
  <2>2. Chunk(k) \in Datagram
    BY Datagrams
  <2>3. trouble' \in SUBSET {"io", "quota", "early"}
    BY <2>1 DEF IgnoreFileChunk, PushInv, PushTypeOK
  <2>4. QED
    BY <1>1, <2>1, <2>2, <2>3 DEF IgnoreFileChunk, pushClientVars
<1>5. CASE \E m \in Commands : Throttle(m) \/ FailIO(m)
  <2>1. PICK m \in Commands : Throttle(m) \/ FailIO(m)
    BY <1>5
  <2>2. m \in Datagram
    BY DEF Datagram
  <2>3. trouble' \in SUBSET {"io", "quota", "early"}
    BY <2>1 DEF Throttle, FailIO, PushInv, PushTypeOK
  <2>4. QED
    BY <1>1, <2>1, <2>2, <2>3 DEF Throttle, FailIO, pushClientVars
<1>6. QED
  BY <1>2, <1>3, <1>4, <1>5 DEF PushDaemon

\* Losing and duplicating datagrams keeps the invariant.
LEMMA NetworkStep ==
    ASSUME PushInv, PushNetwork
    PROVE  PushInv'
<1> USE NAssumption, PushBoundAssumption
<1>1. PICK m \in Datagram : LoseDatagram(m) \/ Duplicate(m)
  BY DEF PushNetwork
<1>2. CASE LoseDatagram(m)
  <2>1. /\ net' \in [Datagram -> Nat]
        /\ \A d \in Datagram : net'[d] <= net[d]
    BY <1>2, TakeKeeps DEF PushInv, LoseDatagram
  <2>2. net'[Push] \in Nat /\ net'[Push] <= net[Push] /\ net[Push] \in Nat
    BY <2>1, Datagrams DEF PushInv, PushTypeOK
  <2>3. /\ pushLost' \in [Datagram -> Nat]
        /\ UNCHANGED <<pc, offset, retry, pushNow, entry, written, truncated, cmd_count,
                       win_start, trouble, dups>>
    BY <1>2 DEF LoseDatagram, pushClientVars, pushDaemonVars, PushInv, PushTypeOK
  <2>4. PushTypeOK'
    BY <2>1, <2>3 DEF PushInv, PushTypeOK
  <2>5. NetInv' /\ OnceInv'
    BY <2>1, <2>2, <2>3, Datagrams DEF PushInv, NetInv, OnceInv, Stored, PushTypeOK
  <2>6. QED
    BY <2>2, <2>3, <2>4, <2>5 DEF PushInv, FileInv, Stored, ClientInv
<1>3. CASE Duplicate(m)
  <2>1. m = Push => "push" \in Duplicable
    BY <1>3 DEF Duplicate, Push
  <2>2. /\ net[m] > 0
        /\ net' = [net EXCEPT ![m] = net[m] + 1]
        /\ dups < MaxDup /\ dups' = dups + 1
        /\ UNCHANGED <<pc, offset, retry, pushNow, entry, written, truncated, cmd_count,
                       win_start, trouble, pushLost>>
    BY <1>3 DEF Duplicate, Put, pushClientVars, pushDaemonVars
  <2>3. /\ net' \in [Datagram -> Nat]
        /\ \A d \in Datagram : net'[d] > 0 => net[d] > 0
        /\ m # Push => net'[Push] = net[Push]
        /\ pc # "start" \/ m # Push
    BY <2>1, <2>2, Datagrams DEF PushInv, PushTypeOK, ClientInv
  <2>4. PushTypeOK'
    BY <2>2, <2>3 DEF PushInv, PushTypeOK
  <2>5. NetInv' /\ OnceInv'
    <3>1. NetInv'
      BY <2>2, <2>3, Datagrams DEF PushInv, NetInv, Stored, PushTypeOK
    <3>2. OnceInv'
      BY <2>1, <2>2, <2>3 DEF PushInv, OnceInv
    <3> QED
      BY <3>1, <3>2
  <2>6. QED
    BY <2>2, <2>3, <2>4, <2>5 DEF PushInv, FileInv, Stored, ClientInv
<1>4. QED
  BY <1>1, <1>2, <1>3

-----------------------------------------------------------------------------
\* Whatever is lost, delayed, reordered and duplicated, and however long the file is, a
\* push reports success only when the daemon has written every chunk; and then the file
\* is whole if FilePush cannot be duplicated (cmd_push, the FilePush and FileChunk handlers).
THEOREM PushComplete == PushSpec => [](PushTypeOK /\ DoneMeansComplete)
<1>1. PushInit => PushInv
  <2>1. SUFFICES ASSUME PushInit PROVE PushInv
    OBVIOUS
  <2>2. PushTypeOK
    <3>1. entry \in BOOLEAN
      BY <2>1, Zenon DEF PushInit
    <3>2. /\ net \in [Datagram -> Nat] /\ pushLost \in [Datagram -> Nat]
          /\ offset \in 0..N /\ retry \in 0..MaxRetry /\ dups \in 0..MaxDup
          /\ pushNow \in Nat /\ cmd_count \in Nat /\ win_start \in Nat
      BY <2>1, NAssumption, PushBoundAssumption DEF PushInit, MaxRetry
    <3>3. QED
      BY <2>1, <3>1, <3>2 DEF PushInit, PushTypeOK
  <2>3. \A m \in Datagram : net[m] = 0
    BY <2>1 DEF PushInit
  <2>4. NetInv /\ OnceInv
    BY <2>1, <2>3, Datagrams DEF PushInit, NetInv, OnceInv
  <2>5. FileInv
    BY <2>1, NAssumption DEF PushInit, FileInv, Stored
  <2>6. ClientInv
    BY <2>1, <2>3, Datagrams DEF PushInit, ClientInv
  <2>7. QED
    BY <2>2, <2>4, <2>5, <2>6 DEF PushInv
<1>2. PushInv /\ [PushNext]_pushVars => PushInv'
  <2>1. CASE PushInv /\ UNCHANGED pushVars
    BY <2>1 DEF PushInv, PushTypeOK, NetInv, OnceInv, Stored, FileInv, ClientInv, pushVars, pushClientVars,
                pushDaemonVars
  <2>2. QED
    BY <2>1, ClientStep, DaemonStep, NetworkStep DEF PushNext
<1>3. PushInv => PushTypeOK /\ DoneMeansComplete
  <2>1. SUFFICES ASSUME PushInv, pc = "done"
                 PROVE  Stored = 1..N /\ ("push" \notin Duplicable => written = 1..N)
    BY DEF PushInv, DoneMeansComplete, Stored
  <2>2. offset = N
    BY <2>1 DEF PushInv, ClientInv
  <2>3. Stored = 1..N
    BY <2>1, <2>2, NAssumption DEF PushInv, FileInv, PushTypeOK, Stored
  <2>4. QED
    BY <2>1, <2>3 DEF PushInv, OnceInv, Stored
<1>4. QED
  BY <1>1, <1>2, <1>3, PTL DEF PushSpec

-----------------------------------------------------------------------------
(* Why a push fails.                                                        *)

\* What excuses a failure whatever became of the chunks.
Excused == pushLost[Push] > 0 \/ pushLost[Ack(N)] > 0 \/ trouble # {}

\* The chunk that the client is at, and what was lost of its round trips.
Current == offset + 1
LostTrips == pushLost[Chunk(Current)] + pushLost[Ack(Current)]
Trips == net[Chunk(Current)] + net[Ack(Current)]

FailType ==
    /\ net \in [Datagram -> Nat] /\ pushLost \in [Datagram -> Nat]
    /\ offset \in 0..N /\ retry \in 0..MaxRetry
    /\ pc \in {"start", "send", "wait", "done", "failed"}
    /\ pc \in {"send", "wait", "failed"} => offset < N

\* No datagram is ahead of the client.
NoneAhead ==
    /\ \A k \in 1..N : net[Chunk(k)] > 0 \/ net[Ack(k)] > 0 => k <= Current
    /\ pc = "start" => offset = 0 /\ retry = 0 /\ \A m \in Datagram : net[m] = 0

\* The daemon has the transfer, or will have it, or is through with it and has
\* said so.
Registered ==
    ~ Excused /\ pc \in {"send", "wait"} => net[Push] > 0 \/ entry \/ net[Ack(N)] > 0

\* A wait that ran out found nothing in flight, so each round from the second on
\* has lost a datagram.
RoundsLost ==
    /\ ~ Excused /\ pc = "send" /\ retry >= 1 =>
         (\A m \in Datagram : net[m] = 0) /\ LostTrips >= retry - 1
    /\ ~ Excused /\ pc = "wait" /\ retry >= 1 =>
         net[Ack(N)] > 0 \/ (entry /\ Trips + LostTrips >= retry)
    /\ ~ Excused /\ pc = "failed" => LostTrips >= MaxRetry

FailInv == FailType /\ NoneAhead /\ Registered /\ RoundsLost

\* The datagrams of the current chunk, while there is one.
LEMMA CurrentDatagrams ==
    ASSUME FailType, pc \in {"send", "wait", "failed"}
    PROVE  /\ Current \in 1..N /\ N \in 1..N /\ Current \in 0..N
           /\ Chunk(Current) \in Datagram /\ Ack(Current) \in Datagram
           /\ Chunk(Current) # Ack(Current) /\ Chunk(Current) # Push /\ Ack(Current) # Push
           /\ net[Chunk(Current)] \in Nat /\ net[Ack(Current)] \in Nat
           /\ pushLost[Chunk(Current)] \in Nat /\ pushLost[Ack(Current)] \in Nat
  <1>1. Current \in 1..N /\ N \in 1..N /\ Current \in 0..N
    BY NAssumption DEF FailType, Current
  <1>2. /\ Chunk(Current) \in Datagram /\ Ack(Current) \in Datagram
        /\ Chunk(Current) # Ack(Current) /\ Chunk(Current) # Push /\ Ack(Current) # Push
    BY <1>1, Datagrams
  <1> QED
    BY <1>1, <1>2 DEF FailType

\* The client.
LEMMA ClientFailStep ==
    ASSUME FailInv, PushClient
    PROVE  FailInv'
  <1>1. FailType /\ NoneAhead /\ N \in Nat /\ Push \in Datagram /\ Ack(N) \in Datagram
    BY Datagrams, NAssumption DEF FailInv
  <1>2. CASE SendPush
    <2>1. /\ net' = [net EXCEPT ![Push] = net[Push] + 1] /\ pc = "start"
          /\ pc' = IF N = 0 THEN "done" ELSE "send"
          /\ UNCHANGED <<offset, retry, entry, pushLost, trouble>>
      BY <1>2 DEF SendPush, Put, pushDaemonVars
    <2>2. /\ net' \in [Datagram -> Nat] /\ net'[Push] > 0
          /\ \A m \in Datagram : m # Push => net'[m] = 0
      BY <1>1, <2>1 DEF FailType, NoneAhead
    <2>3. FailType'
      BY <1>1, <2>1, <2>2 DEF FailType, NoneAhead
    <2>4. NoneAhead'
      BY <1>1, <2>1, <2>2, Datagrams DEF NoneAhead, Current
    <2>5. Registered' /\ RoundsLost'
      BY <1>1, <2>1, <2>2 DEF NoneAhead, Registered, RoundsLost
    <2> QED
      BY <2>3, <2>4, <2>5 DEF FailInv
  <1>3. CASE SendChunk
    <2>1. /\ pc = "send" /\ pc' = "wait" /\ net' = [net EXCEPT ![Chunk(Current)] = net[Chunk(Current)] + 1]
          /\ UNCHANGED <<offset, retry, entry, pushLost, trouble>>
      BY <1>3 DEF SendChunk, Put, Current, pushDaemonVars
    <2>2. /\ Current \in 1..N /\ N \in 1..N
          /\ Chunk(Current) \in Datagram /\ Ack(Current) \in Datagram
          /\ Chunk(Current) # Ack(Current) /\ Chunk(Current) # Push
          /\ pushLost[Chunk(Current)] \in Nat /\ pushLost[Ack(Current)] \in Nat
      BY <1>1, <2>1, CurrentDatagrams
    <2>3. /\ net' \in [Datagram -> Nat] /\ net'[Chunk(Current)] = net[Chunk(Current)] + 1
          /\ \A m \in Datagram : m # Chunk(Current) => net'[m] = net[m]
          /\ net[Chunk(Current)] \in Nat /\ net[Ack(Current)] \in Nat
      BY <1>1, <2>1, <2>2 DEF FailType
    <2>4. FailType'
      BY <1>1, <2>1, <2>3 DEF FailType
    <2>5. NoneAhead'
      <3>1. ASSUME NEW k \in 1..N, net'[Chunk(k)] > 0 \/ net'[Ack(k)] > 0
            PROVE  k <= Current
        <4>1. CASE k = Current
          BY <2>2, <4>1
        <4>2. CASE k # Current
          BY <1>1, <2>2, <2>3, <3>1, <4>2, Datagrams DEF NoneAhead
        <4> QED
          BY <4>1, <4>2
      <3> QED
        BY <2>1, <3>1 DEF NoneAhead, Current
    <2>6. Registered'
      <3>1. Chunk(Current) # Ack(N)
        BY <2>2, Datagrams
      <3> QED
        BY <1>1, <2>1, <2>2, <2>3, <3>1 DEF FailInv, Registered, Excused
    <2>7. RoundsLost'
      <3>1. SUFFICES ASSUME ~ Excused, retry >= 1
                     PROVE  entry /\ (Trips + LostTrips)' >= retry
        BY <2>1 DEF RoundsLost, Excused
      <3>2. (\A m \in Datagram : net[m] = 0) /\ LostTrips >= retry - 1
        BY <2>1, <3>1 DEF FailInv, RoundsLost
      <3>3. entry
        BY <1>1, <2>1, <3>1, <3>2 DEF FailInv, Registered
      <3>4. Trips' = 1 /\ LostTrips' = LostTrips /\ LostTrips \in Nat /\ retry \in Nat
        BY <1>1, <2>1, <2>2, <2>3, <3>2 DEF Trips, LostTrips, Current, FailType, MaxRetry
      <3> QED
        BY <3>2, <3>3, <3>4
    <2> QED
      BY <2>4, <2>5, <2>6, <2>7 DEF FailInv
  <1>4. ASSUME NEW k \in 0..N, RecvAck(k)
        PROVE  FailInv'
    <2>1. /\ pc = "wait" /\ net[Ack(k)] > 0 /\ net' = [net EXCEPT ![Ack(k)] = net[Ack(k)] - 1]
          /\ UNCHANGED <<entry, pushLost, trouble>>
      BY <1>4 DEF RecvAck, Take, pushDaemonVars
    <2>2. /\ Current \in 1..N /\ N \in 1..N /\ offset \in 0..N /\ offset \in Nat /\ k \in Nat
          /\ Ack(k) \in Datagram /\ Chunk(Current) \in Datagram /\ Ack(Current) \in Datagram
      BY <1>1, <2>1, CurrentDatagrams, Datagrams DEF FailType
    <2>3. /\ net' \in [Datagram -> Nat]
          /\ \A m \in Datagram : net'[m] <= net[m] /\ (m # Ack(k) => net'[m] = net[m])
      BY <1>1, <2>1, <2>2 DEF FailType
    <2>4. \A j \in 1..N : net'[Chunk(j)] > 0 \/ net'[Ack(j)] > 0 => j <= Current
      BY <1>1, <2>3, Datagrams DEF NoneAhead, FailType
    <2>5. CASE Accepts(k)
      <3>1. offset' = offset + 1 /\ retry' = 0 /\ pc' = IF offset + 1 = N THEN "done" ELSE "send"
        BY <1>4, <2>5 DEF RecvAck
      <3>2. FailType'
        <4>1. offset' \in 0..N /\ retry' \in 0..MaxRetry /\ (offset' = N \/ offset' < N)
          BY <2>2, <3>1 DEF Current, MaxRetry
        <4>2. CASE offset + 1 = N
          <5>1. pc' = "done"
            BY <3>1, <4>2
          <5> QED
            BY <1>1, <2>1, <2>3, <4>1, <5>1 DEF FailType
        <4>3. CASE offset + 1 # N
          <5>1. pc' = "send" /\ offset' < N
            BY <3>1, <4>1, <4>3
          <5> QED
            BY <1>1, <2>1, <2>3, <4>1, <5>1 DEF FailType
        <4> QED
          BY <4>2, <4>3
      <3>3. NoneAhead'
        BY <2>2, <2>4, <3>1 DEF NoneAhead, Current
      <3>4. Registered'
        <4>1. CASE k = N
          <5>1. k <= Current
            BY <1>1, <2>1, <2>2, <4>1 DEF NoneAhead
          <5>2. offset + 1 = N
            BY <2>2, <4>1, <5>1 DEF Current
          <5> QED
            BY <3>1, <5>2 DEF Registered
        <4>2. CASE k # N
          <5>1. Ack(k) # Ack(N) /\ Ack(k) # Push
            BY <1>1, <4>2, Datagrams
          <5> QED
            BY <1>1, <2>1, <2>3, <5>1 DEF FailInv, Registered, Excused
        <4> QED
          BY <4>1, <4>2
      <3>5. RoundsLost'
        BY <3>1 DEF RoundsLost
      <3> QED
        BY <3>2, <3>3, <3>4, <3>5 DEF FailInv
    <2>6. CASE ~ Accepts(k)
      <3>1. UNCHANGED <<offset, retry, pc>> /\ k < Current
        BY <1>4, <2>2, <2>6 DEF RecvAck, Accepts, Current
      <3>2. /\ Ack(k) # Ack(Current) /\ Ack(k) # Ack(N) /\ Ack(k) # Push /\ Ack(k) # Chunk(Current)
        BY <1>1, <2>2, <3>1, Datagrams
      <3>3. FailType' /\ NoneAhead'
        BY <1>1, <2>1, <2>3, <2>4, <3>1 DEF FailType, NoneAhead, Current
      <3>4. Registered'
        BY <1>1, <2>1, <2>3, <3>1, <3>2 DEF FailInv, Registered, Excused
      <3>5. Trips' = Trips /\ LostTrips' = LostTrips
        BY <2>1, <2>2, <2>3, <3>1, <3>2 DEF Trips, LostTrips, Current
      <3>6. RoundsLost'
        BY <1>1, <2>1, <2>3, <3>1, <3>2, <3>5 DEF FailInv, RoundsLost, Excused
      <3> QED
        BY <3>3, <3>4, <3>6 DEF FailInv
    <2> QED
      BY <2>5, <2>6
  <1>5. CASE Timeout
    <2>1. /\ pc = "wait" /\ UNCHANGED <<offset, entry, net, pushLost>>
          /\ IF retry = MaxRetry THEN pc' = "failed" /\ retry' = retry ELSE pc' = "send" /\ retry' = retry + 1
      BY <1>5 DEF Timeout
    <2>2. /\ Current \in 1..N /\ pushLost[Chunk(Current)] \in Nat /\ pushLost[Ack(Current)] \in Nat
          /\ Chunk(Current) \in Datagram /\ Ack(Current) \in Datagram
      BY <1>1, <2>1, CurrentDatagrams
    <2>3. FailType'
      BY <1>1, <2>1 DEF FailType, MaxRetry
    <2>4. NoneAhead'
      BY <1>1, <2>1 DEF NoneAhead, Current
    <2>5. CASE trouble' # {}
      <3>1. Registered' /\ RoundsLost'
        BY <2>5 DEF Registered, RoundsLost, Excused
      <3> QED
        BY <2>3, <2>4, <3>1 DEF FailInv
    <2>6. CASE trouble' = {}
      <3>1. trouble = {} /\ \A m \in Datagram : net[m] = 0
        <4>1. trouble' = IF InFlight THEN trouble \cup {"early"} ELSE trouble
          BY <1>5 DEF Timeout, NoteEarly
        <4>2. ~ InFlight
          <5>1. SUFFICES ASSUME InFlight PROVE FALSE
            OBVIOUS
          <5>2. "early" \in trouble'
            BY <4>1, <5>1
          <5> QED
            BY <2>6, <5>2
        <4>3. \A m \in Datagram : net[m] \in Nat /\ ~ (net[m] > 0)
          BY <1>1, <4>2 DEF InFlight, FailType
        <4> QED
          BY <2>6, <4>1, <4>2, <4>3
      <3>2. Excused' <=> Excused
        BY <2>1, <2>6, <3>1 DEF Excused
      <3>3. Registered'
        BY <2>1, <3>2 DEF FailInv, Registered
      <3>4. /\ Trips = 0 /\ LostTrips' = LostTrips /\ LostTrips \in Nat
            /\ retry \in Nat /\ retry <= MaxRetry /\ MaxRetry = 3
        BY <1>1, <2>1, <2>2, <3>1 DEF Trips, LostTrips, Current, FailType, MaxRetry
      <3>5. ASSUME ~ Excused
            PROVE  LostTrips >= retry
        <4>1. CASE retry = 0
          BY <3>4, <4>1
        <4>2. CASE retry >= 1
          <5>1. net[Ack(N)] = 0
            BY <1>1, <3>1
          <5>2. Trips + LostTrips >= retry
            BY <2>1, <3>5, <4>2, <5>1 DEF FailInv, RoundsLost
          <5> QED
            BY <3>4, <5>2
        <4> QED
          BY <3>4, <4>1, <4>2
      <3>6. RoundsLost'
        BY <2>1, <3>1, <3>2, <3>4, <3>5 DEF RoundsLost
      <3> QED
        BY <2>3, <2>4, <3>3, <3>6 DEF FailInv
    <2> QED
      BY <2>5, <2>6
  <1> QED
    BY <1>2, <1>3, <1>4, <1>5 DEF PushClient

\* What an excuse covers: only the datagrams' bookkeeping is left to show.
LEMMA ExcusedStep ==
    ASSUME Excused', FailType', NoneAhead'
    PROVE  FailInv'
  BY DEF FailInv, Registered, RoundsLost

\* A datagram leaves the network: the bookkeeping stays right.
LEMMA TakeFailStep ==
    ASSUME FailType, NoneAhead, NEW m \in Datagram, net[m] > 0, net' = Take(m),
           UNCHANGED <<pc, offset, retry>>, pushLost' \in [Datagram -> Nat]
    PROVE  /\ FailType' /\ NoneAhead'
           /\ net'[m] = net[m] - 1
           /\ \A d \in Datagram : d # m => net'[d] = net[d]
  <1>1. /\ net' \in [Datagram -> Nat] /\ net'[m] = net[m] - 1
        /\ \A d \in Datagram : d # m => net'[d] = net[d]
        /\ \A d \in Datagram : net[d] \in Nat /\ net'[d] \in Nat /\ net'[d] <= net[d]
    BY DEF FailType, Take
  <1>2. FailType'
    BY <1>1 DEF FailType
  <1>3. \A k \in 1..N : net'[Chunk(k)] > 0 \/ net'[Ack(k)] > 0 => k <= Current
    <2>1. SUFFICES ASSUME NEW k \in 1..N, net'[Chunk(k)] > 0 \/ net'[Ack(k)] > 0
                   PROVE  k <= Current
      OBVIOUS
    <2>2. Chunk(k) \in Datagram /\ Ack(k) \in Datagram
      BY Datagrams, NAssumption
    <2>3. net[Chunk(k)] > 0 \/ net[Ack(k)] > 0
      BY <1>1, <2>1, <2>2
    <2> QED
      BY <2>3 DEF NoneAhead
  <1>4. NoneAhead'
    <2>1. pc # "start"
      BY DEF NoneAhead
    <2> QED
      BY <1>3, <2>1 DEF NoneAhead, Current
  <1> QED
    BY <1>1, <1>2, <1>4

\* The daemon.
LEMMA DaemonFailStep ==
    ASSUME FailInv, PushDaemon
    PROVE  FailInv'
  <1>1. FailType /\ NoneAhead /\ N \in Nat /\ Push \in Datagram /\ Ack(N) \in Datagram /\ Ack(0) \in Datagram
    BY Datagrams, NAssumption DEF FailInv
  <1>2. CASE HandleFilePush
    <2>1. /\ net[Push] > 0 /\ net' = [net EXCEPT ![Push] = net[Push] - 1, ![Ack(0)] = net[Ack(0)] + 1]
          /\ entry' = TRUE /\ UNCHANGED <<pc, offset, retry, pushLost, trouble>>
      <3>1. Push # Ack(0)
        BY <1>1, Datagrams
      <3> QED
        BY <1>2, <3>1 DEF HandleFilePush, pushClientVars
    <2>2. /\ net' \in [Datagram -> Nat]
          /\ \A m \in Datagram : m # Push /\ m # Ack(0) => net'[m] = net[m]
      BY <1>1, <2>1, Datagrams DEF FailType
    <2>3. \A k \in 1..N : /\ Chunk(k) \in Datagram /\ net'[Chunk(k)] = net[Chunk(k)]
                          /\ Ack(k) \in Datagram /\ net'[Ack(k)] = net[Ack(k)]
      BY <1>1, <2>2, Datagrams
    <2>4. FailType'
      BY <1>1, <2>1, <2>2 DEF FailType
    <2>5. NoneAhead'
      <3>1. pc # "start"
        BY <1>1, <2>1 DEF NoneAhead
      <3> QED
        BY <1>1, <2>1, <2>3, <3>1 DEF NoneAhead, Current
    <2>6. Registered'
      BY <2>1 DEF Registered
    <2>7. RoundsLost'
      <3>1. CASE pc = "send"
        <4>1. ~ (~ Excused /\ retry >= 1)
          BY <1>1, <2>1, <3>1 DEF FailInv, RoundsLost
        <4> QED
          BY <2>1, <3>1, <4>1 DEF RoundsLost, Excused
      <3>2. CASE pc \in {"wait", "failed"}
        <4>1. Current \in 1..N
          BY <1>1, <3>2, CurrentDatagrams
        <4>2. Trips' = Trips /\ LostTrips' = LostTrips
          BY <2>1, <2>3, <4>1 DEF Trips, LostTrips, Current
        <4>3. net'[Ack(N)] = net[Ack(N)]
          BY <1>1, <2>3, <3>2, CurrentDatagrams
        <4> QED
          BY <2>1, <3>2, <4>2, <4>3 DEF FailInv, RoundsLost, Excused
      <3>3. CASE pc \notin {"send", "wait", "failed"}
        BY <2>1, <3>3 DEF RoundsLost
      <3> QED
        BY <3>1, <3>2, <3>3
    <2> QED
      BY <2>4, <2>5, <2>6, <2>7 DEF FailInv
  <1>3. ASSUME NEW k \in 1..N, HandleFileChunk(k)
        PROVE  FailInv'
    <2>1. Chunk(k) \in Datagram /\ Ack(k) \in Datagram /\ Chunk(k) # Ack(k) /\ k \in Nat /\ Chunk(k) # Ack(N)
      BY <1>1, Datagrams
    <2>2. /\ net[Chunk(k)] > 0
          /\ net' = [net EXCEPT ![Chunk(k)] = net[Chunk(k)] - 1, ![Ack(k)] = net[Ack(k)] + 1]
          /\ entry' = (k < N) /\ UNCHANGED <<pc, offset, retry, pushLost, trouble>>
      BY <1>3, <2>1 DEF HandleFileChunk, EntryAfter, pushClientVars
    <2>3. /\ net' \in [Datagram -> Nat]
          /\ net'[Chunk(k)] = net[Chunk(k)] - 1 /\ net'[Ack(k)] = net[Ack(k)] + 1
          /\ \A m \in Datagram : m # Chunk(k) /\ m # Ack(k) => net'[m] = net[m]
          /\ net[Chunk(k)] \in Nat /\ net[Ack(k)] \in Nat
      BY <1>1, <2>1, <2>2 DEF FailType
    <2>4. pc # "start" /\ k <= Current
      BY <1>1, <2>1, <2>2 DEF NoneAhead
    <2>5. FailType'
      BY <1>1, <2>2, <2>3 DEF FailType
    <2>6. NoneAhead'
      <3>1. ASSUME NEW j \in 1..N, net'[Chunk(j)] > 0 \/ net'[Ack(j)] > 0
            PROVE  j <= Current
        <4>1. CASE j = k
          BY <2>4, <4>1
        <4>2. CASE j # k
          <5>1. net'[Chunk(j)] = net[Chunk(j)] /\ net'[Ack(j)] = net[Ack(j)]
            BY <1>1, <2>3, <4>2, Datagrams
          <5> QED
            BY <1>1, <3>1, <5>1 DEF NoneAhead
        <4> QED
          BY <4>1, <4>2
      <3> QED
        BY <2>2, <2>4, <3>1 DEF NoneAhead, Current
    <2>7. CASE k = N
      <3>1. net'[Ack(N)] > 0
        BY <2>3, <2>7
      <3>2. Registered'
        BY <3>1 DEF Registered
      <3>3. RoundsLost'
        <4>1. ~ (~ Excused /\ pc = "send" /\ retry >= 1)
          BY <2>1, <2>2 DEF FailInv, RoundsLost
        <4>2. LostTrips' = LostTrips
          BY <2>2 DEF LostTrips, Current
        <4> QED
          BY <2>2, <3>1, <4>1, <4>2 DEF FailInv, RoundsLost, Excused
      <3> QED
        BY <2>5, <2>6, <3>2, <3>3 DEF FailInv
    <2>8. CASE k # N
      <3>1. entry' = TRUE
        <4>1. k < N
          BY <1>1, <2>8
        <4> QED
          BY <2>2, <4>1, Zenon
      <3>2. Ack(k) # Ack(N)
        BY <1>1, <2>8, Datagrams
      <3>3. net'[Ack(N)] = net[Ack(N)]
        BY <1>1, <2>1, <2>3, <3>2
      <3>4. Registered'
        BY <3>1 DEF Registered
      <3>5. RoundsLost'
        <4>1. ~ (~ Excused /\ pc = "send" /\ retry >= 1)
          BY <2>1, <2>2 DEF FailInv, RoundsLost
        <4>2. LostTrips' = LostTrips
          BY <2>2 DEF LostTrips, Current
        <4>3. pc = "wait" => Trips' = Trips
          <5>1. SUFFICES ASSUME pc = "wait" PROVE Trips' = Trips
            OBVIOUS
          <5>2. /\ Current \in 1..N /\ Current \in 0..N
                /\ Chunk(Current) \in Datagram /\ Ack(Current) \in Datagram
            BY <1>1, <5>1, CurrentDatagrams
          <5>3. CASE k = Current
            BY <2>2, <2>3, <5>3 DEF Trips, Current
          <5>4. CASE k # Current
            <6>1. /\ Chunk(Current) # Chunk(k) /\ Chunk(Current) # Ack(k)
                  /\ Ack(Current) # Chunk(k) /\ Ack(Current) # Ack(k)
              BY <1>1, <5>2, <5>4, Datagrams
            <6>2. net'[Chunk(Current)] = net[Chunk(Current)] /\ net'[Ack(Current)] = net[Ack(Current)]
              BY <2>3, <5>2, <6>1
            <6> QED
              BY <2>2, <6>2 DEF Trips, Current
          <5> QED
            BY <5>3, <5>4
        <4> QED
          BY <2>2, <3>1, <3>3, <4>1, <4>2, <4>3 DEF FailInv, RoundsLost, Excused
      <3> QED
        BY <2>5, <2>6, <3>4, <3>5 DEF FailInv
    <2> QED
      BY <2>7, <2>8
  <1>4. ASSUME NEW k \in 1..N, IgnoreFileChunk(k)
        PROVE  FailInv'
    <2>1. Chunk(k) \in Datagram /\ Chunk(k) # Ack(N) /\ Chunk(k) # Push
      BY <1>1, Datagrams
    <2>2. /\ net[Chunk(k)] > 0 /\ net' = Take(Chunk(k)) /\ ~ entry
          /\ UNCHANGED <<pc, offset, retry, entry, pushLost, trouble>>
      BY <1>4 DEF IgnoreFileChunk, pushClientVars
    <2>3. pushLost' \in [Datagram -> Nat]
      BY <1>1, <2>2 DEF FailType
    <2>4. FailType' /\ NoneAhead' /\ \A d \in Datagram : d # Chunk(k) => net'[d] = net[d]
      BY <1>1, <2>1, <2>2, <2>3, TakeFailStep
    <2>5. net'[Ack(N)] = net[Ack(N)] /\ net'[Push] = net[Push]
      BY <1>1, <2>1, <2>4
    <2>6. Registered'
      BY <2>2, <2>5 DEF FailInv, Registered, Excused
    <2>7. RoundsLost'
      <3>1. ~ (~ Excused /\ pc = "send" /\ retry >= 1)
        BY <2>1, <2>2 DEF FailInv, RoundsLost
      <3>2. LostTrips' = LostTrips
        BY <2>2 DEF LostTrips, Current
      <3> QED
        BY <2>2, <2>5, <3>1, <3>2 DEF FailInv, RoundsLost, Excused
    <2> QED
      BY <2>4, <2>6, <2>7 DEF FailInv
  <1>5. ASSUME NEW m \in Commands, Throttle(m) \/ FailIO(m)
        PROVE  FailInv'
    <2>1. m \in Datagram
      BY DEF Datagram
    <2>2. /\ net[m] > 0 /\ net' = Take(m) /\ UNCHANGED <<pc, offset, retry, pushLost>>
      BY <1>5 DEF Throttle, FailIO, pushClientVars
    <2>3. "quota" \in trouble' \/ "io" \in trouble'
      BY <1>5 DEF Throttle, FailIO
    <2>4. pushLost' \in [Datagram -> Nat]
      BY <1>1, <2>2 DEF FailType
    <2>5. FailType' /\ NoneAhead'
      BY <1>1, <2>1, <2>2, <2>4, TakeFailStep
    <2>6. Excused'
      BY <2>3 DEF Excused
    <2> QED
      BY <2>5, <2>6, ExcusedStep
  <1> QED
    BY <1>2, <1>3, <1>4, <1>5 DEF PushDaemon

\* The network.
LEMMA NetworkFailStep ==
    ASSUME FailInv, PushNetwork
    PROVE  FailInv'
  <1>1. FailType /\ NoneAhead /\ N \in Nat /\ Push \in Datagram /\ Ack(N) \in Datagram
    BY Datagrams, NAssumption DEF FailInv
  <1>2. ASSUME NEW m \in Datagram, LoseDatagram(m)
        PROVE  FailInv'
    <2>1. /\ net[m] > 0 /\ net' = Take(m) /\ pushLost' = [pushLost EXCEPT ![m] = pushLost[m] + 1]
          /\ UNCHANGED <<pc, offset, retry, entry, trouble>>
      BY <1>2 DEF LoseDatagram, pushClientVars, pushDaemonVars
    <2>2. /\ pushLost' \in [Datagram -> Nat] /\ pushLost'[m] = pushLost[m] + 1 /\ pushLost[m] \in Nat /\ net[m] \in Nat
          /\ \A d \in Datagram : d # m => pushLost'[d] = pushLost[d]
      BY <1>1, <2>1 DEF FailType
    <2>3. FailType' /\ NoneAhead' /\ net'[m] = net[m] - 1 /\ \A d \in Datagram : d # m => net'[d] = net[d]
      BY <1>1, <2>1, <2>2, TakeFailStep
    <2>4. CASE m = Push \/ m = Ack(N)
      <3>1. Excused'
        BY <2>2, <2>4 DEF Excused
      <3> QED
        BY <2>3, <3>1, ExcusedStep
    <2>5. CASE m # Push /\ m # Ack(N)
      <3>1. /\ net'[Push] = net[Push] /\ net'[Ack(N)] = net[Ack(N)]
            /\ pushLost'[Push] = pushLost[Push] /\ pushLost'[Ack(N)] = pushLost[Ack(N)]
        BY <1>1, <2>2, <2>3, <2>5
      <3>2. Excused' <=> Excused
        BY <2>1, <3>1 DEF Excused
      <3>3. Registered'
        BY <2>1, <3>1, <3>2 DEF FailInv, Registered
      <3>4. ~ (~ Excused /\ pc = "send" /\ retry >= 1)
        BY <2>1, <2>2 DEF FailInv, RoundsLost
      <3>5. ASSUME pc \in {"wait", "failed"}
            PROVE  /\ Trips' + LostTrips' = Trips + LostTrips
                   /\ LostTrips' >= LostTrips /\ LostTrips \in Nat /\ LostTrips' \in Nat
        <4>1. /\ Chunk(Current) \in Datagram /\ Ack(Current) \in Datagram
              /\ Chunk(Current) # Ack(Current)
              /\ net[Chunk(Current)] \in Nat /\ net[Ack(Current)] \in Nat
              /\ pushLost[Chunk(Current)] \in Nat /\ pushLost[Ack(Current)] \in Nat
          BY <1>1, <3>5, CurrentDatagrams
        <4>2. /\ Trips' = net'[Chunk(Current)] + net'[Ack(Current)]
              /\ LostTrips' = pushLost'[Chunk(Current)] + pushLost'[Ack(Current)]
          BY <2>1 DEF Trips, LostTrips, Current
        <4>3. CASE m = Chunk(Current)
          BY <2>2, <2>3, <4>1, <4>2, <4>3 DEF Trips, LostTrips
        <4>4. CASE m = Ack(Current)
          BY <2>2, <2>3, <4>1, <4>2, <4>4 DEF Trips, LostTrips
        <4>5. CASE m # Chunk(Current) /\ m # Ack(Current)
          BY <2>2, <2>3, <4>1, <4>2, <4>5 DEF Trips, LostTrips
        <4> QED
          BY <4>3, <4>4, <4>5
      <3>6. RoundsLost'
        <4>1. CASE pc = "wait"
          BY <2>1, <3>1, <3>2, <3>5, <4>1 DEF FailInv, RoundsLost
        <4>2. CASE pc = "failed"
          <5>1. ~ Excused => LostTrips' >= MaxRetry
            BY <3>5, <4>2 DEF FailInv, RoundsLost, MaxRetry
          <5> QED
            BY <2>1, <3>2, <4>2, <5>1 DEF RoundsLost
        <4>3. CASE pc \notin {"wait", "failed"}
          BY <2>1, <3>2, <3>4, <4>3 DEF RoundsLost
        <4> QED
          BY <4>1, <4>2, <4>3
      <3> QED
        BY <2>3, <3>3, <3>6 DEF FailInv
    <2> QED
      BY <2>4, <2>5
  <1>3. ASSUME NEW m \in Datagram, Duplicate(m)
        PROVE  FailInv'
    <2>1. /\ net[m] > 0 /\ net' = [net EXCEPT ![m] = net[m] + 1]
          /\ UNCHANGED <<pc, offset, retry, entry, pushLost, trouble>>
      BY <1>3 DEF Duplicate, Put, pushClientVars, pushDaemonVars
    <2>2. /\ net' \in [Datagram -> Nat]
          /\ \A d \in Datagram : net[d] \in Nat /\ net'[d] \in Nat /\ net'[d] >= net[d]
                                 /\ (net'[d] > 0 => net[d] > 0)
      BY <1>1, <2>1 DEF FailType
    <2>3. FailType'
      BY <1>1, <2>1, <2>2 DEF FailType
    <2>4. NoneAhead'
      <3>1. ASSUME NEW k \in 1..N, net'[Chunk(k)] > 0 \/ net'[Ack(k)] > 0
            PROVE  k <= Current
        <4>1. Chunk(k) \in Datagram /\ Ack(k) \in Datagram
          BY <1>1, Datagrams
        <4> QED
          BY <1>1, <2>2, <3>1, <4>1 DEF NoneAhead
      <3>2. pc # "start"
        BY <1>1, <2>1 DEF NoneAhead
      <3> QED
        BY <2>1, <3>1, <3>2 DEF NoneAhead, Current
    <2>5. net'[Push] >= net[Push] /\ net'[Ack(N)] >= net[Ack(N)] /\ net[Push] \in Nat /\ net[Ack(N)] \in Nat
          /\ net'[Push] \in Nat /\ net'[Ack(N)] \in Nat
      BY <1>1, <2>2
    <2>6. Registered'
      BY <2>1, <2>5 DEF FailInv, Registered, Excused
    <2>7. RoundsLost'
      <3>1. ~ (~ Excused /\ pc = "send" /\ retry >= 1)
        BY <2>1 DEF FailInv, RoundsLost
      <3>2. LostTrips' = LostTrips
        BY <2>1 DEF LostTrips, Current
      <3>3. ASSUME pc = "wait"
            PROVE  /\ Trips' >= Trips /\ Trips \in Nat /\ Trips' \in Nat
                   /\ LostTrips \in Nat /\ retry \in Nat
        <4>1. /\ Chunk(Current) \in Datagram /\ Ack(Current) \in Datagram
              /\ pushLost[Chunk(Current)] \in Nat /\ pushLost[Ack(Current)] \in Nat
          BY <1>1, <3>3, CurrentDatagrams
        <4>2. Trips' = net'[Chunk(Current)] + net'[Ack(Current)]
          BY <2>1 DEF Trips, Current
        <4>3. retry \in Nat
          BY <1>1 DEF FailType, MaxRetry
        <4> QED
          BY <2>2, <4>1, <4>2, <4>3 DEF Trips, LostTrips
      <3>4. CASE pc = "wait"
        BY <2>1, <2>5, <3>2, <3>3, <3>4 DEF FailInv, RoundsLost, Excused
      <3>5. CASE pc # "wait"
        BY <2>1, <3>1, <3>2, <3>5 DEF FailInv, RoundsLost, Excused
      <3> QED
        BY <3>4, <3>5
    <2> QED
      BY <2>3, <2>4, <2>6, <2>7 DEF FailInv
  <1> QED
    BY <1>2, <1>3 DEF PushNetwork

\* cmd_push reports a failure only with cause: FilePush or the last
\* acknowledgement was lost, the current chunk lost a datagram in each retry, the
\* daemon was kept silent, or a wait ended before the network was empty.  Any
\* datagram may be duplicated, and any number lost.
THEOREM FailuresAreJustified == PushSpec => []FailureJustified
<1>1. PushInit => FailInv
  <2>1. SUFFICES ASSUME PushInit PROVE FailInv
    OBVIOUS
  <2>2. /\ net = [m \in Datagram |-> 0] /\ pushLost = [m \in Datagram |-> 0]
        /\ pc = "start" /\ offset = 0 /\ retry = 0
    BY <2>1 DEF PushInit
  <2>3. FailType
    BY <2>2, NAssumption DEF FailType, MaxRetry
  <2>4. NoneAhead
    <3>1. \A m \in Datagram : net[m] = 0
      BY <2>2
    <3>2. \A k \in 1..N : net[Chunk(k)] = 0 /\ net[Ack(k)] = 0
      BY <3>1, Datagrams, NAssumption
    <3> QED
      BY <2>2, <3>1, <3>2 DEF NoneAhead
  <2>5. Registered /\ RoundsLost
    BY <2>2 DEF Registered, RoundsLost
  <2> QED
    BY <2>3, <2>4, <2>5 DEF FailInv
<1>2. FailInv /\ [PushNext]_pushVars => FailInv'
  <2>1. SUFFICES ASSUME FailInv, [PushNext]_pushVars PROVE FailInv'
    OBVIOUS
  <2>2. CASE UNCHANGED pushVars
    <3>1. UNCHANGED <<pc, offset, retry, entry, net, pushLost, trouble>>
      BY <2>2 DEF pushVars, pushClientVars, pushDaemonVars
    <3>2. FailType' /\ NoneAhead'
      BY <2>1, <3>1 DEF FailInv, FailType, NoneAhead, Current
    <3>3. Registered' /\ RoundsLost'
      BY <2>1, <3>1 DEF FailInv, Registered, RoundsLost, Excused, Trips, LostTrips, Current
    <3> QED
      BY <3>2, <3>3 DEF FailInv
  <2> QED
    BY <2>1, <2>2, ClientFailStep, DaemonFailStep, NetworkFailStep DEF PushNext
<1>3. FailInv => FailureJustified
  BY DEF FailInv, RoundsLost, FailureJustified, Excused, LostTrips, Current
<1> QED
  BY <1>1, <1>2, <1>3, PTL DEF PushSpec
=============================================================================
