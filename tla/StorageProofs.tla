--------------------------- MODULE StorageProofs ----------------------------
(***************************************************************************)
(* Proofs about the storage crate, for any number of threads, processes,    *)
(* targets, files and blocks.                                               *)
(***************************************************************************)
EXTENDS Storage, TLAPS

\* A sequence with one element replaced.
LEMMA SeqReplaced ==
    ASSUME NEW S, NEW q \in Seq(S), NEW i, NEW x \in S
    PROVE  [q EXCEPT ![i] = x] \in Seq(S)
<1>1. Len(q) \in Nat /\ q \in [1..Len(q) -> S]
  OBVIOUS
<1>2. [q EXCEPT ![i] = x] \in [1..Len(q) -> S]
  BY <1>1
<1>3. QED
  BY <1>1, <1>2

-----------------------------------------------------------------------------
(* Incremental synchronisation. *)

LEMMA SyncStep == StorageNext => [SyncNext]_syncVars
BY DEF StorageNext

Manifests == {EmptyManifest} \cup {Manifest(d) : d \in FileData}

\* A chunk as it is sent, or none.
BlockData ==
    {<<>>} \cup {ChunkOf(d, i) : d \in FileData, i \in Nat}
           \cup {Encrypt(ChunkOf(d, i)) : d \in FileData, i \in Nat}

BlockMaps == UNION {[D -> BlockData] : D \in SUBSET Nat}

SyncOps == {"none", "upload", "download", "restore", "backup"}
SyncPcs == {"idle", "asked", "send", "fetch", "write", "record"}

SyncCalls ==
    [op : SyncOps, pc : SyncPcs, target : Targets \cup {NoHash}, data : FileData,
     manifest : Manifests, todo : SUBSET Nat, got : Seq(BlockData)]

CallOK(c) ==
    /\ c.pc # "idle" => c.target \in Targets
    /\ c.pc = "asked" => c.op \in {"upload", "download", "restore"}
    /\ c.pc = "send" => c.op \in {"upload", "backup"}
    /\ c.op \in {"upload", "backup"} => c.data \in FileData
    /\ c.pc = "idle" => c.op = "none"

SyncTypeOK ==
    /\ local \in FileData
    /\ manifests \in [Targets -> Manifests]
    /\ blocks \in [Targets -> BlockMaps]
    /\ call \in [Callers -> SyncCalls]
    /\ \A w \in Callers : CallOK(call[w])

\* What users make is what a file may hold, and so is nothing.
LEMMA FileFacts ==
    /\ Contents \subseteq FileData
    /\ <<>> \in FileData
    /\ \A d \in FileData : Len(d) \in Nat /\ d # NoHash
<1>1. ASSUME NEW d \in Contents PROVE d \in FileData
  <2>1. d \in Seq(Range(d)) /\ Range(d) \subseteq UNION {Range(e) : e \in Contents}
    BY ContentsAssumption
  <2>2. QED
    BY <2>1 DEF FileData
<1>2. \A d \in FileData : Len(d) \in Nat /\ d # NoHash
  BY ContentsAssumption DEF FileData
<1>3. QED
  BY <1>1, <1>2 DEF FileData

\* What is left of a file that is written over.
LEMMA OverOK ==
    ASSUME NEW file \in FileData, NEW data \in FileData, NEW n \in 0..Len(data)
    PROVE  Over(file, data, n) \in FileData
<1> DEFINE S == UNION {Range(e) : e \in Contents}
<1>1. file \in Seq(S) /\ data \in Seq(S) /\ Len(file) \in Nat /\ Len(data) \in Nat /\ n \in Nat
  BY DEF FileData
<1> HIDE DEF S
<1>2. SubSeq(data, 1, n) \in Seq(S)
  BY <1>1
<1>3. SubSeq(file, n + 1, Len(file)) \in Seq(S)
  BY <1>1
<1>4. Over(file, data, n) \in Seq(S)
  BY <1>2, <1>3 DEF Over
<1>5. QED
  BY <1>4 DEF FileData, S

LEMMA OverNothing ==
    ASSUME NEW data \in FileData
    PROVE  Over(<<>>, data, Len(data)) = data
<1> DEFINE S == UNION {Range(e) : e \in Contents}
<1>1. data \in Seq(S) /\ Len(data) \in Nat
  BY DEF FileData
<1> HIDE DEF S
<1>2. SubSeq(data, 1, Len(data)) = data
  BY <1>1
<1>3. SubSeq(<<>>, Len(data) + 1, Len(<<>>)) = <<>>
  BY <1>1
<1>4. data \o <<>> = data
  BY <1>1
<1>5. QED
  BY <1>2, <1>3, <1>4 DEF Over

\* The chunks of a node after one more was sent.
LEMMA KeepOK ==
    ASSUME NEW m \in BlockMaps, NEW i \in Nat, NEW b \in BlockData
    PROVE  /\ Keep(m, i, b) \in BlockMaps
           /\ DOMAIN Keep(m, i, b) = DOMAIN m \cup {i}
           /\ Keep(m, i, b)[i] = b
           /\ \A j \in DOMAIN m \ {i} : Keep(m, i, b)[j] = m[j]
<1>1. PICK D \in SUBSET Nat : m \in [D -> BlockData]
  BY DEF BlockMaps
<1>2. Keep(m, i, b) \in [D \cup {i} -> BlockData]
  BY <1>1 DEF Keep
<1>3. Keep(m, i, b) \in BlockMaps
  <2>1. D \cup {i} \in SUBSET Nat
    OBVIOUS
  <2>2. QED
    BY <1>2, <2>1 DEF BlockMaps
<1>4. QED
  BY <1>1, <1>2, <1>3 DEF Keep

\* What is known of the manifest of a file, and of no file.
LEMMA ManifestFacts ==
    /\ EmptyManifest \in Manifests /\ EmptyManifest.file_hash = NoHash
    /\ EmptyManifest.chunks = <<>> /\ DOMAIN EmptyManifest.chunks = {}
    /\ \A d \in FileData :
          /\ NumChunks(d) \in Nat
          /\ 1..NumChunks(d) \subseteq Nat
          /\ Manifest(d) \in Manifests /\ Manifest(d).file_hash = d
          /\ DOMAIN Manifest(d).chunks = 1..NumChunks(d)
          /\ \A i \in 1..NumChunks(d) : Manifest(d).chunks[i] = ChunkOf(d, i)
<1>1. /\ EmptyManifest \in Manifests /\ EmptyManifest.file_hash = NoHash
      /\ EmptyManifest.chunks = <<>> /\ DOMAIN EmptyManifest.chunks = {}
  BY DEF EmptyManifest, Manifests
<1>2. ASSUME NEW d \in FileData PROVE NumChunks(d) \in Nat
  <2>1. Len(d) \in Nat
    BY FileFacts
  <2>2. QED
    BY <2>1, ChunkAssumption DEF NumChunks
<1>3. ASSUME NEW d \in FileData
      PROVE  /\ 1..NumChunks(d) \subseteq Nat
             /\ Manifest(d) \in Manifests /\ Manifest(d).file_hash = d
             /\ DOMAIN Manifest(d).chunks = 1..NumChunks(d)
             /\ \A i \in 1..NumChunks(d) : Manifest(d).chunks[i] = ChunkOf(d, i)
  <2>1. 1..NumChunks(d) \subseteq Nat
    BY <1>2
  <2>2. Manifest(d) \in Manifests
    BY DEF Manifests
  <2>3. QED
    BY <2>1, <2>2 DEF Manifest, ChunksOf
<1>4. QED
  BY <1>1, <1>2, <1>3

LEMMA ManifestCases ==
    ASSUME NEW m \in Manifests
    PROVE  \/ m = EmptyManifest
           \/ \E d \in FileData : m = Manifest(d)
BY DEF Manifests

LEMMA ManifestIndices ==
    ASSUME NEW m \in Manifests
    PROVE  /\ DOMAIN m.chunks \subseteq Nat
           /\ \E n \in Nat : DOMAIN m.chunks = 1..n
           /\ \A i \in DOMAIN m.chunks : m.chunks[i] \in BlockData
<1>1. CASE m = EmptyManifest
  <2>1. DOMAIN m.chunks = {} /\ {} = 1..0
    BY <1>1, ManifestFacts
  <2>2. QED
    BY <2>1
<1>2. ASSUME NEW d \in FileData, m = Manifest(d)
      PROVE  /\ DOMAIN m.chunks \subseteq Nat
             /\ \E n \in Nat : DOMAIN m.chunks = 1..n
             /\ \A i \in DOMAIN m.chunks : m.chunks[i] \in BlockData
  <2>1. \A i \in 1..NumChunks(d) : ChunkOf(d, i) \in BlockData
    BY <1>2, ManifestFacts DEF BlockData
  <2>2. QED
    BY <1>2, <2>1, ManifestFacts
<1>3. QED
  BY <1>1, <1>2, ManifestCases

LEMMA DiffIndices ==
    ASSUME NEW m, NEW d \in FileData
    PROVE  DiffFiles(m, d) \subseteq 1..NumChunks(d) /\ DiffFiles(m, d) \subseteq Nat
BY ManifestFacts DEF DiffFiles

\* A new call.
LEMMA NewCallOK ==
    ASSUME NEW op \in SyncOps, NEW pc \in SyncPcs, NEW t \in Targets \cup {NoHash},
           NEW data \in FileData, NEW todo \in SUBSET Nat
    PROVE  /\ NewCall(op, pc, t, data, todo) \in SyncCalls
           /\ NewCall(op, pc, t, data, todo).op = op
           /\ NewCall(op, pc, t, data, todo).pc = pc
           /\ NewCall(op, pc, t, data, todo).target = t
           /\ NewCall(op, pc, t, data, todo).data = data
           /\ NewCall(op, pc, t, data, todo).manifest = EmptyManifest
<1>1. EmptyManifest \in Manifests
  BY ManifestFacts
<1>2. <<>> \in Seq(BlockData)
  OBVIOUS
<1>3. QED
  BY <1>1, <1>2 DEF NewCall, SyncCalls

LEMMA RestingOK ==
    /\ Resting \in SyncCalls /\ CallOK(Resting)
    /\ Resting.pc = "idle" /\ Resting.op = "none" /\ Resting.manifest = EmptyManifest
<1>1. /\ Resting \in SyncCalls
      /\ Resting.pc = "idle" /\ Resting.op = "none" /\ Resting.manifest = EmptyManifest
  BY NewCallOK, FileFacts DEF Resting, SyncOps, SyncPcs
<1>2. QED
  BY <1>1 DEF CallOK

\* A call that asked, with the manifest it is given.
LEMMA WithManifestOK ==
    ASSUME SyncTypeOK, NEW w \in Callers, NEW m \in Manifests, call[w].pc = "asked"
    PROVE  LET r == WithManifest(w, m)
           IN  /\ r \in SyncCalls /\ CallOK(r)
               /\ r.op = call[w].op /\ r.target = call[w].target /\ r.data = call[w].data
               /\ r.manifest = m
               /\ r.op = "upload" => r.pc = "send" /\ r.todo = DiffFiles(m, r.data)
               /\ r.op # "upload" => r.pc = "fetch"
<1> DEFINE c == call[w]
           wanted == DOMAIN m.chunks
           have == {i \in wanted \cap DOMAIN ChunksOf(local) : ChunkOf(local, i) = m.chunks[i]}
           kept == [i \in wanted |-> IF i \in have THEN m.chunks[i] ELSE <<>>]
           none == [i \in wanted |-> <<>>]
           r == WithManifest(w, m)
<1>1. c \in SyncCalls /\ CallOK(c) /\ c.pc = "asked" /\ c.op \in {"upload", "download", "restore"}
  BY DEF SyncTypeOK, CallOK
<1>2. wanted \in SUBSET Nat /\ wanted \ have \in SUBSET Nat
  BY ManifestIndices
<1>3. PICK n \in Nat : wanted = 1..n
  BY ManifestIndices
<1>4. \A i \in wanted : m.chunks[i] \in BlockData
  BY ManifestIndices
<1>5. <<>> \in BlockData
  BY DEF BlockData
<1>6. kept \in Seq(BlockData) /\ none \in Seq(BlockData)
  <2> HIDE DEF have
  <2>1. kept \in [1..n -> BlockData] /\ none \in [1..n -> BlockData]
    BY <1>3, <1>4, <1>5
  <2>2. QED
    BY <2>1
<1>7. /\ c.op = "upload" => r = [c EXCEPT !.pc = "send", !.manifest = m, !.todo = DiffFiles(m, c.data)]
      /\ c.op = "download" => r = [c EXCEPT !.pc = "fetch", !.manifest = m, !.todo = wanted \ have, !.got = kept]
      /\ c.op = "restore" => r = [c EXCEPT !.pc = "fetch", !.manifest = m, !.todo = wanted, !.got = none]
  BY DEF WithManifest
<1> HIDE DEF c, wanted, have, kept, none, r
<1>8. CASE c.op = "upload"
  <2>1. c.data \in FileData
    BY <1>1, <1>8 DEF CallOK
  <2>2. DiffFiles(m, c.data) \in SUBSET Nat
    BY <2>1, DiffIndices
  <2>3. /\ r \in SyncCalls /\ r.pc = "send" /\ r.manifest = m /\ r.todo = DiffFiles(m, c.data)
        /\ r.op = c.op /\ r.target = c.target /\ r.data = c.data
    BY <1>1, <1>7, <1>8, <2>2 DEF SyncCalls, SyncPcs
  <2>4. QED
    BY <1>1, <1>8, <2>1, <2>3 DEF CallOK, r, c
<1>9. CASE c.op \in {"download", "restore"}
  <2>1. /\ r \in SyncCalls /\ r.pc = "fetch" /\ r.manifest = m
        /\ r.op = c.op /\ r.target = c.target /\ r.data = c.data
    BY <1>1, <1>2, <1>6, <1>7, <1>9 DEF SyncCalls, SyncPcs
  <2>2. QED
    BY <1>1, <1>9, <2>1 DEF CallOK, r, c
<1>10. QED
  BY <1>1, <1>8, <1>9

\* One call changes.
LEMMA CallReplaced ==
    ASSUME SyncTypeOK, NEW w \in Callers, NEW r \in SyncCalls, CallOK(r), call' = [call EXCEPT ![w] = r],
           local' \in FileData, manifests' \in [Targets -> Manifests], blocks' \in [Targets -> BlockMaps]
    PROVE  SyncTypeOK'
<1>1. call' \in [Callers -> SyncCalls] /\ call'[w] = r /\ \A u \in Callers \ {w} : call'[u] = call[u]
  BY DEF SyncTypeOK
<1>2. ASSUME NEW u \in Callers PROVE CallOK(call'[u])
  BY <1>1 DEF SyncTypeOK
<1>3. QED
  BY <1>1, <1>2 DEF SyncTypeOK, CallOK

\* What one call's steps do to its record.
LEMMA StartsWith ==
    ASSUME SyncTypeOK, NEW w \in Callers, NEW t \in Targets,
           SyncFile(w, t) \/ DownloadFile(w, t) \/ RestoreFile(w, t) \/ BackupFile(w, t)
    PROVE  /\ UNCHANGED <<local, manifests, blocks>>
           /\ \E r \in SyncCalls :
                 /\ call' = [call EXCEPT ![w] = r]
                 /\ r.target = t /\ CallOK(r) /\ r.manifest = EmptyManifest
                 /\ r.op \in {"upload", "backup"} => r.data = local /\ local \in uploaded'
                 /\ \/ r.pc = "asked" /\ r.op # "backup" /\ damaged' = damaged
                    \/ r.pc = "send" /\ r.op = "backup" /\ damaged' = damaged \cup {t}
           /\ uploaded \subseteq uploaded' /\ call[w].pc = "idle" /\ UNCHANGED torn
<1> USE DEF SyncOps, SyncPcs
<1>1. CASE SyncFile(w, t)
  <2> DEFINE r == NewCall("upload", "asked", t, local, {})
  <2>1. /\ r \in SyncCalls /\ r.op = "upload" /\ r.pc = "asked" /\ r.target = t /\ r.data = local
        /\ r.manifest = EmptyManifest
    BY NewCallOK DEF SyncTypeOK
  <2>2. CallOK(r)
    BY <2>1 DEF CallOK, SyncTypeOK
  <2>3. /\ call' = [call EXCEPT ![w] = r] /\ UNCHANGED <<local, manifests, blocks, damaged, torn>>
        /\ uploaded' = uploaded \cup {local} /\ call[w].pc = "idle"
    BY <1>1 DEF SyncFile, remoteVars, fileVars
  <2>4. QED
    BY <2>1, <2>2, <2>3
<1>2. ASSUME NEW op \in {"download", "restore"}, Ask(w, t, op)
      PROVE  /\ UNCHANGED <<local, manifests, blocks, damaged, torn, uploaded>> /\ call[w].pc = "idle"
             /\ \E r \in SyncCalls :
                 /\ call' = [call EXCEPT ![w] = r]
                 /\ r.target = t /\ r.pc = "asked" /\ r.op = op /\ CallOK(r) /\ r.manifest = EmptyManifest
  <2> DEFINE r == NewCall(op, "asked", t, <<>>, {})
  <2>1. r \in SyncCalls /\ r.op = op /\ r.pc = "asked" /\ r.target = t /\ r.manifest = EmptyManifest
    BY NewCallOK, FileFacts
  <2>2. CallOK(r)
    BY <2>1 DEF CallOK
  <2>3. /\ call' = [call EXCEPT ![w] = r] /\ UNCHANGED <<local, manifests, blocks, damaged, torn, uploaded>>
        /\ call[w].pc = "idle"
    BY <1>2 DEF Ask, remoteVars, fileVars
  <2>4. QED
    BY <2>1, <2>2, <2>3
<1>3. CASE BackupFile(w, t)
  <2>1. PICK todo \in SUBSET Nat : todo = 1..NumChunks(local)
    BY ManifestFacts DEF SyncTypeOK
  <2> DEFINE r == NewCall("backup", "send", t, local, todo)
  <2>2. /\ r \in SyncCalls /\ r.op = "backup" /\ r.pc = "send" /\ r.target = t /\ r.data = local
        /\ r.manifest = EmptyManifest
    BY NewCallOK DEF SyncTypeOK
  <2>3. CallOK(r)
    BY <2>2 DEF CallOK, SyncTypeOK
  <2>4. /\ call' = [call EXCEPT ![w] = r] /\ UNCHANGED <<local, manifests, blocks, torn>>
        /\ damaged' = damaged \cup {t} /\ uploaded' = uploaded \cup {local} /\ call[w].pc = "idle"
    BY <1>3, <2>1 DEF BackupFile, fileVars
  <2>5. QED
    BY <2>2, <2>3, <2>4
<1>4. QED
  BY <1>1, <1>2, <1>3 DEF DownloadFile, RestoreFile

\* A block is sent.
LEMMA SendBlockOK ==
    ASSUME SyncTypeOK, NEW w \in Callers, SendBlock(w)
    PROVE  /\ UNCHANGED <<local, torn, uploaded, manifests>>
           /\ call[w].pc = "send" /\ call[w].target \in Targets /\ call[w].op \in {"upload", "backup"}
           /\ call[w].data \in FileData
           /\ blocks' \in [Targets -> BlockMaps]
           /\ \E r \in SyncCalls, i \in call[w].todo :
                 /\ call' = [call EXCEPT ![w] = r] /\ CallOK(r)
                 /\ r.todo = call[w].todo \ {i}
                 /\ r.op = call[w].op /\ r.pc = "send" /\ r.target = call[w].target
                 /\ r.data = call[w].data /\ r.manifest = call[w].manifest
                 /\ \/ UNCHANGED blocks /\ damaged' = damaged \cup {call[w].target}
                    \/ /\ UNCHANGED damaged
                       /\ \E b \in BlockData :
                             /\ blocks' = [blocks EXCEPT ![call[w].target] = Keep(blocks[call[w].target], i, b)]
                             /\ call[w].op = "upload" => b = ChunkOf(call[w].data, i)
<1> DEFINE c == call[w]
<1>1. c \in SyncCalls /\ CallOK(c)
  BY DEF SyncTypeOK
<1>2. PICK i \in c.todo :
         /\ c.pc = "send"
         /\ call' = [call EXCEPT ![w].todo = @ \ {i}]
         /\ \/ /\ blocks' = [blocks EXCEPT ![c.target] = Keep(@, i,
                                IF c.op = "backup" THEN Encrypt(ChunkOf(c.data, i)) ELSE ChunkOf(c.data, i))]
               /\ UNCHANGED damaged
            \/ damaged' = damaged \cup {c.target} /\ UNCHANGED blocks
         /\ UNCHANGED <<local, torn, uploaded, manifests>>
  BY DEF SendBlock, fileVars
<1> DEFINE r == [c EXCEPT !.todo = c.todo \ {i}]
<1>3. call' = [call EXCEPT ![w] = r]
  BY <1>2 DEF SyncTypeOK
<1> HIDE DEF c
<1>4. /\ r \in SyncCalls /\ r.todo = c.todo \ {i} /\ r.op = c.op /\ r.pc = c.pc /\ r.target = c.target
      /\ r.data = c.data /\ r.manifest = c.manifest
  BY <1>1 DEF SyncCalls
<1> HIDE DEF r
<1>5. CallOK(r)
  BY <1>1, <1>4 DEF CallOK
<1>6. c.target \in Targets /\ c.op \in {"upload", "backup"} /\ c.data \in FileData /\ i \in Nat
  BY <1>1, <1>2 DEF CallOK, SyncCalls
<1> HIDE DEF c
<1> DEFINE b == IF c.op = "backup" THEN Encrypt(ChunkOf(c.data, i)) ELSE ChunkOf(c.data, i)
<1>7. b \in BlockData
  BY <1>6 DEF BlockData
<1>8. c.op = "upload" => b = ChunkOf(c.data, i)
  OBVIOUS
<1>9. CASE blocks' = [blocks EXCEPT ![c.target] = Keep(@, i, b)] /\ UNCHANGED damaged
  <2> HIDE DEF b
  <2>1. blocks' = [blocks EXCEPT ![c.target] = Keep(blocks[c.target], i, b)]
    BY <1>6, <1>9 DEF SyncTypeOK
  <2>2. Keep(blocks[c.target], i, b) \in BlockMaps
    BY <1>6, <1>7, KeepOK DEF SyncTypeOK
  <2>3. blocks' \in [Targets -> BlockMaps]
    BY <1>6, <2>1, <2>2 DEF SyncTypeOK
  <2>4. QED
    BY <1>2, <1>3, <1>4, <1>5, <1>6, <1>7, <1>8, <1>9, <2>1, <2>3 DEF c
<1>10. CASE damaged' = damaged \cup {c.target} /\ UNCHANGED blocks
  <2>1. blocks' \in [Targets -> BlockMaps]
    BY <1>10 DEF SyncTypeOK
  <2>2. QED
    BY <1>2, <1>3, <1>4, <1>5, <1>6, <1>10, <2>1 DEF c
<1>11. QED
  BY <1>2, <1>9, <1>10

\* The manifest is sent.
LEMMA SendManifestOK ==
    ASSUME SyncTypeOK, NEW w \in Callers, SendManifest(w)
    PROVE  /\ UNCHANGED <<local, torn, uploaded, blocks>>
           /\ call[w].pc = "send" /\ call[w].target \in Targets /\ call[w].op \in {"upload", "backup"}
           /\ call[w].data \in FileData /\ call[w].todo = {}
           /\ manifests' \in [Targets -> Manifests]
           /\ \E r \in SyncCalls :
                 /\ call' = [call EXCEPT ![w] = r] /\ CallOK(r) /\ r.pc \in {"record", "idle"}
                 /\ \/ r = Resting
                    \/ /\ r.op = call[w].op /\ r.target = call[w].target
                       /\ r.data = call[w].data /\ r.manifest = call[w].manifest
           /\ \/ UNCHANGED manifests /\ damaged' = damaged \cup {call[w].target}
              \/ /\ UNCHANGED damaged
                 /\ manifests' = [manifests EXCEPT ![call[w].target] = Manifest(call[w].data)]
<1> DEFINE c == call[w]
<1>1. c \in SyncCalls /\ CallOK(c) /\ c.pc = "send" /\ c.todo = {}
  BY DEF SyncTypeOK, SendManifest
<1>2. c.target \in Targets /\ c.op \in {"upload", "backup"} /\ c.data \in FileData
  BY <1>1 DEF CallOK
<1>3. \E r \in SyncCalls :
         /\ call' = [call EXCEPT ![w] = r] /\ CallOK(r) /\ r.pc \in {"record", "idle"}
         /\ \/ r = Resting
            \/ /\ r.op = c.op /\ r.target = c.target
               /\ r.data = c.data /\ r.manifest = c.manifest
  <2>1. CASE c.op = "upload"
    <3> DEFINE r == [c EXCEPT !.pc = "record"]
    <3>1. call' = [call EXCEPT ![w] = r]
      BY <2>1 DEF SendManifest, SyncTypeOK
    <3> HIDE DEF c
    <3>2. /\ r \in SyncCalls /\ r.pc = "record" /\ r.op = c.op /\ r.target = c.target
          /\ r.data = c.data /\ r.manifest = c.manifest
      BY <1>1 DEF SyncCalls, SyncPcs
    <3>3. CallOK(r)
      BY <1>2, <2>1, <3>2 DEF CallOK
    <3>4. QED
      BY <3>1, <3>2, <3>3
  <2>2. CASE c.op # "upload"
    BY <2>2, RestingOK DEF SendManifest, Return
  <2>3. QED
    BY <2>1, <2>2
<1>4. Manifest(c.data) \in Manifests
  BY <1>2, ManifestFacts
<1>5. manifests' \in [Targets -> Manifests]
  BY <1>4 DEF SyncTypeOK, SendManifest
<1>6. QED
  BY <1>1, <1>2, <1>3, <1>5 DEF SendManifest, fileVars


\* A block is fetched: only the file being put together changes.
LEMMA FetchBlockOK ==
    ASSUME SyncTypeOK, NEW w \in Callers, FetchBlock(w)
    PROVE  /\ UNCHANGED <<local, torn, uploaded, manifests, blocks, damaged>>
           /\ \E r \in SyncCalls :
                 /\ call' = [call EXCEPT ![w] = r] /\ CallOK(r)
                 /\ r.op = call[w].op /\ r.pc = "fetch" /\ r.target = call[w].target
                 /\ r.data = call[w].data /\ r.manifest = call[w].manifest
<1> DEFINE c == call[w]
<1>1. c \in SyncCalls /\ CallOK(c)
  BY DEF SyncTypeOK
<1>2. PICK i \in c.todo :
         /\ c.pc = "fetch"
         /\ \E b \in Answers(c, i) : call' = [call EXCEPT ![w].todo = @ \ {i}, ![w].got[i] = b]
         /\ UNCHANGED <<local, torn, uploaded, manifests, blocks, damaged>>
  BY DEF FetchBlock, remoteVars, fileVars
<1>3. PICK b \in Answers(c, i) : call' = [call EXCEPT ![w].todo = @ \ {i}, ![w].got[i] = b]
  BY <1>2
<1>12. b \in BlockData /\ c.target \in Targets
  <2>1. c.target \in Targets /\ i \in Nat
    BY <1>1, <1>2 DEF CallOK, SyncCalls
  <2>2. blocks[c.target] \in BlockMaps
    BY <2>1 DEF SyncTypeOK
  <2>3. \A j \in DOMAIN blocks[c.target] : blocks[c.target][j] \in BlockData
    BY <2>2 DEF BlockMaps
  <2>4. QED
    BY <2>1, <2>3 DEF Answers
<1> DEFINE r1 == [c EXCEPT !.todo = c.todo \ {i}]
           r == [r1 EXCEPT !.got = [r1.got EXCEPT ![i] = b]]
           call1 == [call EXCEPT ![w] = r1]
<1>4. call1 = [call EXCEPT ![w].todo = @ \ {i}]
  BY DEF SyncTypeOK
<1>5. call' = [call1 EXCEPT ![w].got[i] = b]
  BY <1>3, <1>4
<1> HIDE DEF c
<1>6. /\ r1 \in SyncCalls /\ r1.op = c.op /\ r1.pc = c.pc /\ r1.target = c.target /\ r1.data = c.data
      /\ r1.manifest = c.manifest
  BY <1>1 DEF SyncCalls
<1> HIDE DEF r1
<1>7. call' = [call EXCEPT ![w] = r]
  BY <1>5, <1>6 DEF SyncTypeOK, SyncCalls
<1>8. [r1.got EXCEPT ![i] = b] \in Seq(BlockData)
  <2>1. r1.got \in Seq(BlockData)
    BY <1>6 DEF SyncCalls
  <2>2. QED
    BY <1>12, <2>1, SeqReplaced
<1>9. /\ r \in SyncCalls /\ r.op = c.op /\ r.pc = c.pc /\ r.target = c.target /\ r.data = c.data
      /\ r.manifest = c.manifest
  BY <1>6, <1>8 DEF SyncCalls
<1>10. CallOK(r)
  BY <1>1, <1>9 DEF CallOK
<1>11. QED
  BY <1>2, <1>7, <1>9, <1>10 DEF c

\* What is reassembled has the digest of the manifest, which is that of a file.
LEMMA OpenFileOK ==
    ASSUME SyncTypeOK, NEW w \in Callers, OpenFile(w)
    PROVE  /\ UNCHANGED <<manifests, blocks, damaged, uploaded>>
           /\ local' = <<>> /\ torn' = (Overwriting # {}) /\ call[w].pc = "fetch"
           /\ \E r \in SyncCalls :
                 /\ call' = [call EXCEPT ![w] = r] /\ CallOK(r) /\ r.pc = "write"
                 /\ r.op = call[w].op /\ r.target = call[w].target /\ r.manifest = call[w].manifest
                 /\ r.data = call[w].manifest.file_hash /\ r.data # NoHash
<1> DEFINE c == call[w]
           d == FlattenSeq(c.got)
<1>1. c \in SyncCalls /\ CallOK(c) /\ c.pc = "fetch" /\ c.target \in Targets
  BY DEF SyncTypeOK, OpenFile, CallOK
<1>2. /\ CanReassemble(c.manifest, c.got) /\ local' = <<>> /\ torn' = (Overwriting # {})
      /\ call' = [call EXCEPT ![w].pc = "write", ![w].data = d]
      /\ UNCHANGED <<manifests, blocks, damaged, uploaded>>
  BY DEF OpenFile, remoteVars
<1>3. d \in FileData /\ d = c.manifest.file_hash /\ d # NoHash
  <2>1. CASE c.manifest = EmptyManifest
    <3>1. Len(c.got) = 0 /\ FlattenSeq(c.got) = NoHash
      BY <1>2, <2>1, ManifestFacts DEF CanReassemble
    <3>2. c.got \in Seq(BlockData)
      BY <1>1 DEF SyncCalls
    <3>3. c.got = <<>>
      BY <3>1, <3>2
    <3>4. QED
      BY <3>1, <3>3, ChunkAssumption
  <2>2. ASSUME NEW e \in FileData, c.manifest = Manifest(e)
        PROVE  d \in FileData /\ d = c.manifest.file_hash /\ d # NoHash
    BY <1>2, <2>2, ManifestFacts, FileFacts DEF CanReassemble
  <2>3. QED
    BY <1>1, <2>1, <2>2, ManifestCases DEF SyncCalls
<1> HIDE DEF d
<1> DEFINE r1 == [c EXCEPT !.pc = "write"]
           r == [r1 EXCEPT !.data = d]
           call1 == [call EXCEPT ![w] = r1]
<1>4. call1 = [call EXCEPT ![w].pc = "write"]
  BY DEF SyncTypeOK
<1>5. call' = [call1 EXCEPT ![w].data = d]
  BY <1>2, <1>4
<1> HIDE DEF c
<1>6. /\ r1 \in SyncCalls /\ r1.pc = "write" /\ r1.op = c.op /\ r1.target = c.target
      /\ r1.manifest = c.manifest
  BY <1>1 DEF SyncCalls, SyncPcs
<1> HIDE DEF r1
<1>7. call' = [call EXCEPT ![w] = r]
  BY <1>5, <1>6 DEF SyncTypeOK
<1>8. /\ r \in SyncCalls /\ r.pc = "write" /\ r.op = c.op /\ r.target = c.target
      /\ r.manifest = c.manifest /\ r.data = d
  BY <1>3, <1>6 DEF SyncCalls
<1> HIDE DEF r
<1>9. CallOK(r)
  BY <1>1, <1>3, <1>8 DEF CallOK
<1>10. QED
  BY <1>1, <1>2, <1>3, <1>7, <1>8, <1>9 DEF c

\* The file is written, as a whole or in part.
LEMMA WriteFileOK ==
    ASSUME SyncTypeOK, NEW w \in Callers, WriteFile(w) \/ WriteCutShort(w)
    PROVE  /\ UNCHANGED <<manifests, blocks, damaged, uploaded>>
           /\ local' \in FileData /\ call[w].pc = "write"
           /\ \E r \in SyncCalls :
                 /\ call' = [call EXCEPT ![w] = r] /\ CallOK(r) /\ r.pc \in {"record", "idle"}
                 /\ \/ r = Resting
                    \/ /\ r.op = call[w].op /\ r.target = call[w].target
                       /\ r.data = call[w].data /\ r.manifest = call[w].manifest
<1> DEFINE c == call[w]
<1>1. c \in SyncCalls /\ CallOK(c) /\ c.pc = "write" /\ c.target \in Targets
  BY DEF SyncTypeOK, WriteFile, WriteCutShort, CallOK
<1>2. UNCHANGED <<manifests, blocks, damaged, uploaded>>
  BY DEF WriteFile, WriteCutShort, remoteVars
<1>3. local' \in FileData
  <2>1. PICK n \in 0..Len(c.data) : local' = Over(local, c.data, n)
    <3>1. Len(c.data) \in Nat
      BY <1>1, FileFacts DEF SyncCalls
    <3>2. Len(c.data) \in 0..Len(c.data) /\ 0..Len(c.data) - 1 \subseteq 0..Len(c.data)
      BY <3>1
    <3>3. QED
      BY <3>2 DEF WriteFile, WriteCutShort
  <2>2. c.data \in FileData /\ local \in FileData
    BY <1>1 DEF SyncCalls, SyncTypeOK
  <2>3. QED
    BY <2>1, <2>2, OverOK
<1>4. CASE WriteFile(w) /\ c.op = "download"
  <2> DEFINE r == [c EXCEPT !.pc = "record"]
  <2>1. call' = [call EXCEPT ![w] = r]
    BY <1>4 DEF WriteFile, SyncTypeOK
  <2> HIDE DEF c
  <2>2. /\ r \in SyncCalls /\ r.pc = "record" /\ r.op = c.op /\ r.target = c.target
        /\ r.data = c.data /\ r.manifest = c.manifest
    BY <1>1 DEF SyncCalls, SyncPcs
  <2>3. CallOK(r)
    BY <1>1, <1>4, <2>2 DEF CallOK
  <2>4. QED
    BY <1>1, <1>2, <1>3, <2>1, <2>2, <2>3 DEF c
<1>5. CASE ~(WriteFile(w) /\ c.op = "download")
  <2>1. call' = [call EXCEPT ![w] = Resting]
    BY <1>5 DEF WriteFile, WriteCutShort, Return
  <2>2. QED
    BY <1>1, <1>2, <1>3, <2>1, RestingOK
<1>6. QED
  BY <1>4, <1>5


\* The answer that there is no such file.
LEMMA AnswerNoneOK ==
    ASSUME SyncTypeOK, NEW t \in Targets, AnswerNone(t)
    PROVE  /\ UNCHANGED <<local, torn, uploaded, manifests, blocks>>
           /\ call' \in [Callers -> SyncCalls]
           /\ \A w \in Callers :
                 /\ CallOK(call'[w])
                 /\ \/ call'[w] = call[w]
                    \/ call[w].pc = "asked" /\ call'[w] = WithManifest(w, EmptyManifest)
<1> DEFINE takers == {w \in Callers : call[w].pc = "asked" /\ call[w].op # "restore"}
<1>1. /\ call' = [w \in Callers |-> IF w \in takers THEN WithManifest(w, EmptyManifest) ELSE call[w]]
      /\ UNCHANGED <<local, torn, uploaded, manifests, blocks>>
  BY DEF AnswerNone, fileVars
<1>2. ASSUME NEW w \in takers
      PROVE  WithManifest(w, EmptyManifest) \in SyncCalls /\ CallOK(WithManifest(w, EmptyManifest))
  BY ManifestFacts, WithManifestOK
<1>3. QED
  BY <1>1, <1>2 DEF SyncTypeOK

\* Every step keeps the types, and with them the file whole.
LEMMA SyncTypeStep ==
    ASSUME SyncTypeOK, SyncNext
    PROVE  SyncTypeOK'
<1>1. CASE EditLocal
  BY <1>1, FileFacts DEF EditLocal, remoteVars, fileVars, SyncTypeOK, CallOK
<1>2. ASSUME NEW w \in Callers, NEW t \in Targets,
             SyncFile(w, t) \/ DownloadFile(w, t) \/ RestoreFile(w, t) \/ BackupFile(w, t)
      PROVE  SyncTypeOK'
  <2>1. PICK r \in SyncCalls : call' = [call EXCEPT ![w] = r] /\ CallOK(r)
    BY <1>2, StartsWith
  <2>2. UNCHANGED <<local, manifests, blocks>>
    BY <1>2, StartsWith
  <2>3. QED
    BY <2>1, <2>2, CallReplaced DEF SyncTypeOK
<1>3. ASSUME NEW w \in Callers, AnswerManifest(w) PROVE SyncTypeOK'
  <2>1. /\ call[w].pc = "asked" /\ UNCHANGED <<local, manifests, blocks>>
        /\ call' = [call EXCEPT ![w] = WithManifest(w, manifests[call[w].target])]
    BY <1>3 DEF AnswerManifest, fileVars
  <2>2. manifests[call[w].target] \in Manifests
    BY <2>1 DEF SyncTypeOK, CallOK
  <2> DEFINE r == WithManifest(w, manifests[call[w].target])
  <2>3. r \in SyncCalls /\ CallOK(r)
    BY <2>1, <2>2, WithManifestOK
  <2> HIDE DEF r
  <2>4. call' = [call EXCEPT ![w] = r]
    BY <2>1 DEF r
  <2>5. QED
    BY <2>1, <2>3, <2>4, CallReplaced DEF SyncTypeOK
<1>4. ASSUME NEW w \in Callers, call' = [call EXCEPT ![w] = Resting], UNCHANGED <<local, manifests, blocks>>
      PROVE  SyncTypeOK'
  BY <1>4, RestingOK, CallReplaced DEF SyncTypeOK
<1>5. ASSUME NEW w \in Callers, SendBlock(w) PROVE SyncTypeOK'
  <2>1. PICK r \in SyncCalls : call' = [call EXCEPT ![w] = r] /\ CallOK(r)
    BY <1>5, SendBlockOK
  <2>2. UNCHANGED <<local, manifests>> /\ blocks' \in [Targets -> BlockMaps]
    BY <1>5, SendBlockOK
  <2>3. QED
    BY <2>1, <2>2, CallReplaced DEF SyncTypeOK
<1>6. ASSUME NEW w \in Callers, SendManifest(w) PROVE SyncTypeOK'
  <2>1. PICK r \in SyncCalls : call' = [call EXCEPT ![w] = r] /\ CallOK(r)
    BY <1>6, SendManifestOK
  <2>2. UNCHANGED <<local, blocks>> /\ manifests' \in [Targets -> Manifests]
    BY <1>6, SendManifestOK
  <2>3. QED
    BY <2>1, <2>2, CallReplaced DEF SyncTypeOK
<1>7. ASSUME NEW w \in Callers, FetchBlock(w) PROVE SyncTypeOK'
  <2>1. PICK r \in SyncCalls : call' = [call EXCEPT ![w] = r] /\ CallOK(r)
    BY <1>7, FetchBlockOK
  <2>2. UNCHANGED <<local, manifests, blocks>>
    BY <1>7, FetchBlockOK
  <2>3. QED
    BY <2>1, <2>2, CallReplaced DEF SyncTypeOK
<1>8. ASSUME NEW w \in Callers, WriteFile(w) \/ WriteCutShort(w) PROVE SyncTypeOK'
  <2>1. PICK r \in SyncCalls : call' = [call EXCEPT ![w] = r] /\ CallOK(r)
    BY <1>8, WriteFileOK
  <2>2. UNCHANGED <<manifests, blocks>> /\ local' \in FileData
    BY <1>8, WriteFileOK
  <2>3. QED
    BY <2>1, <2>2, CallReplaced DEF SyncTypeOK
<1>9. ASSUME NEW t \in Targets, AnswerNone(t) PROVE SyncTypeOK'
  BY <1>9, AnswerNoneOK DEF SyncTypeOK, CallOK
<1>10. ASSUME NEW w \in Callers, OpenFile(w) PROVE SyncTypeOK'
  <2>1. PICK r \in SyncCalls : call' = [call EXCEPT ![w] = r] /\ CallOK(r)
    BY <1>10, OpenFileOK
  <2>2. UNCHANGED <<manifests, blocks>> /\ local' \in FileData
    BY <1>10, OpenFileOK, FileFacts
  <2>3. QED
    BY <2>1, <2>2, CallReplaced DEF SyncTypeOK
<1>11. QED
  BY <1>1, <1>2, <1>3, <1>4, <1>5, <1>6, <1>7, <1>8, <1>9, <1>10
     DEF SyncNext, CallFails, RecordSync, Return, remoteVars, fileVars

\* The invariant of the remote side.  Of a target that nothing happened to: no backup is
\* on its way to it; at most one upload has its manifest; without one its chunks are those
\* of its manifest; and an upload has still to send every chunk of its data that the
\* target does not have, and has harmed nothing before its first chunk.
Kept(t, i, chunk) == i \in DOMAIN blocks[t] /\ blocks[t][i] = chunk

Matches(t) == \A i \in DOMAIN manifests[t].chunks : Kept(t, i, manifests[t].chunks[i])

UploadOK(w, t) ==
    /\ call[w].todo \subseteq DiffFiles(call[w].manifest, call[w].data)
    /\ call[w].todo = DiffFiles(call[w].manifest, call[w].data) => Matches(t)
    /\ \A i \in (1..NumChunks(call[w].data)) \ call[w].todo : Kept(t, i, ChunkOf(call[w].data, i))

TargetOK(t) ==
    /\ \A w \in Callers : call[w].op = "backup" => call[w].target # t
    /\ \A v, w \in Uploading(t) : v = w
    /\ Uploading(t) = {} => Matches(t)
    /\ \A w \in Uploading(t) : UploadOK(w, t)

RemoteInv == SyncTypeOK /\ \A t \in Targets \ damaged : TargetOK(t)

\* An upload that is given a manifest which is the target's, or that of no file, has the
\* rest of its data there already.
LEMMA DiffCovers ==
    ASSUME SyncTypeOK, NEW t \in Targets, Matches(t), NEW d \in FileData, NEW m \in {EmptyManifest, manifests[t]},
           NEW i \in (1..NumChunks(d)) \ DiffFiles(m, d)
    PROVE  Kept(t, i, ChunkOf(d, i))
<1>1. d # NoHash
  BY FileFacts
<1>2. CASE m = EmptyManifest
  BY <1>1, <1>2, ManifestFacts DEF DiffFiles
<1>3. CASE m = manifests[t] /\ m # EmptyManifest
  <2>1. PICK e \in FileData : m = Manifest(e)
    BY <1>3, ManifestCases DEF SyncTypeOK
  <2>2. CASE d = e
    BY <1>3, <2>1, <2>2, ManifestFacts DEF Matches, Kept
  <2>3. CASE d # e
    <3>1. d # m.file_hash
      BY <2>1, <2>3, ManifestFacts
    <3>2. i \in DOMAIN m.chunks /\ ChunkOf(d, i) = m.chunks[i]
      BY <3>1 DEF DiffFiles
    <3>3. QED
      BY <1>3, <3>2 DEF Matches, Kept
  <2>4. QED
    BY <2>2, <2>3
<1>4. QED
  BY <1>2, <1>3


Uploads(c, t) == c.op = "upload" /\ c.pc = "send" /\ c.target = t

LEMMA UploadingIs ==
    /\ \A t, w : w \in Uploading(t) <=> w \in Callers /\ Uploads(call[w], t)
    /\ \A t, w : w \in Uploading(t)' <=> w \in Callers /\ Uploads(call'[w], t)
BY DEF Uploading, Doing, Uploads

\* A step that has to do with other targets only, ...
LEMMA TargetKept ==
    ASSUME NEW t \in Targets, TargetOK(t),
           manifests'[t] = manifests[t], blocks'[t] = blocks[t],
           \A w \in Callers :
              \/ call'[w] = call[w]
              \/ /\ call'[w].op = "backup" => call'[w].target # t
                 /\ ~Uploads(call[w], t) /\ ~Uploads(call'[w], t)
    PROVE  TargetOK(t)'
<1>1. Uploading(t)' = Uploading(t) /\ Matches(t)' = Matches(t)
  BY UploadingIs DEF Matches, Kept
<1>2. \A w \in Uploading(t) : call'[w] = call[w]
  BY UploadingIs
<1>3. \A w \in Callers : call'[w].op = "backup" => call'[w].target # t
  BY DEF TargetOK
<1>4. ASSUME NEW w \in Uploading(t) PROVE UploadOK(w, t)'
  <2>1. UploadOK(w, t) /\ call'[w] = call[w]
    BY <1>2 DEF TargetOK
  <2>2. QED
    BY <1>1, <2>1 DEF UploadOK, Kept
<1>5. QED
  BY <1>1, <1>3, <1>4 DEF TargetOK

\* ... the end of the upload to t, ...
LEMMA UploadLeaves ==
    ASSUME NEW t \in Targets, TargetOK(t), NEW w \in Uploading(t), Matches(t)',
           \A u \in Callers \ {w} : call'[u] = call[u],
           call'[w].op # "backup", ~Uploads(call'[w], t)
    PROVE  TargetOK(t)'
<1>1. Uploading(t)' = {}
  BY UploadingIs DEF TargetOK
<1>2. QED
  BY <1>1 DEF TargetOK

\* ... and the manifest that an upload to t is given.
LEMMA UploadBegins ==
    ASSUME SyncTypeOK, NEW t \in Targets, TargetOK(t), Uploading(t) = {},
           UNCHANGED <<manifests, blocks>>, SyncTypeOK',
           NEW w \in Callers, Uploads(call'[w], t),
           NEW m \in {EmptyManifest, manifests[t]}, call'[w].manifest = m,
           call'[w].todo = DiffFiles(m, call'[w].data),
           \A u \in Callers \ {w} :
              \/ call'[u] = call[u]
              \/ (call'[u].op = "backup" => call'[u].target # t) /\ ~Uploads(call'[u], t)
    PROVE  TargetOK(t)'
<1>1. Uploading(t)' = {w} /\ Matches(t) /\ Matches(t)'
  BY UploadingIs DEF TargetOK, Matches, Kept
<1>2. \A u \in Callers : call'[u].op = "backup" => call'[u].target # t
  BY DEF TargetOK, Uploads
<1>3. call'[w].data \in FileData
  BY DEF SyncTypeOK, CallOK, Uploads
<1>4. \A i \in (1..NumChunks(call'[w].data)) \ DiffFiles(m, call'[w].data) : Kept(t, i, ChunkOf(call'[w].data, i))
  BY <1>1, <1>3, DiffCovers
<1>5. UploadOK(w, t)'
  BY <1>1, <1>4 DEF UploadOK, Kept
<1>6. QED
  BY <1>1, <1>2, <1>5 DEF TargetOK

\* Every step keeps the targets that nothing happens to.
LEMMA RemoteInvStep ==
    ASSUME RemoteInv, SyncNext
    PROVE  RemoteInv'
<1>0. SyncTypeOK /\ SyncTypeOK'
  BY SyncTypeStep DEF RemoteInv
<1> SUFFICES ASSUME NEW t \in Targets \ damaged' PROVE TargetOK(t)'
  BY <1>0 DEF RemoteInv
<1>1. damaged \subseteq damaged'
  BY DEF SyncNext, EditLocal, SyncFile, DownloadFile, RestoreFile, Ask, BackupFile, AnswerManifest, CallFails,
         SendBlock, SendManifest, RecordSync, FetchBlock, OpenFile, WriteFile, WriteCutShort, AnswerNone, remoteVars, fileVars
<1>2. TargetOK(t)
  BY <1>1 DEF RemoteInv
\* One call changes, and neither was nor is an upload to t.
<1>3. ASSUME NEW w \in Callers, NEW r, call' = [call EXCEPT ![w] = r],
             manifests'[t] = manifests[t], blocks'[t] = blocks[t],
             r.op = "backup" => r.target # t, ~Uploads(call[w], t), ~Uploads(r, t)
      PROVE  TargetOK(t)'
  <2>1. call'[w] = r /\ \A u \in Callers \ {w} : call'[u] = call[u]
    BY <1>0, <1>3 DEF SyncTypeOK
  <2>2. QED
    BY <1>2, <1>3, <2>1, TargetKept
<1>4. CASE EditLocal
  BY <1>2, <1>4, TargetKept DEF EditLocal, remoteVars, fileVars
<1>5. ASSUME NEW w \in Callers, NEW s \in Targets,
             SyncFile(w, s) \/ DownloadFile(w, s) \/ RestoreFile(w, s) \/ BackupFile(w, s)
      PROVE  TargetOK(t)'
  <2>1. call[w].pc = "idle"
    BY <1>5 DEF SyncFile, DownloadFile, RestoreFile, Ask, BackupFile
  <2>2. PICK r \in SyncCalls :
           /\ call' = [call EXCEPT ![w] = r]
           /\ r.target = s
           /\ \/ r.pc = "asked" /\ r.op # "backup" /\ damaged' = damaged
              \/ r.op = "backup" /\ damaged' = damaged \cup {s}
    BY <1>0, <1>5, StartsWith
  <2>3. UNCHANGED <<manifests, blocks>>
    BY <1>0, <1>5, StartsWith
  <2>4. /\ r.op = "backup" => r.target # t
        /\ ~Uploads(call[w], t) /\ ~Uploads(r, t)
    BY <2>1, <2>2 DEF Uploads
  <2>5. QED
    BY <1>3, <2>2, <2>3, <2>4
<1>6. ASSUME NEW w \in Callers, AnswerManifest(w) PROVE TargetOK(t)'
  <2> DEFINE s == call[w].target
             r == WithManifest(w, manifests[s])
  <2>1. /\ call[w].pc = "asked" /\ UNCHANGED <<manifests, blocks>>
        /\ call' = [call EXCEPT ![w] = r]
        /\ call[w].op = "upload" /\ Uploading(s) # {} => s \in damaged'
    BY <1>6 DEF AnswerManifest
  <2>2. s \in Targets /\ manifests[s] \in Manifests
    BY <1>0, <2>1 DEF SyncTypeOK, CallOK
  <2>3. /\ r.op = call[w].op /\ r.target = s
        /\ r.op = "upload" => /\ r.pc = "send" /\ r.manifest = manifests[s]
                              /\ r.todo = DiffFiles(manifests[s], r.data)
        /\ r.op # "upload" => r.pc = "fetch"
    BY <1>0, <2>1, <2>2, WithManifestOK
  <2> HIDE DEF r
  <2>4. r.op # "backup"
    BY <1>0, <2>1, <2>3 DEF SyncTypeOK, CallOK
  <2>5. CASE r.op = "upload" /\ s = t
    <3>1. Uploading(t) = {}
      BY <2>1, <2>3, <2>5
    <3>2. call'[w] = r /\ \A u \in Callers \ {w} : call'[u] = call[u]
      BY <1>0, <2>1 DEF SyncTypeOK
    <3>3. Uploads(call'[w], t) /\ call'[w].manifest = manifests[t] /\ call'[w].todo = DiffFiles(manifests[t], call'[w].data)
      BY <2>3, <2>5, <3>2 DEF Uploads
    <3>4. QED
      BY <1>0, <1>2, <2>1, <3>1, <3>2, <3>3, UploadBegins
  <2>6. CASE ~(r.op = "upload" /\ s = t)
    <3>1. ~Uploads(call[w], t) /\ ~Uploads(r, t)
      BY <2>1, <2>3, <2>6 DEF Uploads
    <3>2. QED
      BY <1>3, <2>1, <2>4, <3>1
  <2>7. QED
    BY <2>5, <2>6
<1>7. ASSUME NEW w \in Callers, call' = [call EXCEPT ![w] = Resting], UNCHANGED <<manifests, blocks>>,
             Uploads(call[w], t) => call[w].todo = DiffFiles(call[w].manifest, call[w].data)
      PROVE  TargetOK(t)'
  <2>1. Resting.op # "backup" /\ ~Uploads(Resting, t)
    BY RestingOK DEF Uploads
  <2>2. CASE Uploads(call[w], t)
    <3>1. w \in Uploading(t)
      BY <2>2, UploadingIs
    <3>2. Matches(t)'
      BY <1>2, <1>7, <2>2, <3>1 DEF TargetOK, UploadOK, Matches, Kept
    <3>3. call'[w] = Resting /\ \A u \in Callers \ {w} : call'[u] = call[u]
      BY <1>0, <1>7 DEF SyncTypeOK
    <3>4. QED
      BY <1>2, <2>1, <3>1, <3>2, <3>3, UploadLeaves
  <2>3. CASE ~Uploads(call[w], t)
    BY <1>3, <1>7, <2>1, <2>3
  <2>4. QED
    BY <2>2, <2>3
<1>8. ASSUME NEW w \in Callers, CallFails(w) PROVE TargetOK(t)'
  <2>1. Uploads(call[w], t) => call[w].todo = DiffFiles(call[w].manifest, call[w].data)
    BY <1>8 DEF CallFails, Doing, Uploads
  <2>2. QED
    BY <1>7, <1>8, <2>1 DEF CallFails, Return
<1>9. ASSUME NEW w \in Callers, RecordSync(w) PROVE TargetOK(t)'
  <2>1. ~Uploads(call[w], t)
    BY <1>9 DEF RecordSync, Uploads
  <2>2. QED
    BY <1>7, <1>9, <2>1 DEF RecordSync, Return, remoteVars, fileVars
<1>10. ASSUME NEW w \in Callers, SendBlock(w) PROVE TargetOK(t)'
  <2> DEFINE c == call[w]
  <2>1. /\ UNCHANGED manifests /\ c.pc = "send" /\ c.target \in Targets /\ c.op \in {"upload", "backup"}
        /\ c.data \in FileData
        /\ blocks' \in [Targets -> BlockMaps]
    BY <1>0, <1>10, SendBlockOK
  <2>2. PICK r \in SyncCalls, i \in c.todo :
           /\ call' = [call EXCEPT ![w] = r] /\ CallOK(r)
           /\ r.todo = c.todo \ {i}
           /\ r.op = c.op /\ r.pc = "send" /\ r.target = c.target
           /\ r.data = c.data /\ r.manifest = c.manifest
           /\ \/ UNCHANGED blocks /\ damaged' = damaged \cup {c.target}
              \/ /\ UNCHANGED damaged
                 /\ \E b \in BlockData :
                       /\ blocks' = [blocks EXCEPT ![c.target] = Keep(blocks[c.target], i, b)]
                       /\ c.op = "upload" => b = ChunkOf(c.data, i)
    BY <1>0, <1>10, SendBlockOK
  <2>3. CASE c.target # t
    <3>3. blocks'[t] = blocks[t]
      BY <1>0, <2>2, <2>3 DEF SyncTypeOK
    <3>4. ~Uploads(c, t) /\ ~Uploads(r, t) /\ r.target # t
      BY <2>2, <2>3 DEF Uploads
    <3>5. QED
      BY <1>3, <2>1, <2>2, <3>3, <3>4
  <2>4. CASE c.target = t
    <3>1. c.op = "upload"
      BY <1>2, <2>1, <2>4 DEF TargetOK
    <3>2. w \in Uploading(t)
      BY <2>1, <2>4, <3>1, UploadingIs DEF Uploads
    <3>3. /\ \A j \in DOMAIN blocks[t] \ {i} : j \in DOMAIN blocks'[t] /\ blocks'[t][j] = blocks[t][j]
          /\ i \in DOMAIN blocks'[t] /\ blocks'[t][i] = ChunkOf(c.data, i)
      <4>1. PICK b \in BlockData :
               /\ blocks' = [blocks EXCEPT ![t] = Keep(blocks[t], i, b)]
               /\ b = ChunkOf(c.data, i)
        BY <2>2, <2>4, <3>1
      <4>2. i \in Nat /\ blocks[t] \in BlockMaps /\ blocks'[t] = Keep(blocks[t], i, b)
        BY <1>0, <4>1 DEF SyncTypeOK, SyncCalls
      <4>3. ASSUME NEW m \in BlockMaps, NEW f, f = Keep(m, i, b)
            PROVE  /\ DOMAIN f = DOMAIN m \cup {i} /\ f[i] = b
                   /\ \A j \in DOMAIN m \ {i} : f[j] = m[j]
        <5>1. /\ DOMAIN Keep(m, i, b) = DOMAIN m \cup {i}
              /\ Keep(m, i, b)[i] = b
              /\ \A j \in DOMAIN m \ {i} : Keep(m, i, b)[j] = m[j]
          BY <4>2, KeepOK, Zenon
        <5>2. QED
          BY <4>3, <5>1, Zenon
      <4>4. /\ DOMAIN blocks'[t] = DOMAIN blocks[t] \cup {i} /\ blocks'[t][i] = b
            /\ \A j \in DOMAIN blocks[t] \ {i} : blocks'[t][j] = blocks[t][j]
        BY <4>2, <4>3, Zenon
      <4>5. b = ChunkOf(c.data, i)
        BY <4>1
      <4>6. QED
        BY <4>4, <4>5
    <3>4. call'[w] = r /\ \A u \in Callers \ {w} : call'[u] = call[u]
      BY <1>0, <2>2 DEF SyncTypeOK
    <3>5. Uploading(t) = {w} /\ Uploading(t)' = {w}
      BY <1>2, <2>2, <2>4, <3>1, <3>2, <3>4, UploadingIs DEF TargetOK, Uploads
    <3>6. UploadOK(w, t)
      BY <1>2, <3>2 DEF TargetOK
    <3>7. UploadOK(w, t)'
      <4>1. r.todo \subseteq DiffFiles(r.manifest, r.data) /\ r.todo # DiffFiles(r.manifest, r.data)
        BY <2>2, <3>6 DEF UploadOK
      <4>2. ASSUME NEW j \in (1..NumChunks(r.data)) \ r.todo PROVE j \in DOMAIN blocks'[t] /\ blocks'[t][j] = ChunkOf(r.data, j)
        <5>2. CASE j = i
          BY <2>2, <3>3, <5>2
        <5>3. CASE j # i
          BY <2>2, <3>3, <3>6, <5>3 DEF UploadOK, Kept
        <5>4. QED
          BY <5>2, <5>3
      <4>3. QED
        BY <3>4, <4>1, <4>2 DEF UploadOK, Kept
    <3>8. \A u \in Callers : call'[u].op = "backup" => call'[u].target # t
      BY <1>2, <2>2, <3>1, <3>4 DEF TargetOK
    <3>9. QED
      BY <3>5, <3>7, <3>8 DEF TargetOK
  <2>5. QED
    BY <2>3, <2>4
<1>11. ASSUME NEW w \in Callers, SendManifest(w) PROVE TargetOK(t)'
  <2> DEFINE c == call[w]
  <2>1. /\ UNCHANGED blocks /\ c.pc = "send" /\ c.target \in Targets /\ c.op \in {"upload", "backup"}
        /\ c.data \in FileData /\ c.todo = {}
        /\ \/ UNCHANGED manifests /\ damaged' = damaged \cup {c.target}
           \/ manifests' = [manifests EXCEPT ![c.target] = Manifest(c.data)]
    BY <1>0, <1>11, SendManifestOK
  <2>2. PICK r \in SyncCalls :
           /\ call' = [call EXCEPT ![w] = r] /\ r.pc \in {"record", "idle"}
           /\ r.op # "none" => r.op = c.op /\ r.target = c.target
    BY <1>0, <1>11, SendManifestOK, RestingOK
  <2>3. ~Uploads(r, t)
    BY <2>2 DEF Uploads
  <2>4. CASE c.target # t
    <3>1. manifests'[t] = manifests[t]
      BY <1>0, <2>1, <2>4 DEF SyncTypeOK
    <3>2. ~Uploads(c, t) /\ (r.op = "backup" => r.target # t)
      BY <2>2, <2>4 DEF Uploads
    <3>3. QED
      BY <1>3, <2>1, <2>2, <2>3, <3>1, <3>2
  <2>5. CASE c.target = t
    <3>1. c.op = "upload"
      BY <1>2, <2>1, <2>5 DEF TargetOK
    <3>2. w \in Uploading(t)
      BY <2>1, <2>5, <3>1, UploadingIs DEF Uploads
    <3>3. manifests'[t] = Manifest(c.data)
      BY <1>0, <2>1, <2>5 DEF SyncTypeOK
    <3>4. \A i \in 1..NumChunks(c.data) : Kept(t, i, ChunkOf(c.data, i))
      BY <1>2, <2>1, <3>2 DEF TargetOK, UploadOK
    <3>5. Matches(t)'
      BY <2>1, <3>3, <3>4, ManifestFacts DEF Matches, Kept
    <3>6. call'[w] = r /\ \A u \in Callers \ {w} : call'[u] = call[u]
      BY <1>0, <2>2 DEF SyncTypeOK
    <3>7. QED
      BY <1>2, <2>2, <2>3, <3>1, <3>2, <3>5, <3>6, UploadLeaves
  <2>6. QED
    BY <2>4, <2>5
<1>12. ASSUME NEW w \in Callers, FetchBlock(w) PROVE TargetOK(t)'
  <2>1. PICK r \in SyncCalls :
           /\ call' = [call EXCEPT ![w] = r]
           /\ r.op = call[w].op /\ r.pc = "fetch" /\ r.target = call[w].target
    BY <1>0, <1>12, FetchBlockOK
  <2>2. UNCHANGED <<manifests, blocks>> /\ call[w].pc = "fetch"
    BY <1>0, <1>12, FetchBlockOK DEF FetchBlock
  <2>3. ~Uploads(call[w], t) /\ ~Uploads(r, t) /\ (r.op = "backup" => r.target # t)
    BY <1>2, <2>1, <2>2 DEF Uploads, TargetOK
  <2>4. QED
    BY <1>3, <2>1, <2>2, <2>3
<1>13. ASSUME NEW w \in Callers, WriteFile(w) \/ WriteCutShort(w) PROVE TargetOK(t)'
  <2>1. PICK r \in SyncCalls :
           /\ call' = [call EXCEPT ![w] = r] /\ r.pc \in {"record", "idle"}
           /\ r.op = "none" \/ (r.op = call[w].op /\ r.target = call[w].target)
    BY <1>0, <1>13, WriteFileOK, RestingOK
  <2>2. UNCHANGED <<manifests, blocks>> /\ call[w].pc = "write"
    BY <1>0, <1>13, WriteFileOK
  <2>3. ~Uploads(call[w], t) /\ ~Uploads(r, t) /\ (r.op = "backup" => r.target # t)
    BY <1>2, <2>1, <2>2 DEF Uploads, TargetOK
  <2>4. QED
    BY <1>3, <2>1, <2>2, <2>3
<1>14. ASSUME NEW s \in Targets, AnswerNone(s) PROVE TargetOK(t)'
  <2> DEFINE takers == {w \in Callers : call[w].pc = "asked" /\ call[w].op # "restore"}
  <2>1. /\ UNCHANGED <<manifests, blocks>>
        /\ call' = [w \in Callers |-> IF w \in takers THEN WithManifest(w, EmptyManifest) ELSE call[w]]
        /\ damaged' = damaged \cup {call[w].target : w \in {v \in takers :
                         /\ call[v].op = "upload"
                         /\ \/ Uploading(call[v].target) # {}
                            \/ \E u \in takers \ {v} : call[u].op = "upload" /\ call[u].target = call[v].target}}
    BY <1>14 DEF AnswerNone
  <2>2. ASSUME NEW v \in takers, call[v].op = "upload", call[v].target = t
        PROVE  Uploading(t) = {} /\ ~\E u \in takers \ {v} : call[u].op = "upload" /\ call[u].target = t
    BY <2>1, <2>2
  <2>3. \A w \in Callers \ takers : call'[w] = call[w]
    BY <2>1
  <2>4. ASSUME NEW w \in takers
        PROVE  /\ call'[w].op = call[w].op /\ call'[w].op # "backup" /\ call'[w].target = call[w].target
               /\ call'[w].op = "upload" => /\ call'[w].pc = "send" /\ call'[w].manifest = EmptyManifest
                                            /\ call'[w].todo = DiffFiles(EmptyManifest, call'[w].data)
    <3>1. call'[w] = WithManifest(w, EmptyManifest)
      BY <2>1, <2>4
    <3>2. call[w].op # "backup"
      BY <1>0, <2>4 DEF SyncTypeOK, CallOK
    <3>3. QED
      BY <1>0, <2>4, <3>1, <3>2, ManifestFacts, WithManifestOK
  <2> HIDE DEF takers
  <2>5. ASSUME NEW v \in takers, call[v].op = "upload", call[v].target = t PROVE TargetOK(t)'
    <3>1. v \in Callers /\ Uploads(call'[v], t)
      BY <2>4, <2>5 DEF Uploads, takers
    <3>2. \A u \in Callers \ {v} :
              \/ call'[u] = call[u]
              \/ (call'[u].op = "backup" => call'[u].target # t) /\ ~Uploads(call'[u], t)
      BY <2>2, <2>3, <2>4, <2>5 DEF Uploads
    <3>3. call'[v].manifest = EmptyManifest /\ call'[v].todo = DiffFiles(EmptyManifest, call'[v].data)
      BY <2>4, <2>5
    <3>4. QED
      BY <1>0, <1>2, <2>1, <2>2, <2>5, <3>1, <3>2, <3>3, UploadBegins
  <2>6. CASE \A v \in takers : ~(call[v].op = "upload" /\ call[v].target = t)
    <3>1. \A w \in Callers :
              \/ call'[w] = call[w]
              \/ /\ call'[w].op = "backup" => call'[w].target # t
                 /\ ~Uploads(call[w], t) /\ ~Uploads(call'[w], t)
      BY <2>3, <2>4, <2>6 DEF Uploads
    <3>2. QED
      BY <1>2, <2>1, <3>1, TargetKept
  <2>7. QED
    BY <2>5, <2>6
<1>15. ASSUME NEW w \in Callers, OpenFile(w) PROVE TargetOK(t)'
  <2>1. PICK r \in SyncCalls :
           /\ call' = [call EXCEPT ![w] = r] /\ r.pc = "write"
           /\ r.op = call[w].op /\ r.target = call[w].target
    BY <1>0, <1>15, OpenFileOK
  <2>2. UNCHANGED <<manifests, blocks>> /\ call[w].pc = "fetch"
    BY <1>0, <1>15, OpenFileOK
  <2>3. ~Uploads(call[w], t) /\ ~Uploads(r, t) /\ (r.op = "backup" => r.target # t)
    BY <1>2, <2>1, <2>2 DEF Uploads, TargetOK
  <2>4. QED
    BY <1>3, <2>1, <2>2, <2>3
<1>16. QED
  BY <1>4, <1>5, <1>6, <1>8, <1>9, <1>10, <1>11, <1>12, <1>13, <1>14, <1>15 DEF SyncNext

\* The invariants hold at the start and at every step of the storage crate.
LEMMA RemoteInvHolds == StorageSpec => []RemoteInv
<1>1. StorageInit => RemoteInv
  <2> SUFFICES ASSUME SyncInit PROVE RemoteInv
    BY DEF StorageInit
  <2>1. <<>> \in BlockData
    BY DEF BlockData
  <2>2. SyncTypeOK
    <3>1. <<>> \in [{} -> BlockData] /\ {} \in SUBSET Nat
      OBVIOUS
    <3>2. <<>> \in BlockMaps
      BY <3>1 DEF BlockMaps
    <3>3. local \in FileData
      BY FileFacts DEF SyncInit
    <3>4. QED
      BY <3>2, <3>3, ManifestFacts, RestingOK DEF SyncInit, SyncTypeOK
  <2>3. ASSUME NEW t \in Targets PROVE TargetOK(t)
    <3>1. Uploading(t) = {} /\ \A w \in Callers : call[w].op = "none"
      BY RestingOK DEF SyncInit, Uploading, Doing
    <3>2. Matches(t)
      BY ManifestFacts DEF SyncInit, Matches, Kept
    <3>3. QED
      BY <3>1, <3>2 DEF TargetOK
  <2>4. QED
    BY <2>2, <2>3 DEF RemoteInv
<1>2. RemoteInv /\ [StorageNext]_storageVars => RemoteInv'
  <2> SUFFICES ASSUME RemoteInv, [StorageNext]_storageVars PROVE RemoteInv'
    OBVIOUS
  <2>1. [SyncNext]_syncVars
    BY SyncStep DEF storageVars
  <2>2. CASE SyncNext
    BY <2>2, RemoteInvStep
  <2>3. CASE UNCHANGED syncVars
    BY <2>3 DEF syncVars, remoteVars, fileVars, RemoteInv, SyncTypeOK, CallOK, TargetOK, Uploading, Doing, UploadOK, Matches, Kept
  <2>4. QED
    BY <2>1, <2>2, <2>3
<1>3. QED
  BY <1>1, <1>2, PTL DEF StorageSpec

\* The invariant of the local file.  What manifests, uploads and writes are about was read
\* by an upload, and while no write was disturbed the file is either whole or just emptied
\* by the only call that is about to write to it.
CallFrom(c, files) ==
    /\ c.manifest.file_hash \in files \cup {NoHash}
    /\ c.op \in {"upload", "backup"} \/ c.pc = "write" => c.data \in files

LocalInv ==
    /\ \A t \in Targets : manifests[t].file_hash \in uploaded \cup {NoHash}
    /\ \A w \in Callers : CallFrom(call[w], uploaded)
    /\ \/ torn
       \/ Overwriting = {} /\ local \in Contents \cup uploaded
       \/ local = <<>> /\ \E w \in Callers : Overwriting = {w}

LEMMA RestingFrom == \A files : CallFrom(Resting, files)
BY RestingOK, ManifestFacts DEF CallFrom

\* A step that does not touch the local file.
LEMMA LocalKept ==
    ASSUME LocalInv, UNCHANGED <<local, torn>>, uploaded \subseteq uploaded',
           \A t \in Targets : manifests'[t].file_hash \in uploaded' \cup {NoHash},
           \A w \in Callers :
              \/ call'[w] = call[w]
              \/ CallFrom(call'[w], uploaded') /\ call'[w].pc # "write" /\ call[w].pc # "write"
    PROVE  LocalInv'
<1>1. Overwriting' = Overwriting
  BY DEF Overwriting
<1>2. ASSUME NEW w \in Callers PROVE CallFrom(call'[w], uploaded')
  <2>1. CallFrom(call[w], uploaded)
    BY DEF LocalInv
  <2>2. CallFrom(call[w], uploaded')
    BY <2>1 DEF CallFrom
  <2>3. QED
    BY <2>2
<1>3. ASSUME NEW w \in Callers PROVE CallFrom(call[w], uploaded)'
  BY <1>2 DEF CallFrom
<1>4. QED
  BY <1>1, <1>3 DEF LocalInv

LEMMA LocalInvStep ==
    ASSUME SyncTypeOK, LocalInv, SyncNext
    PROVE  LocalInv'
<1>1. \A t \in Targets : manifests[t].file_hash \in uploaded \cup {NoHash}
  BY DEF LocalInv
<1>2. \A w \in Callers : CallFrom(call[w], uploaded)
  BY DEF LocalInv
\* One call changes, and neither was nor is writing.
<1>3. ASSUME NEW w \in Callers, NEW r, call' = [call EXCEPT ![w] = r],
             UNCHANGED <<local, torn, manifests>>, uploaded \subseteq uploaded',
             CallFrom(r, uploaded'), r.pc # "write", call[w].pc # "write"
      PROVE  LocalInv'
  <2>1. call'[w] = r /\ \A u \in Callers \ {w} : call'[u] = call[u]
    BY <1>3 DEF SyncTypeOK
  <2>2. \A t \in Targets : manifests'[t].file_hash \in uploaded' \cup {NoHash}
    BY <1>1, <1>3
  <2>3. QED
    BY <1>3, <2>1, <2>2, LocalKept
<1>4. CASE EditLocal
  <2>1. /\ local' \in Contents /\ torn' = (Overwriting # {})
        /\ UNCHANGED <<manifests, call, uploaded>>
    BY <1>4 DEF EditLocal, remoteVars
  <2>2. Overwriting' = Overwriting
    BY <2>1 DEF Overwriting
  <2>3. \A w \in Callers : CallFrom(call[w], uploaded)'
    BY <1>2, <2>1 DEF CallFrom
  <2>4. QED
    BY <1>1, <2>1, <2>2, <2>3 DEF LocalInv
<1>5. ASSUME NEW w \in Callers, NEW t \in Targets,
             SyncFile(w, t) \/ DownloadFile(w, t) \/ RestoreFile(w, t) \/ BackupFile(w, t)
      PROVE  LocalInv'
  <2>1. PICK r \in SyncCalls :
           /\ call' = [call EXCEPT ![w] = r] /\ r.manifest = EmptyManifest
           /\ r.op \in {"upload", "backup"} => r.data = local /\ local \in uploaded'
           /\ r.pc # "write"
    BY <1>5, StartsWith
  <2>2. /\ UNCHANGED <<local, torn, manifests>> /\ uploaded \subseteq uploaded'
        /\ call[w].pc = "idle"
    BY <1>5, StartsWith
  <2>3. CallFrom(r, uploaded')
    BY <2>1, ManifestFacts DEF CallFrom
  <2>4. QED
    BY <1>3, <2>1, <2>2, <2>3
<1>6. ASSUME NEW w \in Callers, AnswerManifest(w) PROVE LocalInv'
  <2> DEFINE s == call[w].target
             r == WithManifest(w, manifests[s])
  <2>1. /\ call[w].pc = "asked" /\ UNCHANGED <<local, torn, manifests, uploaded>>
        /\ call' = [call EXCEPT ![w] = r]
    BY <1>6 DEF AnswerManifest, fileVars
  <2>2. s \in Targets /\ manifests[s] \in Manifests
    BY <2>1 DEF SyncTypeOK, CallOK
  <2>3. r.op = call[w].op /\ r.data = call[w].data /\ r.manifest = manifests[s] /\ r.pc \in {"send", "fetch"}
    BY <2>1, <2>2, WithManifestOK
  <2> HIDE DEF r
  <2>4. CallFrom(r, uploaded')
    BY <1>1, <1>2, <2>1, <2>2, <2>3 DEF CallFrom
  <2>5. QED
    BY <1>3, <2>1, <2>3, <2>4
<1>7. ASSUME NEW w \in Callers, CallFails(w) \/ RecordSync(w) PROVE LocalInv'
  <2>1. /\ call' = [call EXCEPT ![w] = Resting] /\ call[w].pc # "write"
        /\ UNCHANGED <<local, torn, manifests, uploaded>>
    BY <1>7 DEF CallFails, RecordSync, Return, remoteVars, fileVars
  <2>2. QED
    BY <1>3, <2>1, RestingOK, RestingFrom
<1>8. ASSUME NEW w \in Callers, SendBlock(w) PROVE LocalInv'
  <2>1. PICK r \in SyncCalls :
           /\ call' = [call EXCEPT ![w] = r] /\ r.op = call[w].op /\ r.pc = "send"
           /\ r.data = call[w].data /\ r.manifest = call[w].manifest
    BY <1>8, SendBlockOK
  <2>2. UNCHANGED <<local, torn, uploaded, manifests>> /\ call[w].pc = "send"
    BY <1>8, SendBlockOK
  <2>3. CallFrom(r, uploaded')
    BY <1>2, <2>1, <2>2 DEF CallFrom
  <2>4. QED
    BY <1>3, <2>1, <2>2, <2>3
<1>9. ASSUME NEW w \in Callers, SendManifest(w) PROVE LocalInv'
  <2>1. PICK r \in SyncCalls :
           /\ call' = [call EXCEPT ![w] = r] /\ r.pc \in {"record", "idle"}
           /\ \/ r = Resting
              \/ /\ r.op = call[w].op /\ r.target = call[w].target
                 /\ r.data = call[w].data /\ r.manifest = call[w].manifest
    BY <1>9, SendManifestOK
  <2>2. /\ UNCHANGED <<local, torn, uploaded>> /\ call[w].pc = "send"
        /\ call[w].target \in Targets /\ call[w].op \in {"upload", "backup"} /\ call[w].data \in FileData
        /\ \/ UNCHANGED manifests
           \/ manifests' = [manifests EXCEPT ![call[w].target] = Manifest(call[w].data)]
    BY <1>9, SendManifestOK
  <2>3. CallFrom(r, uploaded')
    BY <1>2, <2>1, <2>2, RestingFrom DEF CallFrom
  <2>4. call[w].data \in uploaded
    BY <1>2, <2>2 DEF CallFrom
  <2>5. ASSUME NEW t \in Targets PROVE manifests'[t].file_hash \in uploaded' \cup {NoHash}
    <3>1. manifests'[t] = manifests[t] \/ manifests'[t] = Manifest(call[w].data)
      BY <2>2 DEF SyncTypeOK
    <3>2. QED
      BY <1>1, <2>2, <2>4, <3>1, ManifestFacts
  <2>6. call'[w] = r /\ \A u \in Callers \ {w} : call'[u] = call[u]
    BY <2>1 DEF SyncTypeOK
  <2>7. QED
    BY <2>1, <2>2, <2>3, <2>5, <2>6, LocalKept
<1>10. ASSUME NEW w \in Callers, FetchBlock(w) PROVE LocalInv'
  <2>1. PICK r \in SyncCalls :
           /\ call' = [call EXCEPT ![w] = r] /\ r.op = call[w].op /\ r.pc = "fetch"
           /\ r.data = call[w].data /\ r.manifest = call[w].manifest
    BY <1>10, FetchBlockOK
  <2>2. UNCHANGED <<local, torn, uploaded, manifests>> /\ call[w].pc = "fetch"
    BY <1>10, FetchBlockOK DEF FetchBlock
  <2>3. CallFrom(r, uploaded')
    BY <1>2, <2>1, <2>2 DEF CallFrom
  <2>4. QED
    BY <1>3, <2>1, <2>2, <2>3
<1>11. ASSUME NEW w \in Callers, OpenFile(w) PROVE LocalInv'
  <2>1. PICK r \in SyncCalls :
           /\ call' = [call EXCEPT ![w] = r] /\ r.pc = "write" /\ r.op = call[w].op
           /\ r.manifest = call[w].manifest /\ r.data = call[w].manifest.file_hash /\ r.data # NoHash
    BY <1>11, OpenFileOK
  <2>2. /\ UNCHANGED <<manifests, uploaded>> /\ local' = <<>> /\ torn' = (Overwriting # {})
    BY <1>11, OpenFileOK
  <2>3. CallFrom(r, uploaded)
    BY <1>2, <2>1 DEF CallFrom
  <2>4. call'[w] = r /\ \A u \in Callers \ {w} : call'[u] = call[u]
    BY <2>1 DEF SyncTypeOK
  <2>5. \A u \in Callers : CallFrom(call'[u], uploaded)
    BY <1>2, <2>3, <2>4
  <2>6. \A u \in Callers : CallFrom(call[u], uploaded)'
    BY <2>2, <2>5 DEF CallFrom
  <2>7. Overwriting' = Overwriting \cup {w}
    BY <2>1, <2>4 DEF Overwriting
  <2>8. QED
    BY <1>1, <2>2, <2>6, <2>7 DEF LocalInv
<1>12. ASSUME NEW w \in Callers, WriteFile(w) \/ WriteCutShort(w) PROVE LocalInv'
  <2>1. PICK r \in SyncCalls :
           /\ call' = [call EXCEPT ![w] = r] /\ r.pc \in {"record", "idle"}
           /\ \/ r = Resting
              \/ /\ r.op = call[w].op /\ r.target = call[w].target
                 /\ r.data = call[w].data /\ r.manifest = call[w].manifest
    BY <1>12, WriteFileOK
  <2>2. UNCHANGED <<manifests, uploaded>> /\ call[w].pc = "write"
    BY <1>12, WriteFileOK
  <2>3. CallFrom(r, uploaded)
    BY <1>2, <2>1, <2>2, RestingFrom DEF CallFrom
  <2>4. call'[w] = r /\ \A u \in Callers \ {w} : call'[u] = call[u]
    BY <2>1 DEF SyncTypeOK
  <2>5. \A u \in Callers : CallFrom(call'[u], uploaded)
    BY <1>2, <2>3, <2>4
  <2>6. \A u \in Callers : CallFrom(call[u], uploaded)'
    BY <2>2, <2>5 DEF CallFrom
  <2>7. Overwriting' = Overwriting \ {w} /\ w \in Overwriting
    BY <2>1, <2>2, <2>4 DEF Overwriting
  <2>8. CASE torn \/ WriteCutShort(w)
    <3>1. torn'
      BY <1>12, <2>8 DEF WriteFile, WriteCutShort
    <3>2. QED
      BY <1>1, <2>2, <2>6, <3>1 DEF LocalInv
  <2>9. CASE ~torn /\ WriteFile(w)
    <3>1. local = <<>> /\ Overwriting = {w}
      BY <2>7, <2>9 DEF LocalInv
    <3>2. local' = Over(<<>>, call[w].data, Len(call[w].data))
      BY <2>9, <3>1 DEF WriteFile
    <3>3. call[w].data \in FileData /\ call[w].data \in uploaded
      BY <1>2, <2>2 DEF CallFrom, SyncTypeOK, SyncCalls
    <3>4. local' = call[w].data
      BY <3>2, <3>3, OverNothing
    <3>5. QED
      BY <1>1, <2>2, <2>6, <2>7, <3>1, <3>3, <3>4 DEF LocalInv
  <2>10. QED
    BY <1>12, <2>8, <2>9
<1>13. ASSUME NEW s \in Targets, AnswerNone(s) PROVE LocalInv'
  <2>1. /\ UNCHANGED <<local, torn, uploaded, manifests>>
        /\ \A w \in Callers :
              \/ call'[w] = call[w]
              \/ call[w].pc = "asked" /\ call'[w] = WithManifest(w, EmptyManifest)
    BY <1>13, AnswerNoneOK
  <2>2. ASSUME NEW w \in Callers, call[w].pc = "asked", NEW r, r = WithManifest(w, EmptyManifest)
        PROVE  CallFrom(r, uploaded) /\ r.pc # "write"
    <3>1. /\ r.op = call[w].op /\ r.data = call[w].data /\ r.manifest = EmptyManifest
          /\ r.pc \in {"send", "fetch"}
      BY <2>2, ManifestFacts, WithManifestOK
    <3>2. QED
      BY <1>2, <2>2, <3>1, ManifestFacts DEF CallFrom
  <2>3. \A w \in Callers :
           \/ call'[w] = call[w]
           \/ CallFrom(call'[w], uploaded) /\ call'[w].pc # "write" /\ call[w].pc # "write"
    BY <2>1, <2>2
  <2>4. QED
    BY <1>1, <2>1, <2>3, LocalKept
<1>14. QED
  BY <1>4, <1>5, <1>6, <1>7, <1>8, <1>9, <1>10, <1>11, <1>12, <1>13 DEF SyncNext

\* Downloads and restores leave only files that a user made or an upload found, unless a
\* write is cut short or disturbed, for any number of threads, targets and files
\* (incremental.rs, download_file; command.rs, execute_restore).
THEOREM FilesStayWhole == StorageSpec => []FileWhole
<1>1. StorageInit => LocalInv
  <2> SUFFICES ASSUME SyncInit PROVE LocalInv
    BY DEF StorageInit
  <2>1. \A t \in Targets : manifests[t].file_hash = NoHash
    BY ManifestFacts DEF SyncInit
  <2>2. \A w \in Callers : CallFrom(call[w], uploaded)
    BY RestingFrom DEF SyncInit
  <2>3. Overwriting = {} /\ local \in Contents
    BY RestingOK DEF SyncInit, Overwriting
  <2>4. QED
    BY <2>1, <2>2, <2>3 DEF LocalInv
<1>2. RemoteInv /\ LocalInv /\ [StorageNext]_storageVars => LocalInv'
  <2> SUFFICES ASSUME RemoteInv, LocalInv, [StorageNext]_storageVars PROVE LocalInv'
    OBVIOUS
  <2>1. [SyncNext]_syncVars
    BY SyncStep DEF storageVars
  <2>2. CASE SyncNext
    BY <2>2, LocalInvStep DEF RemoteInv
  <2>3. CASE UNCHANGED syncVars
    BY <2>3, LocalKept DEF syncVars, remoteVars, fileVars, LocalInv
  <2>4. QED
    BY <2>1, <2>2, <2>3
<1>3. LocalInv => FileWhole
  BY DEF LocalInv, FileWhole
<1>4. QED
  BY <1>1, <1>2, <1>3, RemoteInvHolds, PTL DEF StorageSpec

\* The chunks of a node are those of its manifest, unless something happened to an upload
\* (incremental.rs, sync_file; diff.rs, diff_files).
THEOREM RemoteStaysWhole == StorageSpec => []RemoteWhole
<1>1. RemoteInv => RemoteWhole
  BY DEF RemoteInv, TargetOK, Matches, Kept, RemoteWhole
<1>2. QED
  BY <1>1, RemoteInvHolds, PTL


-----------------------------------------------------------------------------
(* The commands that share the version file. *)

LEMMA BackupStep == StorageNext => [BackupNext]_backupVars
BY DEF StorageNext

\* The versions that can be on file.
Versions == Datas \cup Range(History)
VersionMaps == [Files -> Seq(Versions)]

VersionFiles == {Empty, Torn} \cup {Whole(s) : s \in VersionMaps}

ProcPcs ==
    {"idle", "send", "load", "save", "write", "flush", "rewrite", "own lock",
     "register", "write meta", "load meta"}
Commands == {"none", "increment", "backup", "prune", "gc", "stats", "version"}

Processes ==
    [pc : ProcPcs, cmd : Commands, file : Files \cup {NoHash}, data : Versions \cup {<<>>}, next : Nat,
     store : VersionMaps]

\* The points at which a command has read the version file and will write it.
Rewrites == {"save", "write", "flush", "rewrite"}

ProcOK(c) ==
    /\ c.pc = "load" => c.cmd \in {"increment", "prune", "gc", "stats", "version"}
    /\ c.pc = "send" => c.cmd \in {"increment", "backup"}
    /\ c.cmd \in {"increment", "backup"} => c.file \in Files /\ c.data \in Versions
    /\ c.pc \in {"register", "write meta"} => c.cmd = "backup"
    /\ c.pc \in Rewrites /\ c.cmd = "increment" => c.data \in Range(c.store[c.file])

BackupTypeOK ==
    /\ vfile \in VersionFiles
    /\ proc \in [Procs -> Processes]
    /\ recorded \subseteq Files \X Versions
    /\ \A p \in Procs : ProcOK(proc[p])

\* While nothing overlapped or was cut short, one command at most has the file in hand;
\* the file is empty while that command writes, which has every snapshot that was
\* reported; and otherwise all of them are on file.
Holds(s) == \A r \in recorded : r[2] \in Range(s[r[1]])

FileInv ==
    ~lossy =>
        /\ \A p, q \in Procs : Rewriting(p) /\ Rewriting(q) => p = q
        /\ \A p \in Procs : Writing(p) => vfile = Empty
        /\ \A p \in Procs : Rewriting(p) => Holds(proc[p].store)
        /\ (\A p \in Procs : ~Writing(p)) /\ recorded # {} => vfile.state = "whole" /\ Holds(vfile.store)

BackupInv == BackupTypeOK /\ FileInv

LEMMA RewritingIs ==
    /\ \A p : Rewriting(p) <=> proc[p].pc \in Rewrites
    /\ \A p : Rewriting(p)' <=> proc'[p].pc \in Rewrites
    /\ \A p : Writing(p) <=> proc[p].pc \in {"write", "rewrite"}
    /\ \A p : Writing(p)' <=> proc'[p].pc \in {"write", "rewrite"}
BY DEF Rewriting, Writing, Rewrites

\* The states of the version file.
LEMMA FileCases ==
    /\ Empty.state = "empty" /\ Torn.state = "torn"
    /\ \A s : Whole(s).state = "whole" /\ Whole(s).store = s
    /\ \A f \in VersionFiles :
          \/ f = Empty
          \/ f = Torn
          \/ f.state = "whole" /\ f.store \in VersionMaps
BY DEF Empty, Torn, Whole, VersionFiles

LEMMA QuietOK ==
    /\ Quiet \in Processes /\ Quiet.pc = "idle" /\ Quiet.cmd = "none" /\ ProcOK(Quiet)
<1>1. <<>> \in Seq(Versions)
  OBVIOUS
<1>2. NoVersions \in VersionMaps
  BY <1>1 DEF NoVersions, VersionMaps
<1> HIDE DEF NoVersions
<1>3. Quiet \in Processes /\ Quiet.pc = "idle" /\ Quiet.cmd = "none"
  BY <1>2 DEF Quiet, Processes, ProcPcs, Commands
<1>4. QED
  BY <1>3 DEF ProcOK, Rewrites

\* A snapshot in front of the versions of its file.
LEMMA InFront ==
    ASSUME NEW S, NEW q \in Seq(S), NEW x \in S
    PROVE  <<x>> \o q \in Seq(S) /\ x \in Range(<<x>> \o q) /\ Range(q) \subseteq Range(<<x>> \o q)
<1> DEFINE r == <<x>> \o q
<1>1. /\ r \in Seq(S) /\ Len(r) = Len(q) + 1 /\ Len(q) \in Nat
      /\ r[1] = x /\ \A i \in 1..Len(q) : r[i + 1] = q[i]
  OBVIOUS
<1> HIDE DEF r
<1>2. DOMAIN r = 1..(Len(q) + 1) /\ DOMAIN q = 1..Len(q)
  BY <1>1
<1>3. x \in Range(r)
  BY <1>1, <1>2 DEF Range
<1>4. ASSUME NEW y \in Range(q) PROVE y \in Range(r)
  <2>1. PICK i \in 1..Len(q) : y = q[i]
    BY <1>2, <1>4 DEF Range
  <2>2. i + 1 \in DOMAIN r /\ r[i + 1] = y
    BY <1>1, <1>2, <2>1
  <2>3. QED
    BY <2>2 DEF Range
<1>5. QED
  BY <1>1, <1>3, <1>4 DEF r

LEMMA MinOfTwo ==
    ASSUME NEW a \in Nat, NEW b \in Nat
    PROVE  Min({a, b}) \in Nat /\ Min({a, b}) <= b
<1>1. \E x \in {a, b} : \A y \in {a, b} : x <= y
  <2>1. CASE a <= b
    BY <2>1
  <2>2. CASE ~(a <= b)
    BY <2>2
  <2>3. QED
    BY <2>1, <2>2
<1>2. QED
  BY <1>1 DEF Min

LEMMA PrefixOK ==
    ASSUME NEW S, NEW q \in Seq(S), NEW n \in Nat, n <= Len(q)
    PROVE  SubSeq(q, 1, n) \in Seq(S)
<1>1. \A i \in 1..n : q[i] \in S
  OBVIOUS
<1>2. SubSeq(q, 1, n) = [i \in 1..n |-> q[i]]
  OBVIOUS
<1>3. SubSeq(q, 1, n) \in [1..n -> S]
  BY <1>1, <1>2
<1>4. QED
  BY <1>3

LEMMA PruneOK == ASSUME NEW s \in VersionMaps PROVE PruneAll(s) \in VersionMaps
<1>1. ASSUME NEW f \in Files PROVE Prune(s[f]) \in Seq(Versions)
  <2>1. s[f] \in Seq(Versions) /\ Len(s[f]) \in Nat
    BY DEF VersionMaps
  <2>2. Min({keep, Len(s[f])}) \in Nat /\ Min({keep, Len(s[f])}) <= Len(s[f])
    BY <2>1, BackupAssumption, MinOfTwo
  <2>3. QED
    BY <2>1, <2>2, PrefixOK DEF Prune
<1>2. QED
  BY <1>1 DEF PruneAll, VersionMaps

\* What a command does with the versions it read.
LEMMA AfterLoadOK ==
    ASSUME NEW c \in Processes, ProcOK(c), c.pc = "load", NEW s \in VersionMaps
    PROVE  LET r == AfterLoad(c, s)
           IN  /\ r \in Processes /\ ProcOK(r)
               /\ r.pc \in Rewrites => /\ c.cmd \in {"increment", "prune"} /\ r.pc \notin {"write", "rewrite"}
                                       /\ \A f \in Files : Range(s[f]) \subseteq Range(r.store[f])
               /\ r.pc \notin {"write", "rewrite"}
<1> DEFINE r == AfterLoad(c, s)
<1>1. c.cmd \in {"increment", "prune", "gc", "stats", "version"}
  BY DEF ProcOK
<1>2. CASE c.cmd = "increment"
  <2>1. c.file \in Files /\ c.data \in Versions
    BY <1>2 DEF ProcOK
  <2> DEFINE s1 == [s EXCEPT ![c.file] = <<c.data>> \o s[c.file]]
  <2>2. /\ <<c.data>> \o s[c.file] \in Seq(Versions) /\ c.data \in Range(<<c.data>> \o s[c.file])
        /\ Range(s[c.file]) \subseteq Range(<<c.data>> \o s[c.file])
    BY <2>1, InFront DEF VersionMaps
  <2>3. s1 \in VersionMaps /\ c.data \in Range(s1[c.file]) /\ \A f \in Files : Range(s[f]) \subseteq Range(s1[f])
    BY <2>1, <2>2 DEF VersionMaps
  <2>4. r = [c EXCEPT !.pc = "save", !.store = s1]
    BY <1>2 DEF AfterLoad, CreateSnapshot
  <2> HIDE DEF s1, r
  <2>5. /\ r \in Processes /\ r.pc = "save" /\ r.store = s1 /\ r.cmd = c.cmd /\ r.file = c.file /\ r.data = c.data
    BY <2>3, <2>4 DEF Processes, ProcPcs
  <2>6. ProcOK(r)
    BY <1>2, <2>1, <2>3, <2>5 DEF ProcOK
  <2>7. QED
    BY <1>2, <2>3, <2>5, <2>6 DEF r
<1>3. CASE c.cmd = "prune"
  <2>1. PruneAll(s) \in VersionMaps
    BY PruneOK
  <2> DEFINE pc == IF PruneAll(s) # s THEN "own lock" ELSE "flush"
  <2>2. r = [c EXCEPT !.pc = pc, !.store = PruneAll(s)]
    BY <1>3 DEF AfterLoad, PruneAllVersions
  <2>3. pc \in ProcPcs /\ pc \in {"own lock", "flush"} /\ (pc = "flush" => PruneAll(s) = s)
    BY DEF ProcPcs
  <2> HIDE DEF r, pc
  <2>4. /\ r \in Processes /\ r.pc = pc /\ r.store = PruneAll(s) /\ r.cmd = c.cmd /\ r.file = c.file /\ r.data = c.data
    BY <2>1, <2>2, <2>3 DEF Processes
  <2>5. ProcOK(r)
    BY <1>3, <2>3, <2>4 DEF ProcOK
  <2>6. QED
    BY <1>3, <2>3, <2>4, <2>5 DEF r, Rewrites
<1>4. CASE c.cmd \in {"gc", "stats"}
  <2>1. r = [c EXCEPT !.pc = "load meta", !.store = s]
    BY <1>4 DEF AfterLoad, GoOnToMetadata
  <2> HIDE DEF r
  <2>2. /\ r \in Processes /\ r.pc = "load meta" /\ r.store = s
        /\ r.cmd = c.cmd /\ r.file = c.file /\ r.data = c.data
    BY <2>1 DEF Processes, ProcPcs
  <2>3. ProcOK(r)
    BY <1>4, <2>2 DEF ProcOK, Rewrites
  <2>4. QED
    BY <2>2, <2>3 DEF r, Rewrites
<1>5. CASE c.cmd = "version"
  <2>1. r = Quiet
    BY <1>5 DEF AfterLoad, ShowVersions
  <2>2. QED
    BY <2>1, QuietOK DEF Rewrites
<1>6. QED
  BY <1>1, <1>2, <1>3, <1>4, <1>5


\* One process moves on.
LEMMA ProcReplaced ==
    ASSUME BackupTypeOK, NEW p \in Procs, NEW r \in Processes, ProcOK(r), proc' = [proc EXCEPT ![p] = r],
           vfile' \in VersionFiles, recorded' \subseteq Files \X Versions
    PROVE  /\ BackupTypeOK'
           /\ proc'[p] = r /\ \A q \in Procs \ {p} : proc'[q] = proc[q]
<1>1. /\ proc' \in [Procs -> Processes]
      /\ proc'[p] = r /\ \A q \in Procs \ {p} : proc'[q] = proc[q]
  BY DEF BackupTypeOK
<1>2. ASSUME NEW q \in Procs PROVE ProcOK(proc[q])'
  <2>1. proc'[q] = r \/ proc'[q] = proc[q]
    BY <1>1
  <2>2. ProcOK(proc'[q])
    BY <2>1 DEF BackupTypeOK
  <2>3. QED
    BY <2>2 DEF ProcOK
<1>3. QED
  BY <1>1, <1>2 DEF BackupTypeOK

\* A step that leaves the version file alone, of a process that does not take it in hand.
LEMMA QuietStep ==
    ASSUME BackupInv, NEW p \in Procs, NEW r \in Processes, ProcOK(r), proc' = [proc EXCEPT ![p] = r],
           UNCHANGED <<vfile, recorded>>, lossy => lossy',
           ~lossy' => proc[p].pc \notin {"write", "rewrite"},
           r.pc \notin {"write", "rewrite"},
           r.pc \in Rewrites => proc[p].pc \in Rewrites /\ r.store = proc[p].store
    PROVE  BackupInv'
<1> USE DEF BackupInv
<1>1. BackupTypeOK'
  BY ProcReplaced DEF BackupTypeOK
<1>2. proc'[p] = r /\ \A q \in Procs \ {p} : proc'[q] = proc[q]
  BY ProcReplaced DEF BackupTypeOK
<1>3. FileInv'
  <2> SUFFICES ASSUME ~lossy' PROVE FileInv'
    BY DEF FileInv
  <2>1. ~lossy
    OBVIOUS
  <2>2. \A q \in Procs : /\ Writing(q)' <=> Writing(q)
                         /\ Rewriting(q)' => Rewriting(q) /\ proc'[q].store = proc[q].store
    BY <1>2, RewritingIs
  <2>3. \A s : Holds(s)' <=> Holds(s)
    BY DEF Holds
  <2>4. QED
    BY <2>1, <2>2, <2>3 DEF FileInv
<1>4. QED
  BY <1>1, <1>3

\* The versions are read.
LEMMA LoadInv ==
    ASSUME BackupInv, NEW p \in Procs, Load(p)
    PROVE  BackupInv'
<1> USE DEF BackupInv
<1> DEFINE c == proc[p]
<1>1. /\ c \in Processes /\ ProcOK(c) /\ c.pc = "load"
      /\ UNCHANGED <<vfile, mfile, recorded>>
      /\ lossy' = (lossy \/ (c.cmd \in {"increment", "prune"} /\ \E q \in Procs \ {p} : Rewriting(q)))
  BY DEF BackupTypeOK, Load, At
<1>3. CASE End(p)
  BY <1>1, <1>3, QuietOK, QuietStep DEF End, Rewrites
<1>4. CASE vfile.state # "torn" /\ proc' = [proc EXCEPT ![p] = AfterLoad(c, LoadFromFile(vfile))]
  <2> DEFINE s == LoadFromFile(vfile)
             r == AfterLoad(c, s)
  <2>1. /\ s \in VersionMaps
        /\ vfile.state = "whole" => s = vfile.store
    <3>1. <<>> \in Seq(Versions)
      OBVIOUS
    <3>2. NoVersions \in VersionMaps
      BY <3>1 DEF NoVersions, VersionMaps
    <3>3. QED
      BY <1>4, <3>2, FileCases DEF LoadFromFile, BackupTypeOK
  <2> HIDE DEF s
  <2>5. /\ r \in Processes /\ ProcOK(r)
        /\ r.pc \in Rewrites => /\ c.cmd \in {"increment", "prune"} /\ r.pc \notin {"write", "rewrite"}
                                /\ \A f \in Files : Range(s[f]) \subseteq Range(r.store[f])
        /\ r.pc \notin {"write", "rewrite"}
    BY <1>1, <2>1, AfterLoadOK
  <2>6. proc' = [proc EXCEPT ![p] = r]
    BY <1>4 DEF s
  <2> HIDE DEF r
  <2>7. /\ BackupTypeOK'
        /\ proc'[p] = r /\ \A q \in Procs \ {p} : proc'[q] = proc[q]
    BY <1>1, <2>5, <2>6, ProcReplaced DEF BackupTypeOK
  <2>9. FileInv'
    <3> SUFFICES ASSUME ~lossy' PROVE FileInv'
      BY DEF FileInv
    <3>1. ~lossy
      BY <1>1
    <3>2. \A q \in Procs : Writing(q)' <=> Writing(q)
      BY <1>1, <2>5, <2>7, RewritingIs
    <3>3. \A q \in Procs \ {p} : (Rewriting(q)' <=> Rewriting(q)) /\ proc'[q].store = proc[q].store
      BY <2>7, RewritingIs
    <3>4. \A x : Holds(x)' <=> Holds(x)
      BY <1>1 DEF Holds
    <3>5. CASE r.pc \in Rewrites
      <4>1. \A q \in Procs \ {p} : ~Rewriting(q)
        BY <1>1, <2>5, <3>5
      <4>2. \A q \in Procs : ~Writing(q)
        BY <1>1, <4>1, RewritingIs DEF Rewrites
      <4>3. Holds(r.store)
        <5>1. ASSUME NEW e \in recorded PROVE e[2] \in Range(r.store[e[1]])
          <6>1. vfile.state = "whole" /\ Holds(vfile.store)
            BY <3>1, <4>2 DEF FileInv
          <6>2. e[2] \in Range(s[e[1]]) /\ e[1] \in Files
            BY <2>1, <6>1 DEF Holds, BackupTypeOK
          <6>3. QED
            BY <2>5, <3>5, <6>2
        <5>2. QED
          BY <5>1 DEF Holds
      <4>4. QED
        BY <1>1, <2>7, <3>1, <3>2, <3>3, <3>4, <4>1, <4>3 DEF FileInv
    <3>6. CASE r.pc \notin Rewrites
      <4>1. ~Rewriting(p)'
        BY <2>7, <3>6, RewritingIs
      <4>2. QED
        BY <1>1, <3>1, <3>2, <3>3, <3>4, <4>1 DEF FileInv
    <3>7. QED
      BY <3>5, <3>6
  <2>10. QED
    BY <2>7, <2>9
<1>5. QED
  BY <1>3, <1>4 DEF Load

\* The version file is emptied, or cannot be opened.
LEMMA OpenInv ==
    ASSUME BackupInv, NEW p \in Procs, OpenVersions(p)
    PROVE  BackupInv'
<1> USE DEF BackupInv
<1> DEFINE c == proc[p]
<1>1. /\ c \in Processes /\ ProcOK(c) /\ c.pc \in {"save", "flush"}
      /\ UNCHANGED <<mfile, recorded, lossy>>
  BY DEF BackupTypeOK, OpenVersions, historyVars
<1>3. ASSUME NEW pc \in Rewrites, Goto(p, pc)
      PROVE  \E r \in Processes : /\ proc' = [proc EXCEPT ![p] = r] /\ ProcOK(r)
                                  /\ r.pc = pc /\ r.store = c.store
  <2> DEFINE r == [c EXCEPT !.pc = pc]
  <2>1. proc' = [proc EXCEPT ![p] = r]
    BY <1>3 DEF Goto, BackupTypeOK
  <2> HIDE DEF c
  <2>2. r \in Processes /\ r.pc = pc /\ r.store = c.store /\ r.cmd = c.cmd /\ r.file = c.file /\ r.data = c.data
    BY <1>1, <1>3 DEF Processes, ProcPcs, Rewrites
  <2>3. ProcOK(r)
    BY <1>1, <1>3, <2>2 DEF ProcOK, Rewrites
  <2>4. QED
    BY <2>1, <2>2, <2>3
<1>4. CASE vfile' = Empty /\ Goto(p, IF At(p, "save") THEN "write" ELSE "rewrite")
  <2>1. PICK r \in Processes : /\ proc' = [proc EXCEPT ![p] = r] /\ ProcOK(r)
                               /\ r.pc \in {"write", "rewrite"} /\ r.store = c.store
    BY <1>3, <1>4 DEF Rewrites
  <2>2. vfile' \in VersionFiles /\ vfile'.state = "empty"
    BY <1>4, FileCases DEF VersionFiles
  <2>3. /\ BackupTypeOK'
        /\ proc'[p] = r /\ \A q \in Procs \ {p} : proc'[q] = proc[q]
    BY <1>1, <2>1, <2>2, ProcReplaced DEF BackupTypeOK
  <2>5. FileInv'
    <3>1. \A q \in Procs : Rewriting(q)' <=> Rewriting(q)
      BY <1>1, <2>1, <2>3, RewritingIs DEF Rewrites
    <3>2. \A q \in Procs : proc'[q].store = proc[q].store
      BY <2>1, <2>3
    <3>3. \A x : Holds(x)' <=> Holds(x)
      BY <1>1 DEF Holds
    <3>4. Writing(p)'
      BY <2>1, <2>3, RewritingIs
    <3>5. QED
      BY <1>1, <1>4, <3>1, <3>2, <3>3, <3>4 DEF FileInv
  <2>6. QED
    BY <2>3, <2>5
<1>5. CASE UNCHANGED vfile /\ At(p, "save") /\ Goto(p, "flush")
  <2>1. PICK r \in Processes : /\ proc' = [proc EXCEPT ![p] = r] /\ ProcOK(r)
                               /\ r.pc = "flush" /\ r.store = c.store
    BY <1>3, <1>5 DEF Rewrites
  <2>2. QED
    BY <1>1, <1>5, <2>1, QuietStep DEF Rewrites
<1>6. CASE UNCHANGED vfile /\ End(p)
  BY <1>1, <1>6, QuietOK, QuietStep DEF End, Rewrites
<1>7. QED
  BY <1>4, <1>5, <1>6 DEF OpenVersions

\* The version file is written.
LEMMA WriteInv ==
    ASSUME BackupInv, NEW p \in Procs, WriteVersions(p)
    PROVE  BackupInv'
<1> USE DEF BackupInv
<1> DEFINE c == proc[p]
<1>1. /\ c \in Processes /\ ProcOK(c) /\ c.pc \in {"write", "rewrite"} /\ c.store \in VersionMaps
      /\ \/ /\ vfile' = Whole(c.store)
            /\ recorded' = IF c.pc = "rewrite" /\ c.cmd = "increment"
                           THEN recorded \cup {<<c.file, c.data>>} ELSE recorded
            /\ UNCHANGED lossy
         \/ /\ vfile' = Torn /\ vfile.state # "empty"
            /\ recorded' = IF c.pc = "rewrite" /\ c.cmd = "increment"
                           THEN recorded \cup {<<c.file, c.data>>} ELSE recorded
            /\ UNCHANGED lossy
         \/ vfile' = Torn /\ lossy' /\ UNCHANGED recorded
  BY RewritingIs DEF BackupTypeOK, WriteVersions, Processes
<1>2. PICK r \in Processes :
         /\ proc' = [proc EXCEPT ![p] = r] /\ ProcOK(r) /\ r.pc \in {"flush", "idle"}
         /\ r.pc = "flush" => r.store = c.store
  <2>1. CASE c.pc = "write"
    <3> DEFINE r == [c EXCEPT !.pc = "flush"]
    <3>1. proc' = [proc EXCEPT ![p] = r]
      BY <2>1 DEF WriteVersions, Goto, BackupTypeOK
    <3> HIDE DEF c
    <3>2. r \in Processes /\ r.pc = "flush" /\ r.store = c.store /\ r.cmd = c.cmd /\ r.file = c.file /\ r.data = c.data
      BY <1>1 DEF Processes, ProcPcs
    <3>3. ProcOK(r)
      BY <1>1, <3>2 DEF ProcOK, Rewrites
    <3>4. QED
      BY <3>1, <3>2, <3>3
  <2>2. CASE c.pc # "write"
    BY <2>2, QuietOK DEF WriteVersions, End
  <2>3. QED
    BY <2>1, <2>2
<1>5. recorded \subseteq recorded' /\ recorded' \subseteq Files \X Versions
  <2>1. c.cmd = "increment" => c.file \in Files /\ c.data \in Versions
    BY <1>1 DEF ProcOK
  <2>2. QED
    BY <1>1, <2>1 DEF BackupTypeOK
<1>6. vfile' \in VersionFiles
  BY <1>1 DEF VersionFiles
<1>7. /\ BackupTypeOK'
      /\ proc'[p] = r /\ \A q \in Procs \ {p} : proc'[q] = proc[q]
  BY <1>2, <1>5, <1>6, ProcReplaced
<1>8. FileInv'
  <2> SUFFICES ASSUME ~lossy' PROVE FileInv'
    BY DEF FileInv
  <2>1. ~lossy /\ vfile = Empty
    BY <1>1, RewritingIs DEF FileInv
  <2>2. /\ vfile' = Whole(c.store)
        /\ recorded' = IF c.pc = "rewrite" /\ c.cmd = "increment"
                       THEN recorded \cup {<<c.file, c.data>>} ELSE recorded
    BY <1>1, <2>1, FileCases
  <2>3. Rewriting(p) /\ \A q \in Procs \ {p} : ~Rewriting(q)
    BY <1>1, <2>1, RewritingIs DEF FileInv, Rewrites
  <2>4. Holds(c.store) /\ (c.cmd = "increment" => c.data \in Range(c.store[c.file]))
    BY <1>1, <2>1, <2>3 DEF FileInv, ProcOK, Rewrites
  <2>5. \A e \in recorded' : e[2] \in Range(c.store[e[1]])
    BY <2>2, <2>4 DEF Holds
  <2>6. \A q \in Procs \ {p} : ~Rewriting(q)' /\ ~Writing(q)'
    BY <1>7, <2>3, RewritingIs DEF Rewrites
  <2>7. ~Writing(p)' /\ (Rewriting(p)' => proc'[p].store = c.store)
    BY <1>2, <1>7, RewritingIs DEF Rewrites
  <2>8. vfile'.state = "whole" /\ vfile'.store = c.store
    BY <2>2, FileCases
  <2>9. QED
    BY <2>5, <2>6, <2>7, <2>8 DEF FileInv, Holds
<1>9. QED
  BY <1>7, <1>8


\* The other steps.
LEMMA BackupInvStep ==
    ASSUME BackupInv, BackupNext
    PROVE  BackupInv'
<1> USE DEF BackupInv
<1>0. \A p \in Procs : proc[p] \in Processes /\ ProcOK(proc[p])
  BY DEF BackupTypeOK
\* A process goes to a point that has nothing to do with the version file.
<1>2. ASSUME NEW p \in Procs, NEW r \in Processes, ProcOK(r), proc' = [proc EXCEPT ![p] = r],
             r.pc \in {"idle", "send", "load", "register", "write meta"},
             UNCHANGED <<vfile, recorded>>,
             lossy => lossy', ~lossy' => proc[p].pc \notin {"write", "rewrite"}
      PROVE  BackupInv'
  BY <1>2, QuietStep DEF Rewrites
<1>3. ASSUME NEW p \in Procs, End(p), UNCHANGED <<vfile, recorded>>,
             lossy => lossy', ~lossy' => proc[p].pc \notin {"write", "rewrite"}
      PROVE  BackupInv'
  BY <1>2, <1>3, QuietOK DEF End
<1>4. ASSUME NEW p \in Procs, NEW cmd \in Commands \ {"none"}, NEW f \in Files \cup {NoHash}, NEW d \in Versions \cup {<<>>},
             cmd \in {"increment", "backup"} => f \in Files /\ d \in Versions,
             Start(p, cmd, f, d)
      PROVE  BackupInv'
  <2> DEFINE pc == IF cmd \in {"increment", "backup"} THEN "send" ELSE "load"
             r == [Quiet EXCEPT !.cmd = cmd, !.file = f, !.data = d, !.pc = pc]
  <2>1. /\ proc[p].pc = "idle" /\ proc' = [proc EXCEPT ![p] = r]
        /\ UNCHANGED <<vfile, recorded, lossy>>
    BY <1>4 DEF Start, At
  <2>2. pc \in {"send", "load"} /\ (pc = "send" <=> cmd \in {"increment", "backup"}) /\ pc \in ProcPcs
    BY DEF ProcPcs
  <2> HIDE DEF pc
  <2>3. r \in Processes /\ r.pc = pc /\ r.cmd = cmd /\ r.file = f /\ r.data = d
    BY <2>2, QuietOK DEF Processes
  <2> HIDE DEF r
  <2>4. ProcOK(r)
    BY <1>4, <2>2, <2>3 DEF ProcOK, Rewrites, Commands
  <2>5. QED
    BY <1>2, <2>1, <2>2, <2>3, <2>4
<1>5. ASSUME NEW p \in Procs, NEW after \in {"load", "register"}, SendNext(p, after),
             after = "load" => proc[p].cmd = "increment", after = "register" => proc[p].cmd = "backup"
      PROVE  BackupInv'
  <2> DEFINE c == proc[p]
             pc == IF c.next <= NumChunks(c.data) THEN "send" ELSE after
  <2>1. c.pc = "send" /\ UNCHANGED <<vfile, recorded, lossy>>
    BY <1>5 DEF SendNext, At, historyVars
  <2>2. CASE proc' = [proc EXCEPT ![p].next = @ + 1, ![p].pc = pc]
    <3> DEFINE r == [c EXCEPT !.next = c.next + 1, !.pc = pc]
    <3>1. proc' = [proc EXCEPT ![p] = r]
      <4> DEFINE r1 == [c EXCEPT !.next = c.next + 1]
                 proc1 == [proc EXCEPT ![p] = r1]
      <4>1. proc1 = [proc EXCEPT ![p].next = @ + 1]
        BY DEF BackupTypeOK
      <4> HIDE DEF pc
      <4>2. proc' = [proc1 EXCEPT ![p].pc = pc]
        BY <2>2, <4>1
      <4>3. proc1[p] = r1 /\ DOMAIN proc1 = Procs /\ r = [r1 EXCEPT !.pc = pc]
        BY DEF BackupTypeOK
      <4> HIDE DEF r1, r
      <4>4. QED
        BY <4>2, <4>3 DEF BackupTypeOK
    <3>2. pc \in {"send", "load", "register"} /\ (pc # "send" => pc = after) /\ pc \in ProcPcs
      BY DEF ProcPcs
    <3> HIDE DEF c, pc
    <3>3. c \in Processes /\ ProcOK(c)
      BY <1>0 DEF c
    <3>4. r \in Processes /\ r.pc = pc /\ r.cmd = c.cmd /\ r.file = c.file /\ r.data = c.data
      <4>1. PICK n \in Nat : n = c.next + 1
        BY <3>3 DEF Processes
      <4>2. r = [c EXCEPT !.next = n, !.pc = pc]
        BY <4>1
      <4> HIDE DEF r
      <4>3. QED
        BY <3>2, <3>3, <4>2 DEF Processes
    <3> HIDE DEF r
    <3>5. ProcOK(r)
      BY <1>5, <2>1, <3>2, <3>3, <3>4 DEF ProcOK, Rewrites, c
    <3>6. QED
      BY <1>2, <2>1, <3>1, <3>2, <3>4, <3>5 DEF c
  <2>3. CASE End(p)
    BY <1>3, <2>1, <2>3
  <2>4. QED
    BY <1>5, <2>2, <2>3 DEF SendNext
<1>6. ASSUME NEW p \in Procs, Register(p) PROVE BackupInv'
  <2> DEFINE c == proc[p]
  <2>1. c.pc = "register" /\ UNCHANGED <<vfile, recorded, lossy>>
    BY <1>6 DEF Register, At, historyVars
  <2>2. CASE mfile' = Empty /\ Goto(p, "write meta")
    <3> DEFINE r == [c EXCEPT !.pc = "write meta"]
    <3>1. proc' = [proc EXCEPT ![p] = r] /\ c \in Processes /\ ProcOK(c)
      BY <1>0, <2>2 DEF Goto, BackupTypeOK
    <3> HIDE DEF c
    <3>2. r \in Processes /\ r.pc = "write meta" /\ r.cmd = c.cmd /\ r.file = c.file /\ r.data = c.data
      BY <3>1 DEF Processes, ProcPcs
    <3>3. ProcOK(r)
      BY <2>1, <3>1, <3>2 DEF ProcOK, Rewrites, c
    <3>5. QED
      BY <1>2, <2>1, <3>1, <3>2, <3>3 DEF c
  <2>3. CASE UNCHANGED mfile /\ End(p)
    BY <1>3, <2>1, <2>3
  <2>4. QED
    BY <1>6, <2>2, <2>3 DEF Register
<1>7. ASSUME NEW p \in Procs, WriteMeta(p) \/ LoadMeta(p) PROVE BackupInv'
  <2>1. proc[p].pc \in {"write meta", "load meta"} /\ UNCHANGED <<vfile, recorded, lossy>> /\ End(p)
    BY <1>7 DEF WriteMeta, LoadMeta, At, historyVars
  <2>2. QED
    BY <1>3, <2>1
<1>10. ASSUME NEW p \in Procs, Kill(p) PROVE BackupInv'
  <2>1. UNCHANGED <<vfile, recorded>> /\ End(p) /\ lossy' = (lossy \/ Writing(p))
    BY <1>10 DEF Kill
  <2>2. QED
    BY <1>3, <2>1, RewritingIs
<1>11. QED
  <2>1. ASSUME NEW p \in Procs, CommandStep(p) PROVE BackupInv'
    BY <1>5, <1>6, <1>7, <2>1, LoadInv, OpenInv, WriteInv DEF CommandStep, SendIncrement, SendBackup
  <2>2. ASSUME NEW p \in Procs, NEW cmd \in {"increment", "backup"}, NEW f \in Files, NEW d \in Datas, Start(p, cmd, f, d)
        PROVE  BackupInv'
    BY <1>4, <2>2 DEF Versions, Commands
  <2>3. ASSUME NEW p \in Procs, NEW cmd \in {"prune", "gc", "stats", "version"}, Start(p, cmd, NoHash, <<>>)
        PROVE  BackupInv'
    BY <1>4, <2>3 DEF Commands
  <2>4. QED
    BY <1>10, <2>1, <2>2, <2>3 DEF BackupNext

LEMMA BackupInvHolds == StorageSpec => []BackupInv
<1>1. StorageInit => BackupInv
  <2> SUFFICES ASSUME BackupInit PROVE BackupInv
    BY DEF StorageInit
  <2>1. [f \in Files |-> History] \in VersionMaps
    <3>1. History \in Seq(Versions)
      BY BackupAssumption DEF Versions
    <3>2. QED
      BY <3>1 DEF VersionMaps
  <2>2. \A p \in Procs : proc[p] = Quiet
    BY DEF BackupInit
  <2>3. \/ vfile = Empty /\ recorded = {}
        \/ /\ vfile = Whole([f \in Files |-> History])
           /\ recorded = Files \X Range(History)
    BY FileCases DEF BackupInit
  <2>4. BackupTypeOK
    BY <2>1, <2>3, FileCases, QuietOK DEF BackupInit, BackupTypeOK, VersionFiles, Versions
  <2>6. recorded # {} => vfile.state = "whole" /\ Holds(vfile.store)
    BY <2>3, FileCases DEF Holds
  <2>7. FileInv
    BY <2>2, <2>6, QuietOK, RewritingIs DEF FileInv, Rewrites
  <2>8. QED
    BY <2>4, <2>7 DEF BackupInv
<1>2. BackupInv /\ [StorageNext]_storageVars => BackupInv'
  <2> SUFFICES ASSUME BackupInv, [StorageNext]_storageVars PROVE BackupInv'
    OBVIOUS
  <2>1. [BackupNext]_backupVars
    BY BackupStep DEF storageVars
  <2>2. CASE BackupNext
    BY <2>2, BackupInvStep
  <2>3. CASE UNCHANGED backupVars
    <3>1. UNCHANGED <<vfile, proc, recorded, lossy>>
      BY <2>3 DEF backupVars, historyVars
    <3>2. ASSUME NEW p \in Procs PROVE ProcOK(proc[p])'
      <4>1. ProcOK(proc[p]) /\ proc'[p] = proc[p]
        BY <3>1 DEF BackupInv, BackupTypeOK
      <4>2. ProcOK(proc'[p])
        BY <4>1
      <4>3. QED
        BY <4>2 DEF ProcOK
    <3>3. QED
      BY <3>1, <3>2 DEF BackupInv, BackupTypeOK, FileInv, Holds, Rewriting, Writing
  <2>4. QED
    BY <2>1, <2>2, <2>3
<1>3. QED
  BY <1>1, <1>2, PTL DEF StorageSpec

\* No snapshot whose command reported success disappears from the version file, for any
\* number of processes, files and commands, unless two rewrites overlapped, one was cut
\* short or a prune left as many as it was told to keep (version.rs, create_snapshot, save_if_dirty and flush; command.rs).
THEOREM SnapshotsStay == StorageSpec => []SnapshotsSurvive
<1>1. BackupInv => SnapshotsSurvive
  BY DEF BackupInv, FileInv, Holds, SnapshotsSurvive
<1>2. QED
  BY <1>1, BackupInvHolds, PTL

=============================================================================
