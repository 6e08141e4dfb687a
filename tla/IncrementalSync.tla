-------------------------- MODULE IncrementalSync ---------------------------
(***************************************************************************)
(* IncrementalSync (storage/incremental.rs): sync_file uploads the changed  *)
(* chunks of a file to a node, download_file fetches the missing ones; and  *)
(* execute_restore (vpn/command.rs), which fetches all of them without      *)
(* saying which one it wants.  Several threads work on one file name.       *)
(*                                                                         *)
(* The receiving node is not in the repository: it keeps the last manifest  *)
(* and the last chunk of each index it was sent, and answers requests.      *)
(***************************************************************************)
EXTENDS ChunkDiff

CONSTANTS
    Targets, Callers,
    Contents,      \* what users put into the file
    MaxSyncCalls   \* bound: calls and edits

\* What the file may hold once writes to it were cut short or got mixed up.
FileData == Seq(UNION {Range(d) : d \in Contents})

ASSUME ContentsAssumption ==
    /\ \A d \in Contents : d \in Seq(Range(d)) /\ d # <<>>
    /\ NoHash \notin FileData

VARIABLES
    local,       \* the file at local_path
    sync_state,  \* last_synced_hash
    manifests,   \* target -> the manifest it keeps
    blocks,      \* target -> the chunks it keeps, by their index
    call,        \* what each caller is doing
    damaged,     \* history: targets whose chunks may not belong together
    uploaded,    \* history: what uploads and backups read
    torn,        \* history: the last write of the file was cut short or overlapped another
    sync_calls

fileVars == <<local, torn>>
remoteVars == <<manifests, blocks, damaged>>
syncVars == <<fileVars, sync_state, remoteVars, call, uploaded, sync_calls>>

NewCall(op, pc, t, data, todo) ==
    [op |-> op, pc |-> pc, target |-> t, data |-> data, manifest |-> EmptyManifest, todo |-> todo, got |-> <<>>]
Resting == NewCall("none", "idle", NoHash, <<>>, {})

SyncInit ==
    /\ local \in Contents
    /\ sync_state = NoHash
    /\ manifests = [t \in Targets |-> EmptyManifest]
    /\ blocks = [t \in Targets |-> <<>>]
    /\ call = [w \in Callers |-> Resting]
    /\ damaged = {} /\ uploaded = {} /\ torn = FALSE
    /\ sync_calls = 0

SyncEvent == sync_calls < MaxSyncCalls /\ sync_calls' = sync_calls + 1

Doing(w, op, pc) == call[w].op = op /\ call[w].pc = pc
Return(w) == call' = [call EXCEPT ![w] = Resting]

\* Uploads to t that have its manifest and are not through.
Uploading(t) == {w \in Callers : Doing(w, "upload", "send") /\ call[w].target = t}

\* Calls that have emptied the file and have not written to it yet.
Overwriting == {w \in Callers : call[w].pc = "write"}

EditLocal ==
    /\ SyncEvent
    /\ local' \in Contents \ {local}
    /\ torn' = (Overwriting # {})
    /\ UNCHANGED <<sync_state, remoteVars, call, uploaded>>

\* needs_sync, and the quick check of sync_file.
NeedsSync(data) == sync_state # data

\* sync_file: the file is read, and nothing more is done if it is the one that
\* was synchronised last, to whatever node.
SyncFile(w, t) ==
    /\ SyncEvent
    /\ call[w].pc = "idle"
    /\ NeedsSync(local)
    /\ call' = [call EXCEPT ![w] = NewCall("upload", "asked", t, local, {})]
    /\ uploaded' = uploaded \cup {local}
    /\ UNCHANGED <<fileVars, sync_state, remoteVars>>

Ask(w, t, op) ==
    /\ SyncEvent
    /\ call[w].pc = "idle"
    /\ call' = [call EXCEPT ![w] = NewCall(op, "asked", t, <<>>, {})]
    /\ UNCHANGED <<fileVars, sync_state, remoteVars, uploaded>>

DownloadFile(w, t) == Ask(w, t, "download")
RestoreFile(w, t) == Ask(w, t, "restore")

\* execute_backup sends all chunks, encrypted under a key that is then forgotten.
BackupFile(w, t) ==
    /\ SyncEvent
    /\ call[w].pc = "idle"
    /\ call' = [call EXCEPT ![w] = NewCall("backup", "send", t, local, 1..NumChunks(local))]
    /\ damaged' = damaged \cup {t}
    /\ uploaded' = uploaded \cup {local}
    /\ UNCHANGED <<fileVars, sync_state, manifests, blocks>>

\* Encryptor: the ciphertext is longer than the plaintext by the tag.
Tag == 0
Encrypt(chunk) == Append(chunk, Tag)

\* What w does next with manifest m: an upload sends what differs, a download
\* fetches what the local file does not have, a restore fetches everything.
WithManifest(w, m) ==
    LET c == call[w]
        wanted == DOMAIN m.chunks
        have == {i \in wanted \cap DOMAIN ChunksOf(local) : ChunkOf(local, i) = m.chunks[i]}
    IN  CASE c.op = "upload" -> [c EXCEPT !.pc = "send", !.manifest = m, !.todo = DiffFiles(m, c.data)]
          [] c.op = "download" -> [c EXCEPT !.pc = "fetch", !.manifest = m, !.todo = wanted \ have,
                                            !.got = [i \in wanted |-> IF i \in have THEN m.chunks[i] ELSE <<>>]]
          [] c.op = "restore" -> [c EXCEPT !.pc = "fetch", !.manifest = m, !.todo = wanted,
                                           !.got = [i \in wanted |-> <<>>]]

Has(t) == manifests[t] # EmptyManifest

\* A tagged answer with the manifest.
AnswerManifest(w) ==
    /\ call[w].pc = "asked"
    /\ Has(call[w].target)
    /\ call' = [call EXCEPT ![w] = WithManifest(w, manifests[call[w].target])]
    /\ damaged' = IF call[w].op = "upload" /\ Uploading(call[w].target) # {}
                  THEN damaged \cup {call[w].target} ELSE damaged
    /\ UNCHANGED <<fileVars, sync_state, manifests, blocks, uploaded, sync_calls>>

\* An answer that there is none has no tag: it reaches every listener for this
\* file name, whoever it asked.
AnswerNone(t) ==
    LET takers == {w \in Callers : call[w].pc = "asked" /\ call[w].op # "restore"}
    IN  /\ ~ Has(t)
        /\ \E w \in takers : call[w].target = t
        /\ call' = [w \in Callers |-> IF w \in takers THEN WithManifest(w, EmptyManifest) ELSE call[w]]
        /\ damaged' = damaged \cup {call[w].target : w \in {v \in takers :
                         /\ call[v].op = "upload"
                         /\ \/ Uploading(call[v].target) # {}
                            \/ \E u \in takers \ {v} : call[u].op = "upload" /\ call[u].target = call[v].target}}
        /\ UNCHANGED <<fileVars, sync_state, manifests, blocks, uploaded, sync_calls>>

\* The timeouts, a send that returns an error, a file that cannot be opened.
CallFails(w) ==
    /\ call[w].pc \notin {"idle", "write"}
    /\ Return(w)
    /\ damaged' = IF Doing(w, "upload", "send") /\ call[w].todo # DiffFiles(call[w].manifest, call[w].data)
                  THEN damaged \cup {call[w].target} ELSE damaged
    /\ UNCHANGED <<fileVars, sync_state, manifests, blocks, uploaded, sync_calls>>

\* The chunks are sent and fetched in the order of the indices.
IsNext(i, todo) == i \in todo /\ \A j \in todo : i <= j

\* The node puts a chunk in the place of the one it has.
Keep(chunks, i, chunk) == [j \in DOMAIN chunks \cup {i} |-> IF j = i THEN chunk ELSE chunks[j]]

\* send_block; the block may get lost.
SendBlock(w) ==
    LET c == call[w]
    IN  \E i \in c.todo :
            /\ c.pc = "send" /\ IsNext(i, c.todo)
            /\ call' = [call EXCEPT ![w].todo = @ \ {i}]
            /\ \/ /\ blocks' = [blocks EXCEPT ![c.target] = Keep(@, i,
                                   IF c.op = "backup" THEN Encrypt(ChunkOf(c.data, i)) ELSE ChunkOf(c.data, i))]
                  /\ UNCHANGED damaged
               \/ damaged' = damaged \cup {c.target} /\ UNCHANGED blocks
            /\ UNCHANGED <<fileVars, sync_state, manifests, uploaded, sync_calls>>

\* send_manifest, which may get lost too.
SendManifest(w) ==
    LET c == call[w]
    IN  /\ c.pc = "send" /\ c.todo = {}
        /\ IF c.op = "upload" THEN call' = [call EXCEPT ![w].pc = "record"] ELSE Return(w)
        /\ \/ manifests' = [manifests EXCEPT ![c.target] = Manifest(c.data)] /\ UNCHANGED damaged
           \/ damaged' = damaged \cup {c.target} /\ UNCHANGED manifests
        /\ UNCHANGED <<fileVars, sync_state, blocks, uploaded, sync_calls>>

\* SyncStateStore keeps one digest per file name, whatever the target.
UpdateSyncState(hash) == sync_state' = hash

\* The sync state is updated.
RecordSync(w) ==
    /\ call[w].pc = "record"
    /\ UpdateSyncState(call[w].data)
    /\ Return(w)
    /\ UNCHANGED <<fileVars, remoteVars, uploaded, sync_calls>>

\* request_block; the chunk is not compared with the manifest.  A restore gets any.
Answers(c, i) ==
    {blocks[c.target][j] : j \in {k \in DOMAIN blocks[c.target] : c.op = "restore" \/ k = i}}

FetchBlock(w) ==
    LET c == call[w]
    IN  \E i \in c.todo :
            /\ c.pc = "fetch" /\ IsNext(i, c.todo)
            /\ \E b \in Answers(c, i) : call' = [call EXCEPT ![w].todo = @ \ {i}, ![w].got[i] = b]
            /\ UNCHANGED <<fileVars, sync_state, remoteVars, uploaded, sync_calls>>

\* reassemble succeeds, and fs::write opens the file, which empties it, ...
OpenFile(w) ==
    LET c == call[w]
    IN  /\ c.pc = "fetch" /\ c.todo = {}
        /\ CanReassemble(c.manifest, c.got)
        /\ local' = <<>>
        /\ torn' = (Overwriting # {})
        /\ call' = [call EXCEPT ![w].pc = "write", ![w].data = FlattenSeq(c.got)]
        /\ UNCHANGED <<sync_state, remoteVars, uploaded, sync_calls>>

\* The first n symbols of data over what the file holds by now.
Over(file, data, n) == SubSeq(data, 1, n) \o SubSeq(file, n + 1, Len(file))

\* ... and writes to it from the start, ...
WriteFile(w) ==
    LET c == call[w]
    IN  /\ c.pc = "write"
        /\ local' = Over(local, c.data, Len(c.data))
        /\ IF c.op = "download" THEN call' = [call EXCEPT ![w].pc = "record"] ELSE Return(w)
        /\ UNCHANGED <<torn, sync_state, remoteVars, uploaded, sync_calls>>

\* ... unless the disk is full or the process ends before all is written.
WriteCutShort(w) ==
    LET c == call[w]
    IN  /\ c.pc = "write"
        /\ \E n \in 0..Len(c.data) - 1 : local' = Over(local, c.data, n)
        /\ torn' = TRUE
        /\ Return(w)
        /\ UNCHANGED <<sync_state, remoteVars, uploaded, sync_calls>>

SyncNext ==
    \/ EditLocal
    \/ \E w \in Callers, t \in Targets :
          SyncFile(w, t) \/ DownloadFile(w, t) \/ RestoreFile(w, t) \/ BackupFile(w, t)
    \/ \E w \in Callers : AnswerManifest(w) \/ CallFails(w) \/ SendBlock(w) \/ SendManifest(w)
    \/ \E w \in Callers : RecordSync(w) \/ FetchBlock(w)
    \/ \E w \in Callers : OpenFile(w) \/ WriteFile(w) \/ WriteCutShort(w)
    \/ \E t \in Targets : AnswerNone(t)

\* What a download or a restore leaves is a file that a user made or that an upload
\* found, byte for byte: never a mixture of the chunks of two versions, though the
\* chunks are fetched one by one while uploads replace them.  Only a write that was
\* cut short, or that overlapped another or an edit, leaves anything else, until the
\* next write that is not disturbed.
FileWhole == torn \/ Overwriting # {} \/ local \in Contents \cup uploaded

\* The chunks that a node keeps are those of its manifest, as long as no upload to
\* it lost a message, broke off after its first chunk or overlapped another, and no
\* encrypted backup was sent to it.  (The next upload does not repair what such an
\* upload left: it compares with the manifest and passes over chunks that differ.)
RemoteWhole ==
    \A t \in Targets \ damaged :
        Uploading(t) = {} =>
            \A i \in DOMAIN manifests[t].chunks : i \in DOMAIN blocks[t] /\ blocks[t][i] = manifests[t].chunks[i]
=============================================================================
