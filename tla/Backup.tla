------------------------------- MODULE Backup -------------------------------
(***************************************************************************)
(* The storage commands of `ll` (vpn/command.rs) with VersionManager        *)
(* (storage/version.rs), GarbageCollector (storage/gc.rs) and the part of   *)
(* MetadataStore (storage/metadata.rs) they use.  Every command is a        *)
(* process of its own; what two of them share is the version file and the   *)
(* metadata file, which are read and rewritten as a whole, and unlocked.    *)
(* fs::write empties a file before it writes to it.                         *)
(***************************************************************************)
EXTENDS ChunkDiff

CONSTANTS
    Procs, Files,
    Datas,        \* contents of files
    History,      \* versions of earlier days, the same for every file
    keep,         \* the argument of `storage prune`
    MaxCommands   \* bound: commands that are run

ASSUME BackupAssumption == History \in Seq(Range(History)) /\ keep \in Nat

VARIABLES
    vfile,        \* version_store.json
    mfile,        \* metadata_store.json
    proc,         \* what each process is doing
    recorded,     \* history: the snapshots whose command reported success
    lossy,        \* history: two rewrites overlapped, or one was cut short
    pruned,       \* history: a prune was started
    commands

historyVars == <<recorded, lossy, pruned>>
backupVars == <<vfile, mfile, proc, historyVars, commands>>

NoVersions == [f \in Files |-> <<>>]

\* A file is whole, empty (missing, or just truncated) or torn.
Empty == [state |-> "empty", store |-> <<>>]
Torn == [state |-> "torn", store |-> <<>>]
Whole(s) == [state |-> "whole", store |-> s]

Quiet == [pc |-> "idle", cmd |-> "none", file |-> NoHash, data |-> <<>>, next |-> 1, store |-> NoVersions]

BackupInit ==
    /\ vfile \in {Empty, Whole([f \in Files |-> History])}
    /\ mfile = Empty
    /\ proc = [p \in Procs |-> Quiet]
    /\ recorded = IF vfile = Empty THEN {} ELSE Files \X Range(History)
    /\ lossy = FALSE /\ pruned = FALSE
    /\ commands = 0

At(p, pc) == proc[p].pc = pc
Goto(p, pc) == proc' = [proc EXCEPT ![p].pc = pc]
End(p) == proc' = [proc EXCEPT ![p] = Quiet]

\* execute_cmd: one of the commands starts.
Start(p, cmd, f, d) ==
    /\ commands < MaxCommands
    /\ commands' = commands + 1
    /\ At(p, "idle")
    /\ proc' = [proc EXCEPT ![p] = [Quiet EXCEPT !.cmd = cmd, !.file = f, !.data = d,
                                       !.pc = IF cmd \in {"increment", "backup"} THEN "send" ELSE "load"]]
    /\ pruned' = (pruned \/ cmd = "prune")
    /\ UNCHANGED <<vfile, mfile, recorded, lossy>>

\* The chunks and then the manifest are sent; a send that fails ends the command.
SendNext(p, after) ==
    LET c == proc[p]
    IN  /\ At(p, "send")
        /\ \/ End(p)
           \/ proc' = [proc EXCEPT ![p].next = @ + 1,
                                   ![p].pc = IF c.next <= NumChunks(c.data) THEN "send" ELSE after]
        /\ UNCHANGED <<vfile, mfile, historyVars, commands>>

\* execute_increment and execute_backup
SendIncrement(p) == proc[p].cmd = "increment" /\ SendNext(p, "load")
SendBackup(p) == proc[p].cmd = "backup" /\ SendNext(p, "register")

Writing(q) == proc[q].pc \in {"write", "rewrite"}

\* q has read the version file and will write it.
Rewriting(q) == Writing(q) \/ proc[q].pc \in {"save", "flush"}

\* Mutant of LoadFromFile: new_default instead of load_from_file.
LoadFromFileNew(file) == NoVersions

\* load_from_file, for a file that can be parsed.
LoadFromFile(file) == IF file.state = "empty" THEN NoVersions ELSE file.store

\* prune: the newest max_versions entries of a file stay; the newest is the first.
Prune(vs) == SubSeq(vs, 1, Min({keep, Len(vs)}))

\* create_snapshot
CreateSnapshot(c, s) == [c EXCEPT !.pc = "save", !.store = [s EXCEPT ![c.file] = <<c.data>> \o @]]

PruneAll(s) == [f \in Files |-> Prune(s[f])]

\* prune_all_versions sets dirty under its lock and calls save_if_dirty, which
\* waits for that lock, if there was something to prune.
PruneAllVersions(c, s) == [c EXCEPT !.pc = IF PruneAll(s) # s THEN "own lock" ELSE "flush", !.store = PruneAll(s)]

\* execute_storage_gc, execute_storage_stats and execute_version
GoOnToMetadata(c, s) == [c EXCEPT !.pc = "load meta", !.store = s]
ShowVersions == Quiet

\* What the command does with the versions it has read.
AfterLoad(c, s) ==
    CASE c.cmd = "increment" -> CreateSnapshot(c, s)
      [] c.cmd = "prune" -> PruneAllVersions(c, s)
      [] c.cmd \in {"gc", "stats"} -> GoOnToMetadata(c, s)
      [] c.cmd = "version" -> ShowVersions

\* A file that is being written may be read in part, which is an error.
Load(p) ==
    /\ At(p, "load")
    /\ \/ /\ vfile.state # "torn"
          /\ proc' = [proc EXCEPT ![p] = AfterLoad(@, LoadFromFile(vfile))]
       \/ /\ vfile.state = "torn" \/ \E q \in Procs : Writing(q)
          /\ End(p)
    /\ lossy' = (lossy \/ (proc[p].cmd \in {"increment", "prune"} /\ \E q \in Procs \ {p} : Rewriting(q)))
    /\ UNCHANGED <<vfile, mfile, recorded, pruned, commands>>

\* fs::write of the version file in save_if_dirty ("save", then "write") and in
\* flush ("flush", then "rewrite"): first it is emptied.  Only flush reports errors.
OpenVersions(p) ==
    /\ proc[p].pc \in {"save", "flush"}
    /\ \/ /\ vfile' = Empty
          /\ Goto(p, IF At(p, "save") THEN "write" ELSE "rewrite")
       \/ /\ UNCHANGED vfile
          /\ IF At(p, "save") THEN Goto(p, "flush") ELSE End(p)
    /\ UNCHANGED <<mfile, historyVars, commands>>

\* Then it is written: over what another process wrote since, or only in part.
WriteVersions(p) ==
    LET c == proc[p]
    IN  /\ Writing(p)
        /\ \/ /\ vfile' \in {Whole(c.store)} \cup (IF vfile.state = "empty" THEN {} ELSE {Torn})
              /\ recorded' = IF c.pc = "rewrite" /\ c.cmd = "increment"
                             THEN recorded \cup {<<c.file, c.data>>} ELSE recorded
              /\ UNCHANGED lossy
           \/ vfile' = Torn /\ lossy' = TRUE /\ UNCHANGED recorded
        /\ IF c.pc = "write" THEN Goto(p, "flush") ELSE End(p)
        /\ UNCHANGED <<mfile, pruned, commands>>

\* execute_backup: a store that was never loaded gets the one entry and is saved,
\* and an error while it is saved is only logged.
Register(p) ==
    /\ At(p, "register")
    /\ \/ mfile' = Empty /\ Goto(p, "write meta")
       \/ UNCHANGED mfile /\ End(p)
    /\ UNCHANGED <<vfile, historyVars, commands>>

WriteMeta(p) ==
    /\ At(p, "write meta")
    /\ mfile' \in {Whole(Range(ChunksOf(proc[p].data))), Torn}
    /\ End(p)
    /\ UNCHANGED <<vfile, historyVars, commands>>

\* gc and stats read the metadata too, or fail to; they only report.
LoadMeta(p) ==
    /\ At(p, "load meta")
    /\ End(p)
    /\ UNCHANGED <<vfile, mfile, historyVars, commands>>

\* A process may be killed.
Kill(p) ==
    /\ ~ At(p, "idle")
    /\ End(p)
    /\ lossy' = (lossy \/ Writing(p))
    /\ UNCHANGED <<vfile, mfile, recorded, pruned, commands>>

CommandStep(p) ==
    \/ SendIncrement(p) \/ SendBackup(p) \/ Load(p) \/ OpenVersions(p) \/ WriteVersions(p)
    \/ Register(p) \/ WriteMeta(p) \/ LoadMeta(p)

BackupNext ==
    \/ \E p \in Procs, cmd \in {"increment", "backup"}, f \in Files, d \in Datas : Start(p, cmd, f, d)
    \/ \E p \in Procs, cmd \in {"prune", "gc", "stats", "version"} : Start(p, cmd, NoHash, <<>>)
    \/ \E p \in Procs : CommandStep(p) \/ Kill(p)

\* A snapshot whose increment reported success stays in the version file, or a prune
\* made it give way and left as many as it was told to keep: as long as no two
\* commands had the file in hand at once and no rewrite of it was cut short, sends
\* that fail, errors that are ignored and commands that are killed elsewhere lose
\* nothing.
SnapshotsSurvive ==
    \/ lossy
    \/ \E p \in Procs : Writing(p)
    \/ \A s \in recorded :
          /\ vfile.state = "whole"
          /\ s[2] \in Range(vfile.store[s[1]]) \/ (pruned /\ Len(vfile.store[s[1]]) >= keep)

\* Every command ends: it does what it has to do, and says so or reports an error.
CommandsEnd == \A p \in Procs : ~ At(p, "idle") ~> At(p, "idle")
=============================================================================
