------------------------------ MODULE Storage -------------------------------
(***************************************************************************)
(* The storage crate as one specification.  Its components share no state   *)
(* at run time (they share the chunker and the comparison of ChunkDiff), so *)
(* an interleaving of two of them shows nothing that either does not show   *)
(* alone: part says which one a behaviour is about, and the others rest.    *)
(***************************************************************************)
EXTENDS IncrementalSync, Backup, MetadataSync

VARIABLE part

storageVars == <<part, syncVars, backupVars, metaVars>>

StorageInit ==
    /\ part \in {"sync", "backup", "metadata"}
    /\ SyncInit /\ BackupInit /\ MetaInit

StorageNext ==
    \/ part = "sync" /\ SyncNext /\ UNCHANGED <<part, backupVars, metaVars>>
    \/ part = "backup" /\ BackupNext /\ UNCHANGED <<part, syncVars, metaVars>>
    \/ part = "metadata" /\ MetaNext /\ UNCHANGED <<part, syncVars, backupVars>>

\* A command that has something to do goes on, unless it is killed.
StorageFairness ==
    \A p \in Procs : WF_storageVars(part = "backup" /\ CommandStep(p) /\ UNCHANGED <<part, syncVars, metaVars>>)

StorageSpec == StorageInit /\ [][StorageNext]_storageVars /\ StorageFairness
=============================================================================
