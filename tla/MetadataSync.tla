---------------------------- MODULE MetadataSync ----------------------------
(***************************************************************************)
(* MetadataStore (storage/metadata.rs) on several nodes that send each      *)
(* other their entries: what the stores know of one file.  An entry carries *)
(* the digest of the file and updated_at; sync_from decides by both.        *)
(* Sending all_entries is left to a caller outside the repository.          *)
(***************************************************************************)
EXTENDS Integers, FiniteSets

CONSTANTS
    Stores,
    Hashes,              \* a set of numbers: hash_entry of the file's contents
    CONFLICT_WINDOW,     \* CONFLICT_WINDOW_SECS
    MaxClock, MaxEdits   \* bounds

ASSUME MetadataAssumption == CONFLICT_WINDOW \in Nat /\ Hashes \subseteq Nat \ {0}

VARIABLES
    entry,      \* store -> its entry for the file
    exported,   \* store -> the entry it sent last
    now,        \* now_secs; the nodes' clocks agree
    edits

metaVars == <<entry, exported, now, edits>>

\* hash 0: the store has no entry.  made is history: when the contents were edited.
NoEntry == [hash |-> 0, updated_at |-> 0, made |-> 0]
MadeNow(h) == [hash |-> h, updated_at |-> now, made |-> now]
Known(e) == e.hash # 0

MetaInit ==
    /\ entry = [s \in Stores |-> NoEntry]
    /\ exported = [s \in Stores |-> NoEntry]
    /\ now = 0
    /\ edits = 0

Tick ==
    /\ now < MaxClock
    /\ now' = now + 1
    /\ UNCHANGED <<entry, exported, edits>>

Edit(s, e) ==
    /\ edits < MaxEdits
    /\ edits' = edits + 1
    /\ entry' = [entry EXCEPT ![s] = e]
    /\ UNCHANGED <<exported, now>>

\* register refuses a name that is there; upsert replaces it.
RegisterEntry(s, h) == ~ Known(entry[s]) /\ Edit(s, MadeNow(h))
Upsert(s, h) == Edit(s, MadeNow(h))

\* The file is the same, the entry is newer.
TouchEntry(s) == Known(entry[s]) /\ Edit(s, [entry[s] EXCEPT !.updated_at = now, !.made = now])
AddBlockNode(s) == TouchEntry(s)
AddBlockNodes(s) == TouchEntry(s)
MarkEncrypted(s) == TouchEntry(s)

RemoveEntry(s) == Known(entry[s]) /\ Edit(s, NoEntry)

\* all_entries, on its way to the others.
ExportEntries(s) ==
    /\ exported' = [exported EXCEPT ![s] = entry[s]]
    /\ UNCHANGED <<entry, now, edits>>

\* The decision of sync_from.
ShouldMerge(mine, remote) ==
    \/ ~ Known(mine)
    \/ remote.updated_at > mine.updated_at + CONFLICT_WINDOW
    \/ /\ mine.updated_at <= remote.updated_at + CONFLICT_WINDOW
       /\ remote.hash > mine.hash

\* sync_from: an entry that is taken over counts as updated now.
SyncFrom(s, t) ==
    /\ Known(exported[t])
    /\ ShouldMerge(entry[s], exported[t])
    /\ entry' = [entry EXCEPT ![s] = [exported[t] EXCEPT !.updated_at = now]]
    /\ UNCHANGED <<exported, now, edits>>

MetaNext ==
    \/ Tick
    \/ \E s \in Stores, h \in Hashes : RegisterEntry(s, h) \/ Upsert(s, h)
    \/ \E s \in Stores : AddBlockNode(s) \/ AddBlockNodes(s) \/ MarkEncrypted(s) \/ RemoveEntry(s)
    \/ \E s \in Stores : ExportEntries(s)
    \/ \E s \in Stores : \E t \in Stores \ {s} : SyncFrom(s, t)

\* The newest wins: what sync_from takes over in the place of an entry is no older, by
\* the time at which it was edited, than that entry, give or take the window within
\* which the greater hash wins.
NewestWins ==
    [][\A s \in Stores : \A t \in Stores \ {s} :
          SyncFrom(s, t) /\ Known(entry[s]) => exported[t].made + CONFLICT_WINDOW >= entry[s].made]_metaVars
=============================================================================
