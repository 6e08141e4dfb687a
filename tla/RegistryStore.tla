--------------------------- MODULE RegistryStore ----------------------------
(***************************************************************************)
(* RegistryServer of crates/vpn/src/registry/center.rs: threads that        *)
(* register, upsert and touch names concurrently, each saving the whole     *)
(* registry inline, with I/O errors, crashes and reloading.                 *)
(*                                                                         *)
(* A step is what happens between two points where other threads may run:   *)
(* a block under one lock, an access to the atomic dirty, a system call.    *)
(***************************************************************************)
EXTENDS Naturals, FiniteSets

CONSTANTS
    Threads,
    Names,
    Nodes,    \* node ids
    Requests, \* the requests of clients: <<operation, name, node id>>
    NoEntry,  \* no entry in a map
    IOErrors, \* TRUE: creating, opening and writing the file may fail
    MaxTime,  \* bound: now_secs()
    MaxOps,   \* bound: operations begun
    MaxCrash  \* bound: crashes

Kinds == {"register", "upsert", "heartbeat"}
Entry == [id : Nodes, seen : Nat]   \* RegistryEntry; seen is last_seen

ASSUME NoEntryAssumption == NoEntry \notin Names \cup Nodes \cup Entry
ASSUME RequestAssumption == Requests \subseteq Kinds \X Names \X Nodes
ASSUME StoreBoundAssumption == MaxTime \in Nat /\ MaxOps \in Nat /\ MaxCrash \in Nat

Locks == {"names", "reverse"}

\* RegistryData.
Registry == [names : [Names -> Entry \cup {NoEntry}], reverse : [Nodes -> Names \cup {NoEntry}]]
NoData == [names |-> [n \in Names |-> NoEntry], reverse |-> [i \in Nodes |-> NoEntry]]

\* An operation in progress: where it is, its arguments and its locals, the id
\* that upsert replaced and the copy that save_to_file writes.
Call(k, n, i) == [pc |-> "names", kind |-> k, name |-> n, id |-> i, old |-> NoEntry, snap |-> NoData]
Idle == [pc |-> "idle", kind |-> "none", name |-> NoEntry, id |-> NoEntry, old |-> NoEntry, snap |-> NoData]

VARIABLES
    data,    \* the maps names and reverse
    dirty,
    locked,  \* lock -> {<<t, mode>>}: t holds it from one step to the next
    call,    \* the operation of each thread
    file,    \* what is in db_path: data, or a kind of file without
    now,
    ops, crashes,
    raced,   \* history: a save began, or the data changed, while another save ran
    suspect  \* history: names whose update another update or a save cut in two

boundVars == <<now, ops, crashes>>
historyVars == <<raced, suspect>>
storeVars == <<data, dirty, locked, call, file, boundVars, historyVars>>

Saved(d) == [kind |-> "data", data |-> d]
NoFile == [kind |-> "empty", data |-> NoData]   \* missing or truncated
Torn == [kind |-> "torn", data |-> NoData]      \* not JSON

StoreInit ==
    /\ data = NoData
    /\ dirty = FALSE
    /\ locked = [l \in Locks |-> {}]
    /\ call = [t \in Threads |-> Idle]
    /\ file = NoFile
    /\ now = 0 /\ ops = 0 /\ crashes = 0
    /\ raced = FALSE /\ suspect = {}

MayRead(l) == \A h \in locked[l] : h[2] # "write"
MayWrite(l) == locked[l] = {}

At(t, where) == call[t].pc = where
GoTo(t, where) == call' = [call EXCEPT ![t].pc = where]
Return(t) == call' = [call EXCEPT ![t] = Idle]

\* A thread other than t is in one of these places of save_if_dirty.
SaveAt(t, places) == \E u \in Threads \ {t} : call[u].pc \in places

\* t changes the data after another thread has copied it and before that one clears
\* the mark.
ChangedBehindCopy(t) == raced' = (raced \/ SaveAt(t, {"open", "write", "clear"}))

-----------------------------------------------------------------------------
(* register, upsert and update_heartbeat.                                   *)

Begin(t) ==
    /\ At(t, "idle")
    /\ ops < MaxOps
    /\ ops' = ops + 1
    /\ \E r \in Requests : call' = [call EXCEPT ![t] = Call(r[1], r[2], r[3])]
    /\ UNCHANGED <<data, dirty, locked, file, now, crashes, historyVars>>

\* The entry of the name that t's operation is about.
Present(t) == data.names[call[t].name]

\* register finds the name taken, update_heartbeat does not find it.
Rejected(t) ==
    \/ call[t].kind = "register" /\ Present(t) # NoEntry
    \/ call[t].kind = "heartbeat" /\ Present(t) = NoEntry

Refuse(t) ==
    /\ At(t, "names")
    /\ MayWrite("names")
    /\ Rejected(t)
    /\ Return(t)
    /\ UNCHANGED <<data, dirty, locked, file, boundVars, historyVars>>

\* n is between the two steps of an update by a thread other than t.
Halfway(t, n) == \E u \in Threads \ {t} : At(u, "reverse") /\ call[u].name = n

\* The block of register and upsert under the lock on names.
ChangeNames(t) ==
    LET c == call[t]
        old == IF c.kind = "upsert" /\ Present(t) # NoEntry THEN Present(t).id ELSE NoEntry
    IN  /\ At(t, "names")
        /\ c.kind # "heartbeat"
        /\ MayWrite("names")
        /\ ~ Rejected(t)
        /\ data' = [data EXCEPT !.names[c.name] = [id |-> c.id, seen |-> now]]
        /\ call' = [call EXCEPT ![t].pc = "reverse", ![t].old = old]
        /\ suspect' = suspect \cup {n \in {c.name} : Halfway(t, n)}
        /\ ChangedBehindCopy(t)
        /\ UNCHANGED <<dirty, file, boundVars>>

UpdateNames(t) ==
    /\ ChangeNames(t)
    /\ UNCHANGED locked

Touch(t) ==
    /\ At(t, "names")
    /\ call[t].kind = "heartbeat"
    /\ MayWrite("names")
    /\ ~ Rejected(t)
    /\ data' = [data EXCEPT !.names[call[t].name].seen = now]
    /\ GoTo(t, "dirty")
    /\ ChangedBehindCopy(t)
    /\ UNCHANGED <<dirty, locked, file, boundVars, suspect>>

\* Mutant of NewReverse: the old id keeps the name.
NewReverseKept(t) == [data.reverse EXCEPT ![call[t].id] = call[t].name]

\* The id that upsert replaced loses its name, the new one gets it.
NewReverse(t) ==
    [i \in Nodes |-> IF i = call[t].id THEN call[t].name
                     ELSE IF i = call[t].old THEN NoEntry ELSE data.reverse[i]]

UpdateReverse(t) ==
    /\ At(t, "reverse")
    /\ MayWrite("reverse")
    /\ data' = [data EXCEPT !.reverse = NewReverse(t)]
    /\ GoTo(t, "dirty")
    /\ ChangedBehindCopy(t)
    /\ UNCHANGED <<dirty, locked, file, boundVars, suspect>>

SetDirty(t) ==
    /\ At(t, "dirty")
    /\ dirty' = TRUE
    /\ GoTo(t, "check")
    /\ UNCHANGED <<data, locked, file, boundVars, historyVars>>

\* save_if_dirty: another thread may have cleared the flag in between.
CheckDirty(t) ==
    /\ At(t, "check")
    /\ IF dirty THEN GoTo(t, "lock") ELSE Return(t)
    /\ raced' = (raced \/ (dirty /\ SaveAt(t, {"lock", "copy", "open", "write", "clear"})))
    /\ UNCHANGED <<data, dirty, locked, file, boundVars, suspect>>

-----------------------------------------------------------------------------
(* save_to_file.                                                            *)

CopyNames(t) ==
    /\ At(t, "lock")
    /\ MayRead("names")
    /\ call' = [call EXCEPT ![t].pc = "copy", ![t].snap.names = data.names]
    /\ UNCHANGED <<data, dirty, file, boundVars, historyVars>>

LockNames(t) ==
    /\ CopyNames(t)
    /\ locked' = [locked EXCEPT !["names"] = @ \cup {<<t, "read">>}]

CopyReverse(t) ==
    /\ At(t, "copy")
    /\ call' = [call EXCEPT ![t].pc = "open", ![t].snap.reverse = data.reverse]
    /\ locked' = [locked EXCEPT !["names"] = @ \ {<<t, "read">>}]
    /\ suspect' = suspect \cup {n \in Names : Halfway(t, n)}
    /\ UNCHANGED <<data, dirty, file, boundVars, raced>>

\* Mutant of Copy: the lock on names is asked for again, to write.
CopyRelock(t) ==
    /\ MayWrite("names")
    /\ CopyReverse(t)

\* reverse is copied under its lock, and both locks are released.
Copy(t) ==
    /\ MayRead("reverse")
    /\ CopyReverse(t)

\* fs::write opens the file, which truncates it ...
Open(t) ==
    /\ At(t, "open")
    /\ file' = NoFile
    /\ GoTo(t, "write")
    /\ UNCHANGED <<data, dirty, locked, boundVars, historyVars>>

Size(d) ==
    Cardinality({n \in Names : d.names[n] # NoEntry}) + Cardinality({i \in Nodes : d.reverse[i] # NoEntry})

\* What writing d from the start leaves of a file that another thread wrote after
\* it had been truncated: the end of longer data stays behind.
Overwritten(d) ==
    CASE file.kind = "empty" -> {Saved(d)}
      [] file.kind = "torn" -> {Saved(d), Torn}
      [] file.kind = "data" -> {IF Size(file.data) <= Size(d) THEN Saved(d) ELSE Torn}

\* ... and then writes it.
Write(t) ==
    /\ At(t, "write")
    /\ file' \in Overwritten(call[t].snap)
    /\ GoTo(t, "clear")
    /\ UNCHANGED <<data, dirty, locked, boundVars, historyVars>>

\* Mutant of AfterError: the flag is cleared although nothing was saved.
AfterErrorClean == dirty' = FALSE

\* The error is logged; the data stays dirty.
AfterError == UNCHANGED dirty

FailSave(t) ==
    /\ IOErrors
    /\ \/ At(t, "open") /\ UNCHANGED file
       \/ At(t, "write") /\ file' \in {file, Torn}
    /\ AfterError
    /\ Return(t)
    /\ UNCHANGED <<data, locked, boundVars, historyVars>>

ClearDirty(t) ==
    /\ At(t, "clear")
    /\ dirty' = FALSE
    /\ Return(t)
    /\ UNCHANGED <<data, locked, file, boundVars, historyVars>>

-----------------------------------------------------------------------------
\* The process dies and starts again.  load_from_file finds no data in a missing
\* or empty file, and leaves the registry empty if the file does not parse.
CrashAndLoad ==
    /\ crashes < MaxCrash
    /\ crashes' = crashes + 1
    /\ data' = file.data
    /\ dirty' = FALSE
    /\ locked' = [l \in Locks |-> {}]
    /\ call' = [t \in Threads |-> Idle]
    /\ raced' = FALSE
    /\ UNCHANGED <<file, now, ops, suspect>>

Tick ==
    /\ now < MaxTime
    /\ now' = now + 1
    /\ UNCHANGED <<data, dirty, locked, call, file, ops, crashes, historyVars>>

\* The steps of an operation that has begun.
Go(t) ==
    \/ Refuse(t) \/ UpdateNames(t) \/ Touch(t) \/ UpdateReverse(t) \/ SetDirty(t) \/ CheckDirty(t)
    \/ LockNames(t) \/ Copy(t) \/ Open(t) \/ Write(t) \/ FailSave(t) \/ ClearDirty(t)

StoreNext == CrashAndLoad \/ Tick \/ \E t \in Threads : Begin(t) \/ Go(t)

StoreSpec == StoreInit /\ [][StoreNext]_storeVars

\* A thread that can go on does so.
FairStoreSpec == StoreSpec /\ \A t \in Threads : WF_storeVars(Go(t))

-----------------------------------------------------------------------------
(* Properties.                                                              *)

Places == {"idle", "names", "reverse", "dirty", "check", "lock", "copy", "open", "write", "clear"}

\* No lock is held between steps but the one on names, while a save copies.
StoreTypeOK ==
    /\ data \in Registry
    /\ dirty \in BOOLEAN
    /\ locked["reverse"] = {}
    /\ locked["names"] \subseteq {<<t, "read">> : t \in {u \in Threads : At(u, "copy")}}
    /\ call \in [Threads -> [pc : Places, kind : Kinds \cup {"none"}, name : Names \cup {NoEntry},
                             id : Nodes \cup {NoEntry}, old : Nodes \cup {NoEntry}, snap : Registry]]
    /\ file \in [kind : {"data", "empty", "torn"}, data : Registry]
    /\ now \in 0..MaxTime /\ ops \in 0..MaxOps /\ crashes \in 0..MaxCrash
    /\ raced \in BOOLEAN
    /\ suspect \subseteq Names

\* The two maps agree once an update is through: a node answers to a name only
\* if the name is its own, unless another update of the name, or a save, fell
\* between the two steps of an update (names and reverse have locks of their
\* own).
ReverseAgrees ==
    \A i \in Nodes, n \in Names :
        data.reverse[i] = n /\ data.names[n].id # i =>
            n \in suspect \/ \E t \in Threads : At(t, "reverse") /\ call[t].name = n

\* When no operation is in progress and the data is not marked dirty, a restart
\* brings all of it back, whatever saves failed at whichever step, wherever the
\* process died before, and however the steps of the operations mix; as long as no
\* save began, and nothing changed, while another save was under way (a second save
\* may then fail after the first has cleared the mark, or the first clears the mark of
\* a change that it did not copy).
CleanMeansSaved ==
    (\A t \in Threads : At(t, "idle")) /\ ~ dirty /\ ~ raced => file.data = data

\* Operations return: save_to_file, which takes both locks, is called with none
\* held (the deadlock that center.rs:235 says is fixed).
OperationsReturn == \A t \in Threads : ~ At(t, "idle") ~> At(t, "idle")
=============================================================================
