------------------------------ MODULE Multihop ------------------------------
(***************************************************************************)
(* The routing table of crates/vpn/src/vpn/multihop.rs, as operators on a   *)
(* table: each is what one critical section of MultihopManager does.        *)
(*                                                                         *)
(* A table is the set of its entries, one for a target.  newer, the targets *)
(* whose entries have a later last_active, stands for last_active; valid is *)
(* ~ is_expired(); hop counts, metrics and connection types, which nothing  *)
(* decides upon, are left out.                                              *)
(***************************************************************************)
EXTENDS Naturals, FiniteSets, SequencesExt

CONSTANTS
    Peers,             \* the other nodes
    Closer,            \* target -> Peers by XOR distance to it, nearest first
    MAX_ROUTE_ENTRIES,
    K_CANDIDATES_MAX

ASSUME CloserAssumption ==
    \A t \in Peers : Closer[t] \in Seq(Peers) /\ Head(Closer[t]) = t /\ ToSet(Closer[t]) = Peers
ASSUME EntriesAssumption == MAX_ROUTE_ENTRIES \in Nat \ {0} /\ K_CANDIDATES_MAX \in Nat

\* gone and extended are history: the nodes that went offline since the entry was
\* made, and whether refresh_stale_routes let it live on.
Entry == [target : Peers, next_hop : Peers, candidates : Seq(Peers), valid : BOOLEAN,
          newer : SUBSET Peers, gone : SUBSET Peers, extended : BOOLEAN]

NewEntry(t, hop, others) ==
    [target |-> t, next_hop |-> hop, candidates |-> others, valid |-> TRUE,
     newer |-> {}, gone |-> {}, extended |-> FALSE]

Targets(table) == {e.target : e \in table}
EntryFor(table, t) == CHOOSE e \in table : e.target = t

\* The entries to the targets in ts are dropped.
Without(table, ts) ==
    {[e EXCEPT !.newer = @ \ ts] : e \in {f \in table : f.target \notin ts}}

RemoveRoute(table, t) == Without(table, {t})

\* routes.insert: in the place of the target's entry, if it has one.
Insert(table, new) ==
    {[e EXCEPT !.newer = @ \cup {new.target}] : e \in RemoveRoute(table, new.target)} \cup {new}

Oldest(table) == CHOOSE e \in table : Targets(table) = e.newer \cup {e.target}

\* A new target drives out the oldest entry of a full table.
InsertOrEvict(table, new) ==
    LET full == new.target \notin Targets(table) /\ Cardinality(table) >= MAX_ROUTE_ENTRIES
    IN  Insert(IF full THEN RemoveRoute(table, Oldest(table).target) ELSE table, new)

AddDirectRoute(table, t) == InsertOrEvict(table, NewEntry(t, t, <<t>>))

\* DhtManager::find_node: the known nodes, nearest to t first.
FindNode(known, t) == SelectSeq(Closer[t], LAMBDA p : p \in known)

\* discover_route fails if the table of the DHT is empty.  The nearest node it
\* knows becomes the next hop, the others its candidates.
CanDiscover(known) == known # {}
DiscoverRoute(table, known, t) ==
    LET found == FindNode(known, t)
        others == SubSeq(found, 2, Min({Len(found), 1 + K_CANDIDATES_MAX}))
    IN  InsertOrEvict(table, NewEntry(t, found[1], SelectSeq(others, LAMBDA p : p # found[1])))

\* find_route
HasRoute(table, t) == t \in Targets(table) /\ EntryFor(table, t).valid

\* find_routes_by_next_hop; expired entries count too.
TargetsVia(table, hop) == {e.target : e \in {f \in table : f.next_hop = hop}}

SetValid(table, t, valid) ==
    {IF e.target = t THEN [e EXCEPT !.valid = valid] ELSE e : e \in table}

\* Mutant of MarkInvalid: only the route to a direct neighbour is dropped.
MarkInvalidDirect(table, t) ==
    IF t \in Targets(table) /\ EntryFor(table, t).next_hop = t THEN SetValid(table, t, FALSE) ELSE table

MarkInvalid(table, t) == SetValid(table, t, FALSE)

\* find_alternative: the first candidate that is not the present next hop.
Alternatives(table, t) ==
    IF t \in Targets(table)
    THEN LET e == EntryFor(table, t) IN SelectSeq(e.candidates, LAMBDA p : p # e.next_hop)
    ELSE <<>>

FindAlternative(table, t) ==
    Insert(table, NewEntry(t, Head(Alternatives(table, t)), EntryFor(table, t).candidates))

Stale(table) == {t \in Targets(table) : ~ HasRoute(table, t)}

\* refresh_stale_routes keeps an entry that it cannot replace, and calls it valid.
Extend(table, t) ==
    {IF e.target = t THEN [e EXCEPT !.valid = TRUE, !.extended = TRUE] ELSE e : e \in table}

CleanupExpired(table) == Without(table, {e.target : e \in {f \in table : ~ f.valid}})
=============================================================================
