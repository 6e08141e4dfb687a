------------------------------ MODULE Election ------------------------------
(***************************************************************************)
(* The registry election of crates/vpn/src/registry/election.rs: one        *)
(* ElectionManager per node, exchanging ElectionRequest, ElectionVote,      *)
(* ElectionResult, RegistryChange and RegistrySync messages.                *)
(*                                                                         *)
(* The transport is the injected send_fn, of which the code assumes         *)
(* nothing.  msgs is the set of all messages ever sent; a handler reads a    *)
(* message and leaves it there, so a message may be lost (never read),      *)
(* duplicated (read twice) and reordered (read in any order).               *)
(*                                                                         *)
(* A handler of the code takes one lock per field.  It is one step here:    *)
(* the dispatcher that calls handle_message is the owner's, and it is       *)
(* assumed to hand one message at a time to a manager.                      *)
(***************************************************************************)
EXTENDS Naturals, FiniteSets

CONSTANTS
    Node,        \* the ids of the nodes
    None,        \* "no node": the None of an Option<NodeID>
    Known,       \* Known[n]: the ids in n's known_nodes
    Prefer,      \* {<<c, t, v>>}: hash(c, t) exceeds the local value of voter v
    Bootstrap,   \* the registry that every node is configured with
    Monitors,    \* the nodes whose owner watches the registry's heartbeat
    Syncs,       \* {<<n, l>>}: the owner of n may call request_sync for l
    Threshold,   \* heartbeat_miss_threshold
    MaxTerm      \* bound: no election starts once a term has reached it

ASSUME NodeAssumption == IsFiniteSet(Node) /\ None \notin Node
ASSUME KnownAssumption == Known \in [Node -> SUBSET Node]
ASSUME BootstrapAssumption == Bootstrap \in Node
ASSUME BoundAssumption == Threshold \in Nat /\ MaxTerm \in Nat

VARIABLES
    status,         \* RegistryStatus of each node
    term,           \* its current term
    voted_for,      \* whom it voted for, or None
    votes_received, \* who voted for it
    registry_id,    \* the registry it believes in, or None
    registry_addr,  \* the node whose address it holds as the registry's, or None
    missed,         \* missed_heartbeats
    serving,        \* the last value given to registry_control
    msgs            \* every message sent so far

nodeVars == <<status, term, voted_for, votes_received,
              registry_id, registry_addr, missed, serving>>
vars == <<nodeVars, msgs>>

-----------------------------------------------------------------------------
(* Messages.  "from" is the sender; names and payload data are left out.    *)

Request(c, t) == [type |-> "ElectionRequest", from |-> c, term |-> t]

Grant(v, c, t) ==
    [type |-> "ElectionVote", from |-> v, to |-> c, term |-> t, granted |-> TRUE]
Denial(v, c, t) ==
    [type |-> "ElectionVote", from |-> v, to |-> c, term |-> t, granted |-> FALSE]
Result(l, t) == [type |-> "ElectionResult", from |-> l, term |-> t]
Change(l, t) == [type |-> "RegistryChange", from |-> l, term |-> t]
Sync(n, l, t) == [type |-> "RegistrySync", from |-> n, to |-> l, term |-> t]
SyncResponse(l, n, t) ==
    [type |-> "RegistrySyncResponse", from |-> l, to |-> n, term |-> t]

Message ==
    [type : {"ElectionRequest", "ElectionResult", "RegistryChange"},
     from : Node, term : Nat]
    \cup [type : {"ElectionVote"}, from : Node, to : Node, term : Nat,
          granted : BOOLEAN]
    \cup [type : {"RegistrySync", "RegistrySyncResponse"},
          from : Node, to : Node, term : Nat]

Init ==
    /\ status = [n \in Node |-> "Follower"]
    /\ term = [n \in Node |-> 0]
    /\ voted_for = [n \in Node |-> None]
    /\ votes_received = [n \in Node |-> {}]
    /\ registry_id = [n \in Node |-> None]
    /\ registry_addr = [n \in Node |-> None]
    /\ missed = [n \in Node |-> 0]
    /\ serving = [n \in Node |-> FALSE]
    /\ msgs = {}

-----------------------------------------------------------------------------
(* What the owner of a manager calls: configuration and heartbeats.         *)

\* The owner configures the registry once, at start-up.
SetRegistry(n) ==
    /\ n \in Monitors
    /\ registry_id[n] = None
    /\ registry_id' = [registry_id EXCEPT ![n] = Bootstrap]
    /\ registry_addr' = [registry_addr EXCEPT ![n] = Bootstrap]
    /\ missed' = [missed EXCEPT ![n] = 0]
    /\ UNCHANGED <<status, term, voted_for, votes_received, serving, msgs>>

\* A heartbeat of the registry arrived.
ResetHeartbeatMonitor(n) ==
    /\ missed' = [missed EXCEPT ![n] = 0]
    /\ UNCHANGED <<status, term, voted_for, votes_received,
                   registry_id, registry_addr, serving, msgs>>

\* A heartbeat is overdue.  Counting stops at the threshold, where it no
\* longer changes what ShouldStartElection says.
RecordMissedHeartbeat(n) ==
    /\ n \in Monitors
    /\ missed[n] < Threshold
    /\ missed' = [missed EXCEPT ![n] = @ + 1]
    /\ UNCHANGED <<status, term, voted_for, votes_received,
                   registry_id, registry_addr, serving, msgs>>

IsRegistryHealthy(n) == missed[n] < Threshold

ShouldStartElection(n) ==
    /\ status[n] = "Follower"
    /\ registry_id[n] # None
    /\ ~ IsRegistryHealthy(n)

StartElection(n) ==
    /\ ShouldStartElection(n)
    /\ Known[n] # {}
    /\ term[n] < MaxTerm
    /\ status' = [status EXCEPT ![n] = "Candidate"]
    /\ term' = [term EXCEPT ![n] = @ + 1]
    /\ voted_for' = [voted_for EXCEPT ![n] = n]
    /\ votes_received' = [votes_received EXCEPT ![n] = {n}]
    /\ msgs' = msgs \cup {Request(n, term[n] + 1)}
    /\ UNCHANGED <<registry_id, registry_addr, missed, serving>>

-----------------------------------------------------------------------------
(* The transitions that the handlers share.                                 *)

\* reg is the new registry, or None when only the term is news.
BecomeFollower(n, t, reg) ==
    /\ term' = [term EXCEPT ![n] = IF t > @ THEN t ELSE @]
    /\ status' = [status EXCEPT ![n] = "Follower"]
    /\ voted_for' = [voted_for EXCEPT ![n] = None]
    /\ votes_received' = [votes_received EXCEPT ![n] = {}]
    /\ registry_id' = [registry_id EXCEPT ![n] = IF reg = None THEN @ ELSE reg]
    /\ serving' = [serving EXCEPT ![n] = IF reg \in {None, n} THEN @ ELSE FALSE]
    /\ missed' = [missed EXCEPT ![n] = 0]

\* Mutant of Announcements: the result is not broadcast.
AnnouncementsNoResult(n) == IF n \in Known[n] THEN {Change(n, term[n])} ELSE {}

\* RegistryChange goes out only if n finds its own address in known_nodes.
Announcements(n) ==
    {Result(n, term[n])} \cup
    (IF n \in Known[n] THEN {Change(n, term[n])} ELSE {})

BecomeLeader(n) ==
    /\ status' = [status EXCEPT ![n] = "Leader"]
    /\ registry_id' = [registry_id EXCEPT ![n] = n]
    /\ registry_addr' =
          [registry_addr EXCEPT ![n] = IF n \in Known[n] THEN n ELSE None]
    /\ serving' = [serving EXCEPT ![n] = TRUE]
    /\ msgs' = msgs \cup Announcements(n)
    /\ UNCHANGED <<term, voted_for, missed>>

IsMajority(n, votes) == Cardinality(votes) > (Cardinality(Known[n]) + 1) \div 2

\* Mutant of ShouldVoteFor: an earlier vote of the term is not looked at.
ShouldVoteForAgain(n, c, t, vf) == c = n \/ <<c, t, n>> \in Prefer

ShouldVoteFor(n, c, t, vf) ==
    /\ vf = None
    /\ c = n \/ <<c, t, n>> \in Prefer

-----------------------------------------------------------------------------
(* handle_message: one action per message type.  A broadcast reaches the    *)
(* known nodes of its sender.                                               *)

Reaches(m, n) == n \in Known[m.from]

HandleElectionRequest(n, m) ==
    /\ m.type = "ElectionRequest"
    /\ Reaches(m, n)
    /\ IF m.term < term[n]
       THEN /\ msgs' = msgs \cup {Denial(n, m.from, m.term)}
            /\ UNCHANGED nodeVars
       ELSE LET newer   == m.term > term[n]
                vf      == IF newer THEN None ELSE voted_for[n]
                granted == ShouldVoteFor(n, m.from, m.term, vf)
            IN  /\ term' = [term EXCEPT ![n] = m.term]
                /\ status' = [status EXCEPT ![n] = IF newer THEN "Follower" ELSE @]
                /\ votes_received' =
                      [votes_received EXCEPT ![n] = IF newer THEN {} ELSE @]
                /\ missed' = [missed EXCEPT ![n] = IF newer THEN 0 ELSE @]
                /\ voted_for' =
                      [voted_for EXCEPT ![n] = IF granted THEN m.from ELSE vf]
                /\ msgs' = msgs \cup {IF granted THEN Grant(n, m.from, m.term)
                                               ELSE Denial(n, m.from, m.term)}
                /\ UNCHANGED <<registry_id, registry_addr, serving>>

\* Mutant of CountVote: the vote is recorded, the majority never tested.
CountVoteNoCheck(n, v) ==
    /\ votes_received' = [votes_received EXCEPT ![n] = @ \cup {v}]
    /\ UNCHANGED <<status, term, voted_for, registry_id, registry_addr,
                   missed, serving, msgs>>

\* n's vote count takes in v, and n takes office with the vote that decides.
CountVote(n, v) ==
    /\ votes_received' = [votes_received EXCEPT ![n] = @ \cup {v}]
    /\ IF IsMajority(n, votes_received[n] \cup {v})
       THEN BecomeLeader(n)
       ELSE UNCHANGED <<status, term, voted_for, registry_id, registry_addr,
                        missed, serving, msgs>>

\* Mutant of HandleElectionVote: votes of an earlier term count too.
HandleElectionVoteAnyTerm(n, m) ==
    /\ m.type = "ElectionVote" /\ m.to = n /\ m.granted
    /\ status[n] = "Candidate"
    /\ m.from \notin votes_received[n]
    /\ CountVote(n, m.from)

HandleElectionVote(n, m) ==
    /\ m.type = "ElectionVote"
    /\ m.to = n
    /\ status[n] = "Candidate"
    /\ m.term = term[n]
    /\ m.granted
    /\ m.from \notin votes_received[n]
    /\ CountVote(n, m.from)

\* Mutant of HandleElectionResult: a result of an older term is believed.
HandleElectionResultStale(n, m) ==
    /\ m.type = "ElectionResult"
    /\ Reaches(m, n)
    /\ m.from # n
    /\ BecomeFollower(n, m.term, m.from)
    /\ UNCHANGED <<registry_addr, msgs>>

HandleElectionResult(n, m) ==
    /\ m.type = "ElectionResult"
    /\ Reaches(m, n)
    /\ m.term >= term[n]
    /\ m.from # n
    /\ BecomeFollower(n, m.term, m.from)
    /\ UNCHANGED <<registry_addr, msgs>>

\* As the result, but the address of the new registry is known too.  (The
\* callback that a Leader calls first is repeated by become_follower.)
HandleRegistryChange(n, m) ==
    /\ m.type = "RegistryChange"
    /\ Reaches(m, n)
    /\ m.term >= term[n]
    /\ m.from # n
    /\ registry_addr' = [registry_addr EXCEPT ![n] = m.from]
    /\ BecomeFollower(n, m.term, m.from)
    /\ UNCHANGED msgs

\* A returning registry asks the node it takes for the Leader for its data.
RequestSync(n, l) ==
    /\ <<n, l>> \in Syncs
    /\ msgs' = msgs \cup {Sync(n, l, term[n])}
    /\ UNCHANGED nodeVars

HandleRegistrySync(n, m) ==
    /\ m.type = "RegistrySync"
    /\ m.to = n
    /\ status[n] = "Leader"
    /\ IF m.term > term[n]
       THEN /\ BecomeFollower(n, m.term, m.from)
            /\ UNCHANGED <<registry_addr, msgs>>
       ELSE /\ msgs' = msgs \cup {SyncResponse(n, m.from, term[n])}
            /\ UNCHANGED nodeVars

\* Only the term and the registry's identity are taken over.
HandleSyncResponse(n, m) ==
    /\ m.type = "RegistrySyncResponse"
    /\ m.to = n
    /\ term' = [term EXCEPT ![n] = IF m.term > @ THEN m.term ELSE @]
    /\ registry_id' = [registry_id EXCEPT ![n] = m.from]
    /\ UNCHANGED <<status, voted_for, votes_received, registry_addr,
                   missed, serving, msgs>>

HandleMessage(n, m) ==
    \/ HandleElectionRequest(n, m)
    \/ HandleElectionVote(n, m)
    \/ HandleElectionResult(n, m)
    \/ HandleRegistryChange(n, m)
    \/ HandleRegistrySync(n, m)
    \/ HandleSyncResponse(n, m)

Next ==
    \E n \in Node :
        \/ SetRegistry(n)
        \/ ResetHeartbeatMonitor(n)
        \/ RecordMissedHeartbeat(n)
        \/ StartElection(n)
        \/ \E l \in Node : RequestSync(n, l)
        \/ \E m \in msgs : HandleMessage(n, m)

Spec == Init /\ [][Next]_vars

(* Weak fairness of the delivery of each message: the transport loses       *)
(* nothing for ever.  Nothing else is fair: an owner need not watch the     *)
(* registry, and heartbeats may be missed or not.                           *)
Deliver(n, type, c, t) ==
    \E m \in msgs :
        /\ m.type = type
        /\ m.from = c
        /\ m.term = t
        /\ HandleMessage(n, m)

Fairness ==
    \A n, c \in Node : \A t \in 1..MaxTerm :
        /\ WF_vars(Deliver(n, "ElectionRequest", c, t))
        /\ WF_vars(Deliver(n, "ElectionVote", c, t))
        /\ WF_vars(Deliver(n, "ElectionResult", c, t))
        /\ WF_vars(Deliver(n, "RegistryChange", c, t))

FairSpec == Spec /\ Fairness

-----------------------------------------------------------------------------
(* Properties.                                                              *)

\* Every variable has its type; no term exceeds the bound on elections.
TypeOK ==
    /\ status \in [Node -> {"Follower", "Candidate", "Leader"}]
    /\ term \in [Node -> 0..MaxTerm]
    /\ voted_for \in [Node -> Node \cup {None}]
    /\ votes_received \in [Node -> SUBSET Node]
    /\ registry_id \in [Node -> Node \cup {None}]
    /\ registry_addr \in [Node -> Node \cup {None}]
    /\ missed \in [Node -> 0..Threshold]
    /\ serving \in [Node -> BOOLEAN]
    /\ msgs \subseteq Message
    /\ \A m \in msgs : m.term <= MaxTerm

\* Whether v voted for c in term t: by a granted vote, or, as c itself, by
\* starting the election.
VotedFor(v, c, t) ==
    \/ Grant(v, c, t) \in msgs
    \/ v = c /\ Request(c, t) \in msgs

Supporters(c, t) == {v \in Node : VotedFor(v, c, t)}

Announced(t) == \E l \in Node : Result(l, t) \in msgs

\* A Leader was announced only after more than half of the nodes it counts
\* (its known nodes and itself) voted for it in that very term, however votes
\* of other terms, duplicates and denials were interleaved
\* (handle_election_vote).
ResultNeedsMajority ==
    \A l \in Node, t \in 1..MaxTerm :
        Result(l, t) \in msgs =>
            2 * Cardinality(Supporters(l, t)) > Cardinality(Known[l]) + 1

\* As long as no Leader of term t has been announced, no node has voted for two
\* candidates in t (should_vote_for).  Once one has been, become_follower
\* clears voted_for and the node may vote again, although the comment on
\* should_vote_for says that it votes at most once in a term.
DoubleVoteNeedsResult ==
    \A v, c, d \in Node, t \in 1..MaxTerm :
        VotedFor(v, c, t) /\ VotedFor(v, d, t) /\ c # d => Announced(t)

\* A Leader steps down only for a later term or for another Leader that was
\* announced in its own term, never for a late announcement of an earlier one
\* (the stale-term tests of the handlers), and no step takes a term back.
LeaderYieldsToTerm ==
    [][\A n \in Node :
          /\ term'[n] >= term[n]
          /\ status[n] = "Leader" /\ status'[n] # "Leader" =>
                \/ term'[n] > term[n]
                \/ \E l \in Node \ {n} : Result(l, term[n]) \in msgs]_vars

\* v refused c in term t and did not also vote for it.
Refused(c, t) ==
    {v \in Node : Denial(v, c, t) \in msgs /\ ~ VotedFor(v, c, t)}

\* With every message delivered, a candidate wins, steps down, or has been
\* refused by so many nodes that the rest are no majority.  There is no
\* election timeout: refused, it stays a candidate for ever.
ElectionSettles ==
    \A n \in Node :
        (status[n] = "Candidate") ~>
            \/ status[n] # "Candidate"
            \/ ~ IsMajority(n, (Known[n] \cup {n}) \ Refused(n, term[n]))

\* With every message delivered, the known nodes of a new Leader take it for
\* their registry, or have come to know of another Leader or of a later term.
LeaderBecomesKnown ==
    \A l, n \in Node :
        (status[l] = "Leader" /\ n \in Known[l]) ~>
            \/ registry_id[n] = l
            \/ status[n] = "Leader"
            \/ term[n] > term[l]
=============================================================================
