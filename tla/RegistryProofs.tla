--------------------------- MODULE RegistryProofs ---------------------------
(***************************************************************************)
(* Proofs about the registry: the election of its node, for every set of    *)
(* nodes, every known_nodes and every voting preference, and the centre's   *)
(* store, for any number of threads, names, nodes, requests and crashes.    *)
(***************************************************************************)
EXTENDS Election, RegistryStore, FiniteSetTheorems, TLAPS

-----------------------------------------------------------------------------
(* The inductive invariant of the election.                                 *)

\* Nobody has sent a message of a term that it has not reached.
SentInv == \A m \in msgs : m.term <= term[m.from]

\* A granted vote answers a request.
AnswerInv ==
    \A v, c \in Node, t \in 0..MaxTerm :
        Grant(v, c, t) \in msgs => Request(c, t) \in msgs

\* A RegistryChange goes out together with an ElectionResult.
ChangeInv ==
    \A l \in Node, t \in 0..MaxTerm :
        Change(l, t) \in msgs => Result(l, t) \in msgs

\* Until a Leader of its term is announced, a node's voted_for says whom it
\* voted for in that term.
BallotInv ==
    \A v, c \in Node :
        VotedFor(v, c, term[v]) /\ ~ Announced(term[v]) => voted_for[v] = c

\* DoubleVoteNeedsResult for every term.
DoubleInv ==
    \A v, c, d \in Node, t \in 0..MaxTerm :
        VotedFor(v, c, t) /\ VotedFor(v, d, t) /\ c # d => Announced(t)

\* A candidate that stood in its current term counts only votes of that term.
\* (handle_sync_response may take a candidate into a term it did not stand in;
\* no vote of that term can then reach it.)
CountInv ==
    \A n \in Node :
        status[n] = "Candidate" /\ Request(n, term[n]) \in msgs =>
            votes_received[n] \subseteq Supporters(n, term[n])

VoteInv ==
    /\ TypeOK
    /\ SentInv
    /\ AnswerInv
    /\ ChangeInv
    /\ BallotInv
    /\ DoubleInv

-----------------------------------------------------------------------------
(* What an accepted request does, with its answer g named.                  *)

Answers(n, m, g) ==
    /\ term' = [term EXCEPT ![n] = m.term]
    /\ status' = [status EXCEPT ![n] = IF m.term > term[n] THEN "Follower" ELSE @]
    /\ votes_received' =
          [votes_received EXCEPT ![n] = IF m.term > term[n] THEN {} ELSE @]
    /\ missed' = [missed EXCEPT ![n] = IF m.term > term[n] THEN 0 ELSE @]
    /\ voted_for' = [voted_for EXCEPT ![n] =
                        IF g THEN m.from ELSE IF m.term > term[n] THEN None ELSE @]
    /\ g => m.term > term[n] \/ voted_for[n] = None
    /\ msgs' = msgs \cup {IF g THEN Grant(n, m.from, m.term)
                               ELSE Denial(n, m.from, m.term)}
    /\ UNCHANGED <<registry_id, registry_addr, serving>>

\* handle_election_request answers every request that is not stale.
LEMMA RequestAnswered ==
    ASSUME NEW n, NEW m, HandleElectionRequest(n, m), ~ (m.term < term[n])
    PROVE  \E g \in BOOLEAN : Answers(n, m, g)
<1> DEFINE newer == m.term > term[n]
           vf == IF newer THEN None ELSE voted_for[n]
           g == ShouldVoteFor(n, m.from, m.term, vf)
<1>1. g \in BOOLEAN /\ (g => vf = None)
  BY DEF ShouldVoteFor
<1>2. Answers(n, m, g)
  <2> HIDE DEF g
  <2>1. voted_for' = [voted_for EXCEPT ![n] = IF g THEN m.from ELSE vf]
    BY DEF HandleElectionRequest, g
  <2>2. msgs' = msgs \cup {IF g THEN Grant(n, m.from, m.term)
                               ELSE Denial(n, m.from, m.term)}
    BY DEF HandleElectionRequest, g
  <2>3. QED
    BY <1>1, <2>1, <2>2 DEF HandleElectionRequest, Answers
<1>3. QED
  BY <1>1, <1>2

-----------------------------------------------------------------------------
(* Type correctness.                                                        *)

\* What become_follower assigns has its type.
LEMMA FollowerType ==
    ASSUME TypeOK, NEW n \in Node, NEW t \in 0..MaxTerm, NEW reg \in Node,
           BecomeFollower(n, t, reg)
    PROVE  /\ status' \in [Node -> {"Follower", "Candidate", "Leader"}]
           /\ term' \in [Node -> 0..MaxTerm]
           /\ voted_for' \in [Node -> Node \cup {None}]
           /\ votes_received' \in [Node -> SUBSET Node]
           /\ registry_id' \in [Node -> Node \cup {None}]
           /\ missed' \in [Node -> 0..Threshold]
           /\ serving' \in [Node -> BOOLEAN]
<1>1. serving' \in [Node -> BOOLEAN]
  <2> DEFINE s == IF reg \in {None, n} THEN serving[n] ELSE FALSE
  <2>1. s \in BOOLEAN
    BY DEF TypeOK
  <2>2. serving' = [serving EXCEPT ![n] = s]
    BY DEF BecomeFollower
  <2> HIDE DEF s
  <2>3. QED
    BY <2>1, <2>2 DEF TypeOK
<1>2. /\ registry_id' \in [Node -> Node \cup {None}]
      /\ term' \in [Node -> 0..MaxTerm]
  <2>1. /\ registry_id' = [registry_id EXCEPT ![n] = reg]
        /\ term' = [term EXCEPT ![n] = IF t > term[n] THEN t ELSE term[n]]
    BY NodeAssumption DEF BecomeFollower
  <2>2. QED
    BY <2>1, BoundAssumption DEF TypeOK
<1>3. /\ status' = [status EXCEPT ![n] = "Follower"]
      /\ voted_for' = [voted_for EXCEPT ![n] = None]
      /\ votes_received' = [votes_received EXCEPT ![n] = {}]
      /\ missed' = [missed EXCEPT ![n] = 0]
  BY DEF BecomeFollower
<1>4. QED
  BY <1>1, <1>2, <1>3, BoundAssumption DEF TypeOK

\* A step preserves the types of all variables.
LEMMA TypeStep == TypeOK /\ [Next]_vars => TypeOK'
<1> USE NodeAssumption, KnownAssumption, BootstrapAssumption, BoundAssumption
<1>1. SUFFICES ASSUME TypeOK, Next PROVE TypeOK'
  BY DEF TypeOK, vars, nodeVars
<1>2. PICK n \in Node :
        \/ SetRegistry(n)
        \/ ResetHeartbeatMonitor(n)
        \/ RecordMissedHeartbeat(n)
        \/ StartElection(n)
        \/ \E l \in Node : RequestSync(n, l)
        \/ \E m \in msgs : HandleMessage(n, m)
  BY <1>1 DEF Next
<1>3. CASE SetRegistry(n)
  BY <1>1, <1>3 DEF TypeOK, SetRegistry
<1>4. CASE ResetHeartbeatMonitor(n)
  BY <1>1, <1>4 DEF TypeOK, ResetHeartbeatMonitor
<1>5. CASE RecordMissedHeartbeat(n)
  BY <1>1, <1>5 DEF TypeOK, RecordMissedHeartbeat
<1>6. CASE StartElection(n)
  <2>1. Request(n, term[n] + 1) \in Message /\ term[n] + 1 \in 0..MaxTerm
    BY <1>1, <1>6 DEF TypeOK, StartElection, Request, Message
  <2>2. Request(n, term[n] + 1).term <= MaxTerm
    BY <2>1 DEF Request
  <2>3. QED
    BY <1>1, <1>6, <2>1, <2>2 DEF TypeOK, StartElection
<1>7. CASE \E l \in Node : RequestSync(n, l)
  <2>1. PICK l \in Node : RequestSync(n, l)
    BY <1>7
  <2>2. Sync(n, l, term[n]) \in Message /\ Sync(n, l, term[n]).term <= MaxTerm
    BY <1>1 DEF TypeOK, Sync, Message
  <2>3. QED
    BY <1>1, <2>1, <2>2 DEF TypeOK, RequestSync, nodeVars
<1>8. CASE \E m \in msgs : HandleMessage(n, m)
  <2>1. PICK m \in msgs : HandleMessage(n, m)
    BY <1>8
  <2>2. m.term \in 0..MaxTerm /\ m.from \in Node
    BY <1>1 DEF TypeOK, Message
  <2>3. /\ Grant(n, m.from, m.term) \in Message
        /\ Grant(n, m.from, m.term).term <= MaxTerm
        /\ Denial(n, m.from, m.term) \in Message
        /\ Denial(n, m.from, m.term).term <= MaxTerm
    BY <2>2 DEF Grant, Denial, Message
  <2>4. CASE HandleElectionRequest(n, m)
    <3>1. CASE m.term < term[n]
      BY <1>1, <2>3, <2>4, <3>1 DEF TypeOK, HandleElectionRequest, nodeVars
    <3>2. CASE ~ (m.term < term[n])
      <4>1. PICK g \in BOOLEAN : Answers(n, m, g)
        BY <2>4, <3>2, RequestAnswered
      <4>2. QED
        BY <1>1, <2>2, <2>3, <4>1 DEF TypeOK, Answers
    <3>3. QED
      BY <3>1, <3>2
  <2>5. CASE HandleElectionVote(n, m)
    <3>1. Announcements(n) \subseteq Message
          /\ \A a \in Announcements(n) : a.term <= MaxTerm
      BY <1>1 DEF TypeOK, Announcements, Result, Change, Message
    <3>2. QED
      BY <1>1, <2>2, <2>5, <3>1
         DEF TypeOK, HandleElectionVote, CountVote, BecomeLeader
  <2>6. CASE HandleElectionResult(n, m)
    BY <1>1, <2>2, <2>6, FollowerType DEF TypeOK, HandleElectionResult
  <2>7. CASE HandleRegistryChange(n, m)
    BY <1>1, <2>2, <2>7, FollowerType DEF TypeOK, HandleRegistryChange
  <2>8. CASE HandleRegistrySync(n, m)
    <3>1. /\ SyncResponse(n, m.from, term[n]) \in Message
          /\ SyncResponse(n, m.from, term[n]).term <= MaxTerm
      BY <1>1, <2>2 DEF TypeOK, SyncResponse, Message
    <3>2. QED
      BY <1>1, <2>2, <2>8, <3>1, FollowerType
         DEF TypeOK, HandleRegistrySync, nodeVars
  <2>9. CASE HandleSyncResponse(n, m)
    BY <1>1, <2>2, <2>9 DEF TypeOK, HandleSyncResponse
  <2>10. QED
    BY <2>1, <2>4, <2>5, <2>6, <2>7, <2>8, <2>9 DEF HandleMessage
<1>9. QED
  BY <1>2, <1>3, <1>4, <1>5, <1>6, <1>7, <1>8

\* The ElectionManager's fields keep their types, and no term exceeds the
\* number of elections started, whatever the transport does.
THEOREM TypeCorrect == Spec => []TypeOK
<1>1. Init => TypeOK
  BY NodeAssumption, BoundAssumption DEF Init, TypeOK
<1>2. QED
  BY <1>1, TypeStep, PTL DEF Spec

-----------------------------------------------------------------------------
(* Messages.  From here on the constructors are used through their fields.  *)

\* A message determines what it was built from.
LEMMA Fields ==
    /\ \A c, t : LET m == Request(c, t) IN
          m.type = "ElectionRequest" /\ m.from = c /\ m.term = t
    /\ \A v, c, t : LET m == Grant(v, c, t) IN
          /\ m.type = "ElectionVote" /\ m.from = v /\ m.to = c /\ m.term = t
          /\ m.granted
    /\ \A v, c, t : LET m == Denial(v, c, t) IN
          /\ m.type = "ElectionVote" /\ m.from = v /\ m.to = c /\ m.term = t
          /\ ~ m.granted
    /\ \A l, t : LET m == Result(l, t) IN
          m.type = "ElectionResult" /\ m.from = l /\ m.term = t
    /\ \A l, t : LET m == Change(l, t) IN
          m.type = "RegistryChange" /\ m.from = l /\ m.term = t
    /\ \A n, l, t : LET m == Sync(n, l, t) IN
          m.type = "RegistrySync" /\ m.from = n /\ m.to = l /\ m.term = t
    /\ \A n, l, t : LET m == SyncResponse(l, n, t) IN
          m.type = "RegistrySyncResponse" /\ m.from = l /\ m.to = n /\ m.term = t
BY DEF Request, Grant, Denial, Result, Change, Sync, SyncResponse

\* A message of a known type was built by the constructor of that type.
LEMMA Built ==
    ASSUME TypeOK, NEW m \in msgs
    PROVE  /\ m.from \in Node /\ m.term \in 0..MaxTerm
           /\ m.type = "ElectionRequest" => m = Request(m.from, m.term)
           /\ m.type = "ElectionVote" /\ m.granted =>
                m.to \in Node /\ m = Grant(m.from, m.to, m.term)
           /\ m.type = "ElectionResult" => m = Result(m.from, m.term)
           /\ m.type = "RegistryChange" => m = Change(m.from, m.term)
BY BoundAssumption DEF TypeOK, Message, Request, Grant, Result, Change

\* A node has not voted in a term that it has not reached.
LEMMA VotedInTerm ==
    ASSUME TypeOK, SentInv, NEW v \in Node, NEW c \in Node,
           NEW t \in 0..MaxTerm, VotedFor(v, c, t)
    PROVE  t <= term[v]
<1>1. CASE Grant(v, c, t) \in msgs
  BY <1>1, Fields DEF SentInv
<1>2. CASE v = c /\ Request(c, t) \in msgs
  BY <1>2, Fields DEF SentInv
<1>3. QED
  BY <1>1, <1>2 DEF VotedFor

-----------------------------------------------------------------------------
(* Votes.                                                                   *)

\* A step that adds no vote keeps BallotInv and DoubleInv, if whoever's
\* voted_for changes has reached a new term or knows of a Leader of its term.
LEMMA BallotKept ==
    ASSUME TypeOK, TypeOK', SentInv, BallotInv, DoubleInv,
           \A v, c \in Node, t \in 0..MaxTerm :
               VotedFor(v, c, t)' => VotedFor(v, c, t),
           \A t \in 0..MaxTerm : Announced(t) => Announced(t)',
           \A v \in Node :
               \/ term'[v] > term[v]
               \/ term'[v] = term[v] /\ Announced(term[v])
               \/ term'[v] = term[v] /\ voted_for'[v] = voted_for[v]
    PROVE  BallotInv' /\ DoubleInv'
<1>1. ASSUME NEW v \in Node, NEW c \in Node, VotedFor(v, c, term[v])',
             ~ Announced(term[v])'
      PROVE  voted_for'[v] = c
  <2>1. term'[v] \in 0..MaxTerm /\ term[v] \in 0..MaxTerm
    BY DEF TypeOK
  <2>2. PICK t \in 0..MaxTerm : t = term'[v]
    BY <2>1
  <2>3. VotedFor(v, c, t)
    BY <1>1, <2>2 DEF VotedFor
  <2>4. t <= term[v]
    BY <2>3, VotedInTerm
  <2>5. t = term[v] /\ ~ Announced(t) /\ voted_for'[v] = voted_for[v]
    BY <1>1, <2>1, <2>2, <2>4 DEF Announced
  <2>6. QED
    BY <2>3, <2>5 DEF BallotInv
<1>2. DoubleInv'
  BY DEF DoubleInv, VotedFor, Announced
<1>3. QED
  BY <1>1, <1>2 DEF BallotInv

\* As BallotKept, for a step that adds no ElectionRequest, no granted vote and
\* keeps every message.
LEMMA VotesKept ==
    ASSUME VoteInv, TypeOK', msgs \subseteq msgs',
           \A m \in msgs' \ msgs :
               /\ m.type # "ElectionRequest"
               /\ m.type = "ElectionVote" => ~ m.granted,
           \A v \in Node :
               \/ term'[v] > term[v]
               \/ term'[v] = term[v] /\ Announced(term[v])
               \/ term'[v] = term[v] /\ voted_for'[v] = voted_for[v]
    PROVE  AnswerInv' /\ BallotInv' /\ DoubleInv'
<1>1. \A v, c \in Node, t \in 0..MaxTerm :
          /\ Grant(v, c, t) \in msgs' => Grant(v, c, t) \in msgs
          /\ Request(c, t) \in msgs' => Request(c, t) \in msgs
  BY Fields
<1>2. AnswerInv'
  BY <1>1 DEF VoteInv, AnswerInv
<1>3. \A v, c \in Node, t \in 0..MaxTerm :
          VotedFor(v, c, t)' => VotedFor(v, c, t)
  BY <1>1 DEF VotedFor
<1>4. \A t \in 0..MaxTerm : Announced(t) => Announced(t)'
  BY DEF Announced
<1>5. QED
  BY <1>2, <1>3, <1>4, BallotKept DEF VoteInv

\* Adopting a Leader announced in this term or in a later one keeps VoteInv:
\* the only place where voted_for is cleared without a new term.
LEMMA FollowerVotes ==
    ASSUME VoteInv, TypeOK', NEW n \in Node, NEW m \in msgs,
           BecomeFollower(n, m.term, m.from),
           \/ m.term > term[n]
           \/ m.term = term[n] /\ Announced(m.term),
           msgs' = msgs
    PROVE  VoteInv'
<1>1. m.term \in 0..MaxTerm /\ term[n] \in 0..MaxTerm
  BY Built DEF VoteInv, TypeOK
<1>2. \A v \in Node : v # n => term'[v] = term[v] /\ voted_for'[v] = voted_for[v]
  BY DEF VoteInv, TypeOK, BecomeFollower
<1>3. term'[n] = m.term
  BY <1>1 DEF VoteInv, TypeOK, BecomeFollower
<1>4. SentInv'
  BY <1>1, <1>2, <1>3, Built DEF VoteInv, TypeOK, SentInv
<1>5. AnswerInv' /\ BallotInv' /\ DoubleInv'
  BY <1>1, <1>2, <1>3, VotesKept
<1>6. ChangeInv'
  BY DEF VoteInv, ChangeInv
<1>7. QED
  BY <1>4, <1>5, <1>6 DEF VoteInv

\* Answering a request keeps VoteInv: a vote is granted only in a new term, or
\* while voted_for is None, and then the node has not voted in this term or
\* a Leader of the term is known.
LEMMA AnswerVotes ==
    ASSUME VoteInv, TypeOK', NEW n \in Node, NEW m \in msgs,
           NEW g \in BOOLEAN, Answers(n, m, g), ~ (m.term < term[n]),
           Request(m.from, m.term) \in msgs
    PROVE  VoteInv'
<1>1. m.from \in Node /\ m.term \in 0..MaxTerm /\ term[n] \in 0..MaxTerm
  BY Built DEF VoteInv, TypeOK
<1>2. \A v \in Node : v # n => term'[v] = term[v] /\ voted_for'[v] = voted_for[v]
  BY DEF VoteInv, TypeOK, Answers
<1>3. term'[n] = m.term
  BY DEF VoteInv, TypeOK, Answers
<1>4. CASE ~ g
  <2>1. msgs' = msgs \cup {Denial(n, m.from, m.term)}
    BY <1>4 DEF Answers
  <2>2. m.term > term[n] \/ voted_for'[n] = voted_for[n]
    BY <1>4 DEF Answers, VoteInv, TypeOK
  <2>3. AnswerInv' /\ BallotInv' /\ DoubleInv'
    BY <1>1, <1>2, <1>3, <2>1, <2>2, VotesKept, Fields
  <2>4. SentInv'
    BY <1>1, <1>2, <1>3, <2>1, Fields, Built DEF VoteInv, TypeOK, SentInv
  <2>5. ChangeInv'
    BY <2>1, Fields DEF VoteInv, ChangeInv
  <2>6. QED
    BY <2>3, <2>4, <2>5 DEF VoteInv
<1>5. CASE g
  <2>1. /\ msgs' = msgs \cup {Grant(n, m.from, m.term)}
        /\ voted_for'[n] = m.from
        /\ m.term > term[n] \/ voted_for[n] = None
    BY <1>5 DEF Answers, VoteInv, TypeOK
  <2>2. ASSUME NEW c \in Node, VotedFor(n, c, m.term) PROVE Announced(m.term)
    <3>1. m.term <= term[n]
      BY <1>1, <2>2, VotedInTerm DEF VoteInv
    <3>2. m.term = term[n] /\ voted_for[n] = None
      BY <1>1, <2>1, <3>1
    <3>3. QED
      BY <2>2, <3>2, NodeAssumption DEF VoteInv, BallotInv
  <2>3. \A v, c \in Node, u \in 0..MaxTerm :
          VotedFor(v, c, u)' <=>
            VotedFor(v, c, u) \/ (v = n /\ c = m.from /\ u = m.term)
    BY <1>1, <2>1, Fields DEF VotedFor
  <2>4. \A u \in 0..MaxTerm : Announced(u)' <=> Announced(u)
    BY <2>1, Fields DEF Announced
  <2>5. BallotInv'
    <3>1. SUFFICES ASSUME NEW v \in Node, NEW c \in Node, NEW u \in 0..MaxTerm,
                          u = term'[v], VotedFor(v, c, u)', ~ Announced(u)'
                   PROVE  voted_for'[v] = c
      BY DEF BallotInv, TypeOK, VotedFor, Announced
    <3>2. CASE v = n
      BY <1>3, <2>1, <2>2, <2>3, <2>4, <3>1, <3>2
    <3>3. CASE v # n
      BY <1>2, <2>3, <2>4, <3>1, <3>3 DEF VoteInv, BallotInv
    <3>4. QED
      BY <3>2, <3>3
  <2>6. DoubleInv'
    <3>1. SUFFICES ASSUME NEW v \in Node, NEW c \in Node, NEW d \in Node,
                          NEW u \in 0..MaxTerm,
                          VotedFor(v, c, u)', VotedFor(v, d, u)', c # d
                   PROVE  Announced(u)'
      BY DEF DoubleInv, VotedFor, Announced
    <3>2. CASE VotedFor(v, c, u) /\ VotedFor(v, d, u)
      BY <2>4, <3>1, <3>2 DEF VoteInv, DoubleInv
    <3>3. CASE ~ (VotedFor(v, c, u) /\ VotedFor(v, d, u))
      BY <2>2, <2>3, <2>4, <3>1, <3>3
    <3>4. QED
      BY <3>2, <3>3
  <2>7. SentInv'
    BY <1>1, <1>2, <1>3, <2>1, Fields, Built DEF VoteInv, TypeOK, SentInv
  <2>8. AnswerInv'
    BY <2>1, Fields DEF VoteInv, AnswerInv
  <2>9. ChangeInv'
    BY <2>1, Fields DEF VoteInv, ChangeInv
  <2>10. QED
    BY <2>5, <2>6, <2>7, <2>8, <2>9 DEF VoteInv
<1>6. QED
  BY <1>4, <1>5

\* A step preserves the invariant of the votes.
LEMMA VoteStep == VoteInv /\ [Next]_vars => VoteInv'
<1>1. CASE VoteInv /\ UNCHANGED vars
  BY <1>1 DEF VoteInv, vars, nodeVars, TypeOK, SentInv, AnswerInv, ChangeInv,
              BallotInv, DoubleInv, VotedFor, Announced
<1>2. ASSUME VoteInv, Next PROVE VoteInv'
  <2>1. TypeOK'
    BY <1>2, TypeStep DEF VoteInv
  <2>2. PICK n \in Node :
          \/ SetRegistry(n)
          \/ ResetHeartbeatMonitor(n)
          \/ RecordMissedHeartbeat(n)
          \/ StartElection(n)
          \/ \E l \in Node : RequestSync(n, l)
          \/ \E m \in msgs : HandleMessage(n, m)
    BY <1>2 DEF Next
  <2>3. ASSUME msgs \subseteq msgs', UNCHANGED <<term, voted_for>>,
               \A m \in msgs' \ msgs :
                   /\ m.type # "ElectionRequest"
                   /\ m.type = "RegistryChange" => Result(m.from, m.term) \in msgs'
                   /\ m.type = "ElectionVote" => ~ m.granted
                   /\ m.term <= term[m.from]
        PROVE  VoteInv'
    <3>1. AnswerInv' /\ BallotInv' /\ DoubleInv'
      BY <1>2, <2>1, <2>3, VotesKept
    <3>2. SentInv'
      BY <1>2, <2>3 DEF VoteInv, SentInv
    <3>3. ChangeInv'
      BY <1>2, <2>3, Fields DEF VoteInv, ChangeInv
    <3>4. QED
      BY <2>1, <3>1, <3>2, <3>3 DEF VoteInv
  <2>4. CASE SetRegistry(n) \/ ResetHeartbeatMonitor(n) \/ RecordMissedHeartbeat(n)
    BY <2>3, <2>4 DEF SetRegistry, ResetHeartbeatMonitor, RecordMissedHeartbeat
  <2>5. CASE StartElection(n)
    <3> DEFINE t == term[n] + 1
    <3>1. /\ term' = [term EXCEPT ![n] = t]
          /\ voted_for' = [voted_for EXCEPT ![n] = n]
          /\ msgs' = msgs \cup {Request(n, t)}
          /\ t \in 0..MaxTerm
      BY <1>2, <2>5, BoundAssumption DEF VoteInv, TypeOK, StartElection
    <3>2. \A v \in Node : v # n => term'[v] = term[v] /\ voted_for'[v] = voted_for[v]
      BY <1>2, <3>1 DEF VoteInv, TypeOK
    <3>3. term'[n] = t /\ voted_for'[n] = n /\ t > term[n]
      BY <1>2, <3>1 DEF VoteInv, TypeOK
    <3> HIDE DEF t
    <3>4. \A v, c \in Node : ~ (v = n /\ VotedFor(v, c, t))
      <4>1. SUFFICES ASSUME NEW c \in Node, VotedFor(n, c, t) PROVE FALSE
        OBVIOUS
      <4>2. t <= term[n]
        BY <1>2, <3>1, <4>1, VotedInTerm DEF VoteInv
      <4>3. QED
        BY <1>2, <3>1, <3>3, <4>2 DEF VoteInv, TypeOK
    <3>5. \A v, c \in Node, u \in 0..MaxTerm :
            VotedFor(v, c, u)' <=> VotedFor(v, c, u) \/ (v = n /\ c = n /\ u = t)
      BY <3>1, Fields DEF VotedFor
    <3>6. \A u \in 0..MaxTerm : Announced(u)' <=> Announced(u)
      BY <3>1, Fields DEF Announced
    <3>7. SentInv'
      BY <1>2, <3>1, <3>2, <3>3, Fields, Built DEF VoteInv, TypeOK, SentInv
    <3>8. AnswerInv'
      BY <1>2, <3>1, Fields DEF VoteInv, AnswerInv
    <3>9. ChangeInv'
      BY <1>2, <3>1, Fields DEF VoteInv, ChangeInv
    <3>10. BallotInv'
      <4>1. SUFFICES ASSUME NEW v \in Node, NEW c \in Node, NEW u \in 0..MaxTerm,
                            u = term'[v], VotedFor(v, c, u)', ~ Announced(u)'
                     PROVE  voted_for'[v] = c
        BY <2>1 DEF BallotInv, TypeOK, VotedFor, Announced
      <4>2. CASE v = n
        BY <3>3, <3>4, <3>5, <4>1, <4>2
      <4>3. CASE v # n
        BY <1>2, <3>2, <3>5, <3>6, <4>1, <4>3 DEF VoteInv, BallotInv
      <4>4. QED
        BY <4>2, <4>3
    <3>11. DoubleInv'
      <4>1. SUFFICES ASSUME NEW v \in Node, NEW c \in Node, NEW d \in Node,
                            NEW u \in 0..MaxTerm,
                            VotedFor(v, c, u)', VotedFor(v, d, u)', c # d
                     PROVE  Announced(u)'
        BY DEF DoubleInv, VotedFor, Announced
      <4>2. VotedFor(v, c, u) /\ VotedFor(v, d, u)
        BY <3>4, <3>5, <4>1
      <4>3. QED
        BY <1>2, <3>6, <4>1, <4>2 DEF VoteInv, DoubleInv
    <3>12. QED
      BY <2>1, <3>7, <3>8, <3>9, <3>10, <3>11 DEF VoteInv
  <2>6. CASE \E l \in Node : RequestSync(n, l)
    <3>1. PICK l \in Node : RequestSync(n, l)
      BY <2>6
    <3>2. /\ UNCHANGED <<term, voted_for>>
          /\ msgs' = msgs \cup {Sync(n, l, term[n])}
      BY <3>1 DEF RequestSync, nodeVars
    <3>3. term[n] <= term[n]
      BY <1>2 DEF VoteInv, TypeOK
    <3>4. QED
      BY <2>3, <3>2, <3>3, Fields
  <2>7. CASE \E m \in msgs : HandleMessage(n, m)
    <3>1. PICK m \in msgs : HandleMessage(n, m)
      BY <2>7
    <3>2. m.from \in Node /\ m.term \in 0..MaxTerm /\ term[n] \in 0..MaxTerm
      BY <1>2, Built DEF VoteInv, TypeOK
    <3>3. CASE HandleElectionRequest(n, m)
      <4>1. CASE m.term < term[n]
        <5>1. /\ UNCHANGED <<term, voted_for>>
              /\ msgs' = msgs \cup {Denial(n, m.from, m.term)}
          BY <3>3, <4>1 DEF HandleElectionRequest, nodeVars
        <5>2. QED
          BY <2>3, <3>2, <4>1, <5>1, Fields
      <4>2. CASE ~ (m.term < term[n])
        <5>1. PICK g \in BOOLEAN : Answers(n, m, g)
          BY <3>3, <4>2, RequestAnswered
        <5>2. Request(m.from, m.term) \in msgs
          BY <1>2, <3>3, Built DEF VoteInv, HandleElectionRequest
        <5>3. QED
          BY <1>2, <2>1, <3>2, <4>2, <5>1, <5>2, AnswerVotes
      <4>3. QED
        BY <4>1, <4>2
    <3>4. CASE HandleElectionVote(n, m)
      <4>1. UNCHANGED <<term, voted_for>> /\ msgs \subseteq msgs'
        BY <3>4 DEF HandleElectionVote, CountVote, BecomeLeader
      <4>2. \A a \in msgs' \ msgs :
              \/ a = Result(n, term[n])
              \/ a = Change(n, term[n]) /\ Result(n, term[n]) \in msgs'
        BY <3>4 DEF HandleElectionVote, CountVote, BecomeLeader, Announcements
      <4>3. QED
        BY <2>3, <3>2, <4>1, <4>2, Fields
    <3>5. CASE HandleElectionResult(n, m)
      <4>1. Announced(m.term)
        BY <1>2, <3>2, <3>5, Built DEF VoteInv, HandleElectionResult, Announced
      <4>2. QED
        BY <1>2, <2>1, <3>2, <3>5, <4>1, FollowerVotes DEF HandleElectionResult
    <3>6. CASE HandleRegistryChange(n, m)
      <4>1. Announced(m.term)
        BY <1>2, <3>2, <3>6, Built
           DEF VoteInv, ChangeInv, HandleRegistryChange, Announced
      <4>2. QED
        BY <1>2, <2>1, <3>2, <3>6, <4>1, FollowerVotes DEF HandleRegistryChange
    <3>7. CASE HandleRegistrySync(n, m)
      <4>1. CASE m.term > term[n]
        BY <1>2, <2>1, <3>7, <4>1, FollowerVotes DEF HandleRegistrySync
      <4>2. CASE ~ (m.term > term[n])
        <5>1. /\ UNCHANGED <<term, voted_for>>
              /\ msgs' = msgs \cup {SyncResponse(n, m.from, term[n])}
          BY <3>7, <4>2 DEF HandleRegistrySync, nodeVars
        <5>2. QED
          BY <2>3, <3>2, <5>1, Fields
      <4>3. QED
        BY <4>1, <4>2
    <3>8. CASE HandleSyncResponse(n, m)
      <4>1. /\ term' = [term EXCEPT ![n] = IF m.term > term[n] THEN m.term ELSE term[n]]
            /\ UNCHANGED <<voted_for, msgs>>
        BY <3>8 DEF HandleSyncResponse
      <4>2. \A v \in Node : \/ term'[v] > term[v]
                            \/ term'[v] = term[v] /\ voted_for'[v] = voted_for[v]
        BY <1>2, <3>2, <4>1 DEF VoteInv, TypeOK
      <4>3. AnswerInv' /\ BallotInv' /\ DoubleInv'
        BY <1>2, <2>1, <4>1, <4>2, VotesKept
      <4>4. SentInv'
        BY <1>2, <2>1, <4>1, <4>2, Built DEF VoteInv, TypeOK, SentInv
      <4>5. ChangeInv'
        BY <1>2, <4>1 DEF VoteInv, ChangeInv
      <4>6. QED
        BY <2>1, <4>3, <4>4, <4>5 DEF VoteInv
    <3>9. QED
      BY <3>1, <3>3, <3>4, <3>5, <3>6, <3>7, <3>8 DEF HandleMessage
  <2>8. QED
    BY <2>2, <2>4, <2>5, <2>6, <2>7
<1>3. QED
  BY <1>1, <1>2

LEMMA VoteInit == Init => VoteInv
BY NodeAssumption, BoundAssumption
   DEF Init, VoteInv, TypeOK, SentInv, AnswerInv, ChangeInv, BallotInv, DoubleInv,
       VotedFor, Announced

\* No node votes for two candidates of a term in which no Leader has been
\* announced, whatever is lost, duplicated or reordered.
THEOREM OneVoteUntilResult == Spec => []DoubleVoteNeedsResult
<1>1. VoteInv => DoubleVoteNeedsResult
  BY BoundAssumption DEF VoteInv, DoubleInv, DoubleVoteNeedsResult
<1>2. QED
  BY <1>1, VoteInit, VoteStep, PTL DEF Spec

-----------------------------------------------------------------------------
(* Terms.                                                                   *)

\* Only the node that steps may change its term or its status, and no term is
\* taken back.
LEMMA TermGrows ==
    ASSUME VoteInv, Next
    PROVE  \A v \in Node :
             /\ term'[v] >= term[v]
             /\ status[v] = "Leader" /\ status'[v] # "Leader" =>
                   \/ term'[v] > term[v]
                   \/ \E l \in Node \ {v} : Result(l, term[v]) \in msgs
<1>1. PICK n \in Node :
        \/ SetRegistry(n)
        \/ ResetHeartbeatMonitor(n)
        \/ RecordMissedHeartbeat(n)
        \/ StartElection(n)
        \/ \E l \in Node : RequestSync(n, l)
        \/ \E m \in msgs : HandleMessage(n, m)
  BY DEF Next
<1>2. \A v \in Node : term[v] \in 0..MaxTerm
  BY DEF VoteInv, TypeOK
<1>3. ASSUME UNCHANGED <<term, status>> PROVE \A v \in Node :
             /\ term'[v] >= term[v]
             /\ status[v] = "Leader" /\ status'[v] # "Leader" =>
                   \/ term'[v] > term[v]
                   \/ \E l \in Node \ {v} : Result(l, term[v]) \in msgs
  BY <1>2, <1>3
<1>4. CASE \/ SetRegistry(n) \/ ResetHeartbeatMonitor(n)
           \/ RecordMissedHeartbeat(n) \/ \E l \in Node : RequestSync(n, l)
  BY <1>3, <1>4 DEF SetRegistry, ResetHeartbeatMonitor, RecordMissedHeartbeat,
                    RequestSync, nodeVars
<1>5. CASE StartElection(n)
  BY <1>2, <1>5 DEF StartElection, ShouldStartElection, VoteInv, TypeOK
<1>6. CASE \E m \in msgs : HandleMessage(n, m)
  <2>1. PICK m \in msgs : HandleMessage(n, m)
    BY <1>6
  <2>2. m.from \in Node /\ m.term \in 0..MaxTerm /\ m.term <= term[m.from]
    BY Built DEF VoteInv, SentInv
  <2>3. ASSUME BecomeFollower(n, m.term, m.from), m.term >= term[n],
               m.term = term[n] => m.from # n /\ Result(m.from, m.term) \in msgs
        PROVE  \A v \in Node :
             /\ term'[v] >= term[v]
             /\ status[v] = "Leader" /\ status'[v] # "Leader" =>
                   \/ term'[v] > term[v]
                   \/ \E l \in Node \ {v} : Result(l, term[v]) \in msgs
    <3>1. /\ term' = [term EXCEPT ![n] = IF m.term > term[n] THEN m.term ELSE term[n]]
          /\ status' = [status EXCEPT ![n] = "Follower"]
      BY <2>3 DEF BecomeFollower
    <3>2. QED
      BY <1>2, <2>2, <2>3, <3>1 DEF VoteInv, TypeOK
  <2>4. CASE HandleElectionRequest(n, m)
    <3>1. CASE m.term < term[n]
      BY <1>3, <2>4, <3>1 DEF HandleElectionRequest, nodeVars
    <3>2. CASE ~ (m.term < term[n])
      <4>1. /\ term' = [term EXCEPT ![n] = m.term]
            /\ status' = [status EXCEPT ![n] =
                             IF m.term > term[n] THEN "Follower" ELSE status[n]]
        BY <2>4, <3>2 DEF HandleElectionRequest
      <4>2. QED
        BY <1>2, <2>2, <3>2, <4>1 DEF VoteInv, TypeOK
    <3>3. QED
      BY <3>1, <3>2
  <2>5. CASE HandleElectionVote(n, m)
    <3>1. /\ term' = term
          /\ \/ status' = status
             \/ status' = [status EXCEPT ![n] = "Leader"]
      BY <2>5 DEF HandleElectionVote, CountVote, BecomeLeader
    <3>2. QED
      BY <1>2, <3>1 DEF VoteInv, TypeOK
  <2>6. CASE HandleElectionResult(n, m)
    BY <2>3, <2>6, Built DEF HandleElectionResult, VoteInv
  <2>7. CASE HandleRegistryChange(n, m)
    <3>1. Result(m.from, m.term) \in msgs
      BY <2>2, <2>7, Built DEF HandleRegistryChange, VoteInv, ChangeInv
    <3>2. QED
      BY <2>3, <2>7, <3>1 DEF HandleRegistryChange
  <2>8. CASE HandleRegistrySync(n, m)
    <3>1. CASE m.term > term[n]
      <4>1. m.term >= term[n] /\ m.term # term[n]
        BY <1>2, <2>2, <3>1
      <4>2. QED
        BY <2>3, <2>8, <3>1, <4>1 DEF HandleRegistrySync
    <3>2. CASE ~ (m.term > term[n])
      BY <1>3, <2>8, <3>2 DEF HandleRegistrySync, nodeVars
    <3>3. QED
      BY <3>1, <3>2
  <2>9. CASE HandleSyncResponse(n, m)
    <3>1. /\ term' = [term EXCEPT ![n] = IF m.term > term[n] THEN m.term ELSE term[n]]
          /\ status' = status
      BY <2>9 DEF HandleSyncResponse
    <3>2. QED
      BY <1>2, <2>2, <3>1 DEF VoteInv, TypeOK
  <2>10. QED
    BY <2>1, <2>4, <2>5, <2>6, <2>7, <2>8, <2>9 DEF HandleMessage
<1>7. QED
  BY <1>1, <1>4, <1>5, <1>6

\* Terms never go back, and a Leader yields only to a later term or to another
\* Leader announced in its own.
THEOREM LeaderYields == Spec => LeaderYieldsToTerm
<1> DEFINE A == \A n \in Node :
          /\ term'[n] >= term[n]
          /\ status[n] = "Leader" /\ status'[n] # "Leader" =>
                \/ term'[n] > term[n]
                \/ \E l \in Node \ {n} : Result(l, term[n]) \in msgs
<1>1. VoteInv /\ [Next]_vars => [A]_vars
  BY TermGrows
<1>2. QED
  BY <1>1, VoteInit, VoteStep, PTL DEF Spec, LeaderYieldsToTerm

-----------------------------------------------------------------------------
(* Majorities.                                                              *)

LeaderInv == VoteInv /\ CountInv /\ ResultNeedsMajority

\* The supporters of a candidate are finitely many and never become fewer.
LEMMA SupportersGrow ==
    ASSUME msgs \subseteq msgs', NEW c, NEW t
    PROVE  /\ Supporters(c, t) \subseteq Supporters(c, t)'
           /\ IsFiniteSet(Supporters(c, t)) /\ IsFiniteSet(Supporters(c, t)')
           /\ Cardinality(Supporters(c, t)) \in Nat
           /\ Cardinality(Supporters(c, t)') \in Nat
           /\ Cardinality(Supporters(c, t)) <= Cardinality(Supporters(c, t)')
<1>1. Supporters(c, t) \subseteq Supporters(c, t)'
  BY DEF Supporters, VotedFor
<1>2. Supporters(c, t) \subseteq Node /\ Supporters(c, t)' \subseteq Node
  BY DEF Supporters
<1>3. IsFiniteSet(Supporters(c, t)) /\ IsFiniteSet(Supporters(c, t)')
  BY <1>2, NodeAssumption, FS_Subset
<1>4. Cardinality(Supporters(c, t)) <= Cardinality(Supporters(c, t)')
  BY <1>1, <1>3, FS_Subset
<1>5. QED
  BY <1>1, <1>3, <1>4, FS_CardinalityType

\* A step keeps the majorities if the Leaders that it announces have one, and
\* every candidate's count is the old one or is a count of votes of its term.
LEMMA CountKept ==
    ASSUME LeaderInv, VoteInv', msgs \subseteq msgs',
           \A m \in msgs' \ msgs : m.type = "ElectionResult" =>
               2 * Cardinality(Supporters(m.from, m.term)) > Cardinality(Known[m.from]) + 1,
           \A v \in Node :
               status'[v] = "Candidate" /\ Request(v, term'[v]) \in msgs' =>
                  \/ /\ status[v] = "Candidate"
                     /\ term'[v] = term[v]
                     /\ votes_received'[v] = votes_received[v]
                     /\ Request(v, term[v]) \in msgs
                  \/ votes_received'[v] \subseteq Supporters(v, term[v])'
    PROVE  LeaderInv'
<1>1. ASSUME NEW l \in Node, NEW t \in 1..MaxTerm, Result(l, t) \in msgs'
      PROVE  2 * Cardinality(Supporters(l, t)') > Cardinality(Known[l]) + 1
  <2>1. Result(l, t).type = "ElectionResult" /\ Result(l, t).from = l
        /\ Result(l, t).term = t
    BY Fields
  <2>2. 2 * Cardinality(Supporters(l, t)) > Cardinality(Known[l]) + 1
    BY <1>1, <2>1 DEF LeaderInv, ResultNeedsMajority
  <2>3. Cardinality(Known[l]) \in Nat
    BY NodeAssumption, KnownAssumption, FS_Subset, FS_CardinalityType
  <2>4. QED
    BY <2>2, <2>3, SupportersGrow
<1>2. ASSUME NEW v \in Node, status'[v] = "Candidate",
             Request(v, term'[v]) \in msgs'
      PROVE  votes_received'[v] \subseteq Supporters(v, term[v])'
  <2>1. CASE /\ status[v] = "Candidate"
             /\ term'[v] = term[v]
             /\ votes_received'[v] = votes_received[v]
             /\ Request(v, term[v]) \in msgs
    <3>1. votes_received[v] \subseteq Supporters(v, term[v])
      BY <2>1 DEF LeaderInv, CountInv
    <3>2. QED
      BY <2>1, <3>1 DEF Supporters, VotedFor
  <2>2. QED
    BY <1>2, <2>1
<1>3. CountInv'
  BY <1>2 DEF CountInv
<1>4. ResultNeedsMajority'
  BY <1>1 DEF ResultNeedsMajority
<1>5. QED
  BY <1>3, <1>4 DEF LeaderInv

\* A step preserves the majorities behind the announced Leaders.
LEMMA LeaderStep == LeaderInv /\ [Next]_vars => LeaderInv'
<1>1. CASE LeaderInv /\ UNCHANGED vars
  <2>1. VoteInv'
    BY <1>1, VoteStep DEF LeaderInv
  <2>2. QED
    BY <1>1, <2>1, CountKept DEF vars, nodeVars
<1>2. ASSUME LeaderInv, Next PROVE LeaderInv'
  <2>1. VoteInv'
    BY <1>2, VoteStep DEF LeaderInv
  <2>2. PICK n \in Node :
          \/ SetRegistry(n)
          \/ ResetHeartbeatMonitor(n)
          \/ RecordMissedHeartbeat(n)
          \/ StartElection(n)
          \/ \E l \in Node : RequestSync(n, l)
          \/ \E m \in msgs : HandleMessage(n, m)
    BY <1>2 DEF Next
  <2>3. TypeOK /\ VoteInv /\ term[n] \in 0..MaxTerm
    BY <1>2 DEF LeaderInv, VoteInv, TypeOK
  <2>4. CASE SetRegistry(n) \/ ResetHeartbeatMonitor(n) \/ RecordMissedHeartbeat(n)
    BY <1>2, <2>1, <2>4, CountKept
       DEF SetRegistry, ResetHeartbeatMonitor, RecordMissedHeartbeat
  <2>5. CASE StartElection(n)
    <3>1. /\ term' = [term EXCEPT ![n] = term[n] + 1]
          /\ votes_received' = [votes_received EXCEPT ![n] = {n}]
          /\ status' = [status EXCEPT ![n] = "Candidate"]
          /\ msgs' = msgs \cup {Request(n, term[n] + 1)}
      BY <2>5 DEF StartElection
    <3>2. \A v \in Node : v # n =>
            /\ term'[v] = term[v] /\ status'[v] = status[v]
            /\ votes_received'[v] = votes_received[v]
            /\ Request(v, term'[v]) \in msgs' => Request(v, term[v]) \in msgs
      BY <2>3, <3>1, Fields DEF TypeOK
    <3>3. votes_received'[n] \subseteq Supporters(n, term[n])'
      <4>1. term'[n] = term[n] + 1 /\ votes_received'[n] = {n}
        BY <2>3, <3>1 DEF TypeOK
      <4>2. QED
        BY <3>1, <4>1 DEF Supporters, VotedFor
    <3>4. \A m \in msgs' \ msgs : m.type # "ElectionResult"
      BY <3>1, Fields
    <3>5. QED
      BY <1>2, <2>1, <3>1, <3>2, <3>3, <3>4, CountKept
  <2>6. CASE \E l \in Node : RequestSync(n, l)
    <3>1. PICK l \in Node : RequestSync(n, l)
      BY <2>6
    <3>2. UNCHANGED nodeVars /\ msgs' = msgs \cup {Sync(n, l, term[n])}
      BY <3>1 DEF RequestSync
    <3>3. QED
      BY <1>2, <2>1, <3>2, CountKept, Fields DEF nodeVars
  <2>7. CASE \E m \in msgs : HandleMessage(n, m)
    <3>1. PICK m \in msgs : HandleMessage(n, m)
      BY <2>7
    <3>2. m.from \in Node /\ m.term \in 0..MaxTerm
      BY <2>3, Built
    <3>3. ASSUME BecomeFollower(n, m.term, m.from), msgs' = msgs PROVE LeaderInv'
      <4>1. /\ status' = [status EXCEPT ![n] = "Follower"]
            /\ votes_received' = [votes_received EXCEPT ![n] = {}]
            /\ \A v \in Node : v # n => term'[v] = term[v]
        BY <2>3, <3>3 DEF BecomeFollower, TypeOK
      <4>2. QED
        BY <1>2, <2>1, <2>3, <3>3, <4>1, CountKept DEF TypeOK
    <3>4. CASE HandleElectionRequest(n, m)
      <4>1. CASE m.term < term[n]
        <5>1. UNCHANGED nodeVars /\ msgs' = msgs \cup {Denial(n, m.from, m.term)}
          BY <3>4, <4>1 DEF HandleElectionRequest
        <5>2. QED
          BY <1>2, <2>1, <5>1, CountKept, Fields DEF nodeVars
      <4>2. CASE ~ (m.term < term[n])
        <5>1. PICK g \in BOOLEAN : Answers(n, m, g)
          BY <3>4, <4>2, RequestAnswered
        <5>2. PICK a : /\ msgs' = msgs \cup {a} /\ a.type = "ElectionVote"
          BY <5>1, Fields DEF Answers
        <5>3. \A v \in Node :
                status'[v] = "Candidate" => /\ status[v] = "Candidate"
                                            /\ term'[v] = term[v]
                                            /\ votes_received'[v] = votes_received[v]
          BY <2>3, <3>2, <4>2, <5>1 DEF Answers, TypeOK
        <5>4. \A v \in Node, t \in 0..MaxTerm :
                Request(v, t) \in msgs' => Request(v, t) \in msgs
          BY <5>2, Fields
        <5>5. \A v \in Node : term[v] \in 0..MaxTerm
          BY <2>3 DEF TypeOK
        <5>6. QED
          BY <1>2, <2>1, <5>2, <5>3, <5>4, <5>5, CountKept
      <4>3. QED
        BY <4>1, <4>2
    <3>5. CASE HandleElectionVote(n, m)
      <4> DEFINE S == votes_received[n] \cup {m.from}
      <4>1. /\ status[n] = "Candidate"
            /\ votes_received' = [votes_received EXCEPT ![n] = S]
            /\ m.term = term[n]
            /\ m = Grant(m.from, n, term[n])
        BY <2>3, <3>5, Built DEF HandleElectionVote, CountVote
      <4>2. Request(n, term[n]) \in msgs
        BY <2>3, <3>2, <4>1 DEF VoteInv, AnswerInv
      <4>3. S \subseteq Supporters(n, term[n])
        BY <1>2, <3>2, <4>1, <4>2 DEF LeaderInv, CountInv, Supporters, VotedFor
      <4>4. CASE IsMajority(n, S)
        <5>1. /\ status' = [status EXCEPT ![n] = "Leader"]
              /\ term' = term
              /\ msgs' = msgs \cup Announcements(n)
          BY <3>5, <4>4 DEF HandleElectionVote, CountVote, BecomeLeader
        <5>2. 2 * Cardinality(Supporters(n, term[n])) > Cardinality(Known[n]) + 1
          <6>1. IsFiniteSet(Supporters(n, term[n])) /\ IsFiniteSet(Known[n])
            BY NodeAssumption, KnownAssumption, FS_Subset DEF Supporters
          <6>2. /\ Cardinality(S) <= Cardinality(Supporters(n, term[n]))
                /\ Cardinality(S) \in Nat
                /\ Cardinality(Supporters(n, term[n])) \in Nat
                /\ Cardinality(Known[n]) \in Nat
            BY <4>3, <6>1, FS_Subset, FS_CardinalityType
          <6>3. Cardinality(S) > (Cardinality(Known[n]) + 1) \div 2
            BY <4>4 DEF IsMajority
          <6>4. \A k, s, p \in Nat : s > (k + 1) \div 2 /\ s <= p => 2 * p > k + 1
            OBVIOUS
          <6>5. QED
            BY <6>2, <6>3, <6>4
        <5>3. \A a \in msgs' \ msgs :
                a = Result(n, term[n]) \/ a = Change(n, term[n])
          BY <5>1 DEF Announcements
        <5>4. \A a \in msgs' \ msgs :
                /\ a.type # "ElectionRequest"
                /\ a.type = "ElectionResult" => a.from = n /\ a.term = term[n]
          BY <5>3, Fields
        <5>5. \A v \in Node :
                status'[v] = "Candidate" /\ Request(v, term'[v]) \in msgs' =>
                  /\ status[v] = "Candidate"
                  /\ votes_received'[v] = votes_received[v]
                  /\ Request(v, term[v]) \in msgs
          BY <2>3, <4>1, <5>1, <5>4, Fields DEF TypeOK
        <5>6. QED
          BY <1>2, <2>1, <5>1, <5>2, <5>4, <5>5, CountKept
      <4>5. CASE ~ IsMajority(n, S)
        <5>1. UNCHANGED <<status, term, msgs>>
          BY <3>5, <4>5 DEF HandleElectionVote, CountVote
        <5>2. S \subseteq Supporters(n, term[n])'
          BY <4>3, <5>1 DEF Supporters, VotedFor
        <5>3. votes_received'[n] = S
              /\ \A v \in Node : v # n => votes_received'[v] = votes_received[v]
          BY <2>3, <4>1 DEF TypeOK
        <5>4. QED
          BY <1>2, <2>1, <5>1, <5>2, <5>3, CountKept
      <4>6. QED
        BY <4>4, <4>5
    <3>6. CASE HandleElectionResult(n, m)
      BY <3>3, <3>6 DEF HandleElectionResult
    <3>7. CASE HandleRegistryChange(n, m)
      BY <3>3, <3>7 DEF HandleRegistryChange
    <3>8. CASE HandleRegistrySync(n, m)
      <4>1. CASE m.term > term[n]
        BY <3>3, <3>8, <4>1 DEF HandleRegistrySync
      <4>2. CASE ~ (m.term > term[n])
        <5>1. UNCHANGED nodeVars /\ msgs' = msgs \cup {SyncResponse(n, m.from, term[n])}
          BY <3>8, <4>2 DEF HandleRegistrySync
        <5>2. QED
          BY <1>2, <2>1, <5>1, CountKept, Fields DEF nodeVars
      <4>3. QED
        BY <4>1, <4>2
    <3>9. CASE HandleSyncResponse(n, m)
      <4>1. /\ term' = [term EXCEPT ![n] = IF m.term > term[n] THEN m.term ELSE term[n]]
            /\ UNCHANGED <<status, votes_received, msgs>>
        BY <3>9 DEF HandleSyncResponse
      <4>2. \A v \in Node : term'[v] = term[v] \/ term'[v] > term[v]
        BY <2>3, <3>2, <4>1 DEF TypeOK
      <4>3. \A v \in Node : term'[v] > term[v] => Request(v, term'[v]) \notin msgs
        BY <2>3, <2>1, Fields DEF VoteInv, TypeOK, SentInv
      <4>4. QED
        BY <1>2, <2>1, <4>1, <4>2, <4>3, CountKept
    <3>10. QED
      BY <3>1, <3>4, <3>5, <3>6, <3>7, <3>8, <3>9 DEF HandleMessage
  <2>8. QED
    BY <2>2, <2>4, <2>5, <2>6, <2>7
<1>3. QED
  BY <1>1, <1>2

\* Every announced Leader had the votes of more than half of the nodes it
\* counts, all of them cast in the term it was announced for.
THEOREM MajorityElects == Spec => []ResultNeedsMajority
<1>1. Init => LeaderInv
  BY VoteInit DEF Init, LeaderInv, CountInv, ResultNeedsMajority
<1>2. LeaderInv => ResultNeedsMajority
  BY DEF LeaderInv
<1>3. QED
  BY <1>1, <1>2, LeaderStep, PTL DEF Spec

-----------------------------------------------------------------------------
(* The store: the two maps agree, and data that is not marked dirty is on   *)
(* disk.                                                                    *)

Calls == [pc : Places, kind : Kinds \cup {"none"}, name : Names \cup {NoEntry}, id : Nodes \cup {NoEntry},
          old : Nodes \cup {NoEntry}, snap : Registry]
RegistryFiles == [kind : {"data", "empty", "torn"}, data : Registry]

\* The types, with what they say of a thread that is at work, and the one lock that is
\* held between steps: exactly by the threads that copy.
StoreTypes ==
    /\ data \in Registry
    /\ dirty \in BOOLEAN
    /\ locked \in [Locks -> SUBSET (Threads \X {"read", "write"})]
    /\ call \in [Threads -> Calls]
    /\ file \in RegistryFiles
    /\ now \in 0..MaxTime /\ ops \in 0..MaxOps /\ crashes \in 0..MaxCrash
    /\ raced \in BOOLEAN
    /\ suspect \subseteq Names

AtWork(c) == c.pc # "idle" => c.kind \in Kinds /\ c.name \in Names /\ c.id \in Nodes

StoreInv ==
    /\ StoreTypes
    /\ locked["reverse"] = {}
    /\ \A t \in Threads : <<t, "read">> \in locked["names"] <=> call[t].pc = "copy"
    /\ \A h \in locked["names"] : h[2] = "read"
    /\ \A t \in Threads : AtWork(call[t])

LEMMA Shapes ==
    /\ NoData \in Registry /\ (\A n \in Names : NoData.names[n] = NoEntry) /\ (\A i \in Nodes : NoData.reverse[i] = NoEntry)
    /\ Idle \in Calls /\ Idle.pc = "idle"
    /\ NoFile \in RegistryFiles /\ Torn \in RegistryFiles /\ NoFile.data = NoData /\ Torn.data = NoData
    /\ \A d \in Registry : Saved(d) \in RegistryFiles /\ Saved(d).data = d
    /\ \A k \in Kinds, n \in Names, i \in Nodes :
          /\ Call(k, n, i) \in Calls /\ Call(k, n, i).pc = "names" /\ Call(k, n, i).kind = k
          /\ Call(k, n, i).name = n /\ Call(k, n, i).id = i
<1>1. NoData \in Registry /\ (\A n \in Names : NoData.names[n] = NoEntry) /\ (\A i \in Nodes : NoData.reverse[i] = NoEntry)
  BY DEF NoData, Registry
<1> HIDE DEF NoData
<1>2. Idle \in Calls /\ Idle.pc = "idle"
  BY <1>1 DEF Idle, Calls, Places
<1>3. NoFile \in RegistryFiles /\ Torn \in RegistryFiles /\ NoFile.data = NoData /\ Torn.data = NoData
  BY <1>1 DEF NoFile, Torn, RegistryFiles
<1>4. \A d \in Registry : Saved(d) \in RegistryFiles /\ Saved(d).data = d
  BY DEF Saved, RegistryFiles
<1>5. ASSUME NEW k \in Kinds, NEW n \in Names, NEW i \in Nodes
      PROVE  /\ Call(k, n, i) \in Calls /\ Call(k, n, i).pc = "names" /\ Call(k, n, i).kind = k
             /\ Call(k, n, i).name = n /\ Call(k, n, i).id = i
  BY <1>1 DEF Call, Calls, Places
<1>6. QED
  BY <1>1, <1>2, <1>3, <1>4, <1>5

\* The call of one thread changes.
LEMMA CallReplaced ==
    ASSUME StoreTypes, NEW t \in Threads, NEW r \in Calls, call' = [call EXCEPT ![t] = r]
    PROVE  call' \in [Threads -> Calls] /\ call'[t] = r /\ \A u \in Threads \ {t} : call'[u] = call[u]
BY DEF StoreTypes

\* It goes on, with its arguments, ...
LEMMA GoesTo ==
    ASSUME StoreInv, NEW t \in Threads, NEW where \in Places, GoTo(t, where), call[t].pc # "idle"
    PROVE  /\ call' \in [Threads -> Calls] /\ \A u \in Threads : AtWork(call'[u])
           /\ call'[t].pc = where /\ call'[t].snap = call[t].snap
           /\ \A u \in Threads \ {t} : call'[u] = call[u]
<1> DEFINE r == [call[t] EXCEPT !.pc = where]
<1>1. call[t] \in Calls
  BY DEF StoreInv, StoreTypes
<1>2. /\ r \in Calls /\ r.pc = where /\ r.kind = call[t].kind /\ r.name = call[t].name /\ r.id = call[t].id
      /\ r.snap = call[t].snap
  BY <1>1 DEF Calls
<1>3. call' = [call EXCEPT ![t] = r]
  BY DEF GoTo
<1> HIDE DEF r
<1>4. call' \in [Threads -> Calls] /\ call'[t] = r /\ \A u \in Threads \ {t} : call'[u] = call[u]
  BY <1>2, <1>3, CallReplaced DEF StoreInv
<1>5. QED
  BY <1>2, <1>4 DEF StoreInv, AtWork

\* ... or returns.
LEMMA Returns ==
    ASSUME StoreInv, NEW t \in Threads, Return(t)
    PROVE  /\ call' \in [Threads -> Calls] /\ \A u \in Threads : AtWork(call'[u])
           /\ call'[t].pc = "idle"
           /\ \A u \in Threads \ {t} : call'[u] = call[u]
<1>1. call' \in [Threads -> Calls] /\ call'[t] = Idle /\ \A u \in Threads \ {t} : call'[u] = call[u]
  BY Shapes, CallReplaced DEF StoreInv, Return
<1>2. QED
  BY <1>1, Shapes DEF StoreInv, AtWork

\* register and upsert change the entry of the name.
LEMMA NamesChanged ==
    ASSUME StoreInv, NEW t \in Threads, ChangeNames(t)
    PROVE  /\ data' \in Registry /\ data'.reverse = data.reverse
           /\ data'.names[call[t].name] # NoEntry /\ data'.names[call[t].name].id = call[t].id
           /\ \A n \in Names \ {call[t].name} : data'.names[n] = data.names[n]
           /\ call' \in [Threads -> Calls] /\ \A u \in Threads : AtWork(call'[u])
           /\ call'[t].pc = "reverse" /\ call'[t].name = call[t].name /\ call'[t].id = call[t].id
           /\ call'[t].old = (IF call[t].kind = "upsert" /\ Present(t) # NoEntry THEN Present(t).id ELSE NoEntry)
           /\ \A u \in Threads \ {t} : call'[u] = call[u]
<1> DEFINE c == call[t]
           e == [id |-> c.id, seen |-> now]
           names == [data.names EXCEPT ![c.name] = e]
           old == IF c.kind = "upsert" /\ Present(t) # NoEntry THEN Present(t).id ELSE NoEntry
           r == [c EXCEPT !.pc = "reverse", !.old = old]
<1>1. c \in Calls /\ c.name \in Names /\ c.id \in Nodes /\ c.pc = "names"
  BY DEF ChangeNames, At, StoreInv, StoreTypes, AtWork
<1>2. old \in Nodes \cup {NoEntry}
  <2>1. Present(t) \in Entry \cup {NoEntry}
    BY <1>1 DEF Present, StoreInv, StoreTypes, Registry
  <2>2. QED
    BY <2>1 DEF Entry
<1>3. e \in Entry /\ e.id = c.id
  BY <1>1, StoreBoundAssumption DEF Entry, StoreInv, StoreTypes
<1>4. data' = [data EXCEPT !.names = names]
  BY DEF ChangeNames
<1>5. call' = [call EXCEPT ![t] = r]
  BY DEF ChangeNames
<1> HIDE DEF e, old, c
<1>6. names \in [Names -> Entry \cup {NoEntry}] /\ names[c.name] = e /\ \A n \in Names \ {c.name} : names[n] = data.names[n]
  BY <1>1, <1>3 DEF StoreInv, StoreTypes, Registry
<1> HIDE DEF names
<1>7. data' \in Registry /\ data'.reverse = data.reverse /\ data'.names = names
  BY <1>4, <1>6 DEF StoreInv, StoreTypes, Registry
<1>8. r \in Calls /\ r.pc = "reverse" /\ r.kind = c.kind /\ r.name = c.name /\ r.id = c.id /\ r.old = old
  BY <1>1, <1>2 DEF Calls, Places
<1> HIDE DEF r
<1>9. call' \in [Threads -> Calls] /\ call'[t] = r /\ \A u \in Threads \ {t} : call'[u] = call[u]
  BY <1>5, <1>8, CallReplaced DEF StoreInv
<1>10. AtWork(r)
  BY <1>1, <1>8 DEF AtWork, StoreInv, c
<1>11. QED
  BY <1>3, <1>6, <1>7, <1>8, <1>9, <1>10, NoEntryAssumption DEF StoreInv, c, old

\* A heartbeat leaves the ids alone.
LEMMA NamesTouched ==
    ASSUME StoreInv, NEW t \in Threads, Touch(t)
    PROVE  /\ data' \in Registry /\ data'.reverse = data.reverse
           /\ \A n \in Names : data.names[n] # NoEntry => data'.names[n] # NoEntry /\ data'.names[n].id = data.names[n].id
<1> DEFINE n0 == call[t].name
           e == [data.names[n0] EXCEPT !.seen = now]
           names == [data.names EXCEPT ![n0] = e]
<1>1. n0 \in Names
  BY DEF Touch, At, StoreInv, AtWork
<1>2. data.names[n0] \in Entry
  BY <1>1 DEF Touch, Rejected, Present, StoreInv, StoreTypes, Registry
<1>3. e \in Entry /\ e.id = data.names[n0].id
  BY <1>2, StoreBoundAssumption DEF Entry, StoreInv, StoreTypes
<1>4. data' = [data EXCEPT !.names = names]
  BY DEF Touch
<1> HIDE DEF e, n0
<1>5. names \in [Names -> Entry \cup {NoEntry}] /\ names[n0] = e /\ \A n \in Names \ {n0} : names[n] = data.names[n]
  BY <1>1, <1>3 DEF StoreInv, StoreTypes, Registry
<1> HIDE DEF names
<1>6. data' \in Registry /\ data'.reverse = data.reverse /\ data'.names = names
  BY <1>4, <1>5 DEF StoreInv, StoreTypes, Registry
<1>7. QED
  BY <1>3, <1>5, <1>6, NoEntryAssumption

LEMMA ReverseChanged ==
    ASSUME StoreInv, NEW t \in Threads, UpdateReverse(t)
    PROVE  data' \in Registry /\ data'.names = data.names /\ data'.reverse = NewReverse(t)
<1> DEFINE rev == NewReverse(t)
<1>1. call[t].name \in Names
  BY DEF UpdateReverse, At, StoreInv, AtWork
<1>2. data.reverse \in [Nodes -> Names \cup {NoEntry}]
  BY DEF StoreInv, StoreTypes, Registry
<1>3. rev \in [Nodes -> Names \cup {NoEntry}]
  BY <1>1, <1>2 DEF NewReverse
<1>4. data' = [data EXCEPT !.reverse = rev]
  BY DEF UpdateReverse
<1> HIDE DEF rev
<1>5. data' \in Registry /\ data'.names = data.names /\ data'.reverse = rev
  BY <1>3, <1>4 DEF StoreInv, StoreTypes, Registry
<1>6. QED
  BY <1>5 DEF rev

\* The two halves of the copy that save_to_file writes.
LEMMA NamesCopied ==
    ASSUME StoreInv, NEW t \in Threads, CopyNames(t)
    PROVE  /\ call' \in [Threads -> Calls] /\ \A u \in Threads : AtWork(call'[u])
           /\ call'[t].pc = "copy" /\ call'[t].snap.names = data.names
           /\ \A u \in Threads \ {t} : call'[u] = call[u]
<1> DEFINE c == call[t]
           s == [c.snap EXCEPT !.names = data.names]
           r == [c EXCEPT !.pc = "copy", !.snap = s]
<1>1. c \in Calls /\ c.snap \in Registry /\ data \in Registry
  BY DEF StoreInv, StoreTypes, Calls
<1>2. call' = [call EXCEPT ![t] = r]
  BY DEF CopyNames
<1>3. s \in Registry /\ s.names = data.names
  BY <1>1 DEF Registry
<1> HIDE DEF s, c
<1>4. r \in Calls /\ r.pc = "copy" /\ r.kind = c.kind /\ r.name = c.name /\ r.id = c.id /\ r.snap = s
  BY <1>1, <1>3 DEF Calls, Places
<1> HIDE DEF r
<1>5. call' \in [Threads -> Calls] /\ call'[t] = r /\ \A u \in Threads \ {t} : call'[u] = call[u]
  BY <1>2, <1>4, CallReplaced DEF StoreInv
<1>6. AtWork(r)
  BY <1>4 DEF AtWork, StoreInv, c, CopyNames, At
<1>7. QED
  BY <1>3, <1>4, <1>5, <1>6 DEF StoreInv

LEMMA ReverseCopied ==
    ASSUME StoreInv, NEW t \in Threads, CopyReverse(t)
    PROVE  /\ call' \in [Threads -> Calls] /\ \A u \in Threads : AtWork(call'[u])
           /\ call'[t].pc = "open" /\ call'[t].snap.names = call[t].snap.names /\ call'[t].snap.reverse = data.reverse
           /\ \A u \in Threads \ {t} : call'[u] = call[u]
<1> DEFINE c == call[t]
           s == [c.snap EXCEPT !.reverse = data.reverse]
           r == [c EXCEPT !.pc = "open", !.snap = s]
<1>1. c \in Calls /\ c.snap \in Registry /\ data \in Registry
  BY DEF StoreInv, StoreTypes, Calls
<1>2. call' = [call EXCEPT ![t] = r]
  BY DEF CopyReverse
<1>3. s \in Registry /\ s.names = c.snap.names /\ s.reverse = data.reverse
  BY <1>1 DEF Registry
<1> HIDE DEF s, c
<1>4. r \in Calls /\ r.pc = "open" /\ r.kind = c.kind /\ r.name = c.name /\ r.id = c.id /\ r.snap = s
  BY <1>1, <1>3 DEF Calls, Places
<1> HIDE DEF r
<1>5. call' \in [Threads -> Calls] /\ call'[t] = r /\ \A u \in Threads \ {t} : call'[u] = call[u]
  BY <1>2, <1>4, CallReplaced DEF StoreInv
<1>6. AtWork(r)
  BY <1>4 DEF AtWork, StoreInv, c, CopyReverse, At
<1>7. QED
  BY <1>3, <1>4, <1>5, <1>6 DEF StoreInv, c

\* What a write leaves is a file, with all of the copy or nothing.
LEMMA FileWritten ==
    ASSUME StoreInv, NEW t \in Threads, Write(t)
    PROVE  file' \in RegistryFiles /\ (file'.data = call[t].snap \/ file'.data = NoData)
<1>1. call[t].snap \in Registry
  BY DEF StoreInv, StoreTypes, Calls
<1>2. file.kind \in {"data", "empty", "torn"}
  BY DEF StoreInv, StoreTypes, RegistryFiles
<1>3. file' = Saved(call[t].snap) \/ file' = Torn
  BY <1>2 DEF Write, Overwritten
<1>4. QED
  BY <1>1, <1>3, Shapes

-----------------------------------------------------------------------------
(* The types and the lock. *)

\* A step that takes or releases no lock.
LEMMA TypesKept ==
    ASSUME StoreInv, UNCHANGED locked, call' \in [Threads -> Calls], \A u \in Threads : AtWork(call'[u]),
           \A u \in Threads : call'[u].pc = "copy" <=> call[u].pc = "copy",
           data' \in Registry, dirty' \in BOOLEAN, file' \in RegistryFiles, raced' \in BOOLEAN, suspect' \subseteq Names,
           now' \in 0..MaxTime, ops' \in 0..MaxOps, crashes' \in 0..MaxCrash
    PROVE  StoreInv'
<1>1. StoreTypes'
  BY DEF StoreInv, StoreTypes
<1>2. \A u \in Threads : AtWork(call[u])'
  <2>1. ASSUME NEW u \in Threads PROVE AtWork(call[u])'
    BY DEF AtWork
  <2>2. QED
    BY <2>1
<1>3. QED
  BY <1>1, <1>2 DEF StoreInv

LEMMA StoreStep ==
    ASSUME StoreInv, StoreNext
    PROVE  StoreInv'
<1> USE DEF historyVars, boundVars
<1>0. /\ data \in Registry /\ dirty \in BOOLEAN /\ file \in RegistryFiles /\ raced \in BOOLEAN /\ suspect \subseteq Names
      /\ now \in 0..MaxTime /\ ops \in 0..MaxOps /\ crashes \in 0..MaxCrash
      /\ call \in [Threads -> Calls] /\ \A u \in Threads : AtWork(call[u])
  BY DEF StoreInv, StoreTypes
<1>1. CASE CrashAndLoad
  <2>1. file.data \in Registry
    BY DEF StoreInv, StoreTypes, RegistryFiles
  <2>2. call' \in [Threads -> Calls] /\ (\A u \in Threads : call'[u].pc = "idle") /\ crashes' \in 0..MaxCrash
    BY <1>0, <1>1, Shapes, StoreBoundAssumption DEF CrashAndLoad
  <2>3. StoreTypes'
    BY <1>0, <1>1, <2>1, <2>2 DEF CrashAndLoad, StoreTypes
  <2>4. ASSUME NEW u \in Threads PROVE AtWork(call[u])'
    BY <2>2 DEF AtWork
  <2>5. locked'["reverse"] = {} /\ locked'["names"] = {}
    BY <1>1 DEF CrashAndLoad, Locks
  <2>6. QED
    BY <2>2, <2>3, <2>4, <2>5 DEF StoreInv
<1>2. CASE Tick
  BY <1>0, <1>2, TypesKept, StoreBoundAssumption DEF Tick
<1>3. ASSUME NEW t \in Threads, Begin(t) PROVE StoreInv'
  <2>1. PICK k \in Kinds, n \in Names, i \in Nodes : call' = [call EXCEPT ![t] = Call(k, n, i)]
    BY <1>3, RequestAssumption DEF Begin
  <2>2. call' \in [Threads -> Calls] /\ call'[t] = Call(k, n, i) /\ \A u \in Threads \ {t} : call'[u] = call[u]
    BY <2>1, Shapes, CallReplaced DEF StoreInv
  <2>3. call'[t].pc = "names" /\ AtWork(call'[t]) /\ call[t].pc = "idle"
    BY <1>3, <2>2, Shapes DEF AtWork, Begin, At
  <2>4. ops' \in 0..MaxOps
    BY <1>0, <1>3, StoreBoundAssumption DEF Begin
  <2>5. QED
    BY <1>0, <1>3, <2>2, <2>3, <2>4, TypesKept DEF Begin
<1>4. ASSUME NEW t \in Threads, Refuse(t) PROVE StoreInv'
  BY <1>0, <1>4, Returns, TypesKept DEF Refuse, At
<1>5. ASSUME NEW t \in Threads, UpdateNames(t) PROVE StoreInv'
  <2>1. ChangeNames(t) /\ UNCHANGED <<locked, dirty, file, now, ops, crashes>> /\ call[t].pc = "names"
    BY <1>5 DEF UpdateNames, ChangeNames, At
  <2>4. raced' \in BOOLEAN
    BY <2>1, Zenon DEF ChangeNames, ChangedBehindCopy
  <2>2. suspect' \subseteq Names
    BY <1>0, <2>1 DEF ChangeNames, StoreInv, AtWork
  <2>3. QED
    BY <1>0, <2>1, <2>2, <2>4, NamesChanged, TypesKept
<1>6. ASSUME NEW t \in Threads, Touch(t) PROVE StoreInv'
  <2>1. raced' \in BOOLEAN
    BY <1>6, Zenon DEF Touch, ChangedBehindCopy
  <2>2. QED
    BY <1>0, <1>6, <2>1, NamesTouched, GoesTo, TypesKept DEF Touch, At, Places
<1>7. ASSUME NEW t \in Threads, UpdateReverse(t) PROVE StoreInv'
  <2>1. raced' \in BOOLEAN
    BY <1>7, Zenon DEF UpdateReverse, ChangedBehindCopy
  <2>2. QED
    BY <1>0, <1>7, <2>1, ReverseChanged, GoesTo, TypesKept DEF UpdateReverse, At, Places
<1>8. ASSUME NEW t \in Threads, SetDirty(t) PROVE StoreInv'
  BY <1>0, <1>8, GoesTo, TypesKept DEF SetDirty, At, Places
<1>9. ASSUME NEW t \in Threads, CheckDirty(t) PROVE StoreInv'
  <2>1. raced' \in BOOLEAN
    BY <1>9, Zenon DEF CheckDirty
  <2>2. CASE dirty
    BY <1>0, <1>9, <2>1, <2>2, GoesTo, TypesKept DEF CheckDirty, At, Places
  <2>3. CASE ~ dirty
    BY <1>0, <1>9, <2>1, <2>3, Returns, TypesKept DEF CheckDirty, At
  <2>4. QED
    BY <2>2, <2>3
<1>10. ASSUME NEW t \in Threads, LockNames(t) PROVE StoreInv'
  <2>1. CopyNames(t) /\ UNCHANGED <<data, dirty, file, now, ops, crashes, raced, suspect>>
    BY <1>10 DEF LockNames, CopyNames
  <2>2. /\ call' \in [Threads -> Calls] /\ (\A u \in Threads : AtWork(call'[u]))
        /\ call'[t].pc = "copy" /\ \A u \in Threads \ {t} : call'[u] = call[u]
    BY <2>1, NamesCopied
  <2>3. /\ locked' \in [Locks -> SUBSET (Threads \X {"read", "write"})] /\ locked'["reverse"] = {}
        /\ locked'["names"] = locked["names"] \cup {<<t, "read">>}
    BY <1>10 DEF LockNames, StoreInv, StoreTypes, Locks
  <2>4. StoreTypes'
    BY <1>0, <2>1, <2>2, <2>3 DEF StoreTypes
  <2>5. ASSUME NEW u \in Threads PROVE AtWork(call[u])'
    BY <2>2 DEF AtWork
  <2>6. \A u \in Threads : <<u, "read">> \in locked'["names"] <=> call'[u].pc = "copy"
    BY <2>2, <2>3 DEF StoreInv
  <2>7. \A h \in locked'["names"] : h[2] = "read"
    BY <2>3 DEF StoreInv
  <2>8. QED
    BY <2>3, <2>4, <2>5, <2>6, <2>7 DEF StoreInv
<1>11. ASSUME NEW t \in Threads, Copy(t) PROVE StoreInv'
  <2>1. CopyReverse(t) /\ UNCHANGED <<data, dirty, file, now, ops, crashes, raced>> /\ suspect' \subseteq Names
    BY <1>0, <1>11 DEF Copy, CopyReverse
  <2>2. /\ call' \in [Threads -> Calls] /\ (\A u \in Threads : AtWork(call'[u]))
        /\ call'[t].pc = "open" /\ \A u \in Threads \ {t} : call'[u] = call[u]
    BY <2>1, ReverseCopied
  <2>3. /\ locked' \in [Locks -> SUBSET (Threads \X {"read", "write"})] /\ locked'["reverse"] = {}
        /\ locked'["names"] = locked["names"] \ {<<t, "read">>}
    BY <2>1 DEF CopyReverse, StoreInv, StoreTypes, Locks
  <2>4. StoreTypes'
    BY <1>0, <2>1, <2>2, <2>3 DEF StoreTypes
  <2>5. ASSUME NEW u \in Threads PROVE AtWork(call[u])'
    BY <2>2 DEF AtWork
  <2>6. \A u \in Threads : <<u, "read">> \in locked'["names"] <=> call'[u].pc = "copy"
    BY <2>2, <2>3 DEF StoreInv
  <2>7. \A h \in locked'["names"] : h[2] = "read"
    BY <2>3 DEF StoreInv
  <2>8. QED
    BY <2>3, <2>4, <2>5, <2>6, <2>7 DEF StoreInv
<1>12. ASSUME NEW t \in Threads, Open(t) PROVE StoreInv'
  BY <1>0, <1>12, Shapes, GoesTo, TypesKept DEF Open, At, Places
<1>13. ASSUME NEW t \in Threads, Write(t) PROVE StoreInv'
  BY <1>0, <1>13, FileWritten, GoesTo, TypesKept DEF Write, At, Places
<1>14. ASSUME NEW t \in Threads, FailSave(t) PROVE StoreInv'
  <2>1. file' \in RegistryFiles /\ call[t].pc \in {"open", "write"}
    BY <1>0, <1>14, Shapes DEF FailSave, At
  <2>2. QED
    BY <1>0, <1>14, <2>1, Returns, TypesKept DEF FailSave, AfterError
<1>15. ASSUME NEW t \in Threads, ClearDirty(t) PROVE StoreInv'
  <2>1. dirty' \in BOOLEAN
    BY <1>15, Zenon DEF ClearDirty
  <2>2. QED
    BY <1>0, <1>15, <2>1, Returns, TypesKept DEF ClearDirty, At
<1>16. QED
  BY <1>1, <1>2, <1>3, <1>4, <1>5, <1>6, <1>7, <1>8, <1>9, <1>10, <1>11, <1>12, <1>13, <1>14, <1>15 DEF StoreNext, Go

LEMMA StoreInvHolds == StoreSpec => []StoreInv
<1>1. StoreInit => StoreInv
  <2> SUFFICES ASSUME StoreInit PROVE StoreInv
    OBVIOUS
  <2>1. StoreTypes
    <3>1. dirty \in BOOLEAN /\ raced \in BOOLEAN
      BY DEF StoreInit
    <3>2. now \in 0..MaxTime /\ ops \in 0..MaxOps /\ crashes \in 0..MaxCrash
      BY StoreBoundAssumption DEF StoreInit
    <3>3. call \in [Threads -> Calls] /\ data \in Registry /\ file \in RegistryFiles
      BY Shapes DEF StoreInit
    <3>4. QED
      BY <3>1, <3>2, <3>3 DEF StoreInit, StoreTypes
  <2>2. \A t \in Threads : call[t].pc = "idle"
    BY Shapes DEF StoreInit
  <2>3. locked["names"] = {} /\ locked["reverse"] = {}
    BY DEF StoreInit, Locks
  <2>4. QED
    BY <2>1, <2>2, <2>3 DEF StoreInv, AtWork
<1>2. StoreInv /\ [StoreNext]_storeVars => StoreInv'
  <2> SUFFICES ASSUME StoreInv, [StoreNext]_storeVars PROVE StoreInv'
    OBVIOUS
  <2>1. CASE UNCHANGED storeVars
    BY <2>1, TypesKept DEF storeVars, boundVars, historyVars, StoreInv, StoreTypes
  <2>2. QED
    BY <2>1, StoreStep
<1>3. QED
  BY <1>1, <1>2, PTL DEF StoreSpec

\* Every state is well typed, and the only lock that a thread holds between two steps is
\* the one on names, for reading, while save_to_file copies (center.rs, save_to_file).
THEOREM StoreTypeCorrect == StoreSpec => []StoreTypeOK
<1>1. StoreInv => StoreTypeOK
  <2> SUFFICES ASSUME StoreInv PROVE StoreTypeOK
    OBVIOUS
  <2>1. locked["names"] \subseteq {<<t, "read">> : t \in {u \in Threads : At(u, "copy")}}
    <3> SUFFICES ASSUME NEW h \in locked["names"] PROVE \E t \in Threads : At(t, "copy") /\ h = <<t, "read">>
      OBVIOUS
    <3>1. h \in Threads \X {"read", "write"} /\ h[2] = "read"
      BY DEF StoreInv, StoreTypes, Locks
    <3>2. QED
      BY <3>1 DEF StoreInv, At
  <2>2. QED
    BY <2>1 DEF StoreInv, StoreTypes, StoreTypeOK, Calls, RegistryFiles
<1>2. QED
  BY <1>1, StoreInvHolds, PTL

-----------------------------------------------------------------------------
(* The data on disk. *)

\* A thread that saves, from the moment it found the mark set.
InSave(t) == call[t].pc \in {"lock", "copy", "open", "write", "clear"}

\* How far the save of t has brought the data.
Progress(t) ==
    /\ call[t].pc = "copy" => call[t].snap.names = data.names
    /\ call[t].pc \in {"open", "write", "clear"} => call[t].snap = data
    /\ call[t].pc = "write" => file.kind = "empty"
    /\ call[t].pc = "clear" => file.data = data

\* Undisturbed so far, one thread at most saves, with the mark set; what it has copied
\* is still the data; and with the mark clear the file has the data, unless a thread
\* that changed it has still to set the mark.
SavedInv ==
    ~ raced =>
        /\ \A t, u \in Threads : InSave(t) /\ InSave(u) => t = u
        /\ \A t \in Threads : InSave(t) => dirty /\ Progress(t)
        /\ ~ dirty => file.data = data \/ \E t \in Threads : call[t].pc \in {"reverse", "dirty"}

\* Two copies of the registry with the same maps are the same.
LEMMA SameRegistry ==
    ASSUME NEW d \in Registry, NEW e \in Registry, d.names = e.names, d.reverse = e.reverse
    PROVE  d = e
  BY DEF Registry

\* A thread that is not saving changes the data and has the mark still to set.
LEMMA ChangeKeepsSaved ==
    ASSUME StoreInv, SavedInv, NEW t \in Threads, ChangedBehindCopy(t), UNCHANGED <<dirty, file>>,
           call[t].pc \in {"names", "reverse"}, call'[t].pc \in {"reverse", "dirty"},
           \A u \in Threads \ {t} : call'[u] = call[u],
           data'.names = data.names \/ MayWrite("names")
    PROVE  SavedInv'
<1> SUFFICES ASSUME ~ raced' PROVE SavedInv'
  BY DEF SavedInv
<1>1. ~ raced /\ \A u \in Threads \ {t} : call[u].pc \notin {"open", "write", "clear"}
  BY DEF ChangedBehindCopy, SaveAt
<1>2. ASSUME NEW u \in Threads, InSave(u)'
      PROVE  /\ InSave(u) /\ u # t /\ call'[u] = call[u]
             /\ dirty' /\ Progress(u)'
  <2>1. u # t
    BY <1>2 DEF InSave
  <2>2. call'[u] = call[u] /\ InSave(u) /\ call[u].pc \in {"lock", "copy"}
    BY <1>1, <1>2, <2>1 DEF InSave
  <2>3. dirty /\ Progress(u)
    BY <1>1, <2>2 DEF SavedInv
  <2>4. call[u].pc = "copy" => data'.names = data.names
    BY DEF StoreInv, MayWrite
  <2>5. QED
    BY <2>1, <2>2, <2>3, <2>4 DEF Progress
<1>3. \A u, v \in Threads : InSave(u)' /\ InSave(v)' => u = v
  BY <1>1, <1>2 DEF SavedInv
<1>4. QED
  BY <1>2, <1>3 DEF SavedInv

\* A thread goes on outside save_to_file, or returns, and the data and the file stay.
LEMMA OthersKeepSaved ==
    ASSUME SavedInv, NEW t \in Threads, UNCHANGED <<data, file>>, raced' = raced, dirty => dirty',
           ~ InSave(t)',
           call[t].pc \in {"reverse", "dirty"} => dirty' \/ call'[t].pc \in {"reverse", "dirty"},
           \A u \in Threads \ {t} : call'[u] = call[u]
    PROVE  SavedInv'
<1>1. \A u \in Threads : InSave(u)' => InSave(u) /\ u # t /\ call'[u] = call[u]
  BY DEF InSave
<1>2. \A u \in Threads : call'[u] = call[u] /\ Progress(u) => Progress(u)'
  BY DEF Progress
<1>3. QED
  BY <1>1, <1>2 DEF SavedInv

\* The thread that saves goes on with it.
LEMMA SaverKeepsSaved ==
    ASSUME SavedInv, NEW t \in Threads, InSave(t), UNCHANGED <<data, dirty, raced>>,
           \A u \in Threads \ {t} : call'[u] = call[u],
           ~ raced /\ Progress(t) => Progress(t)'
    PROVE  SavedInv'
<1> SUFFICES ASSUME ~ raced PROVE SavedInv'
  BY DEF SavedInv
<1>1. dirty /\ \A u \in Threads : InSave(u) => u = t
  BY DEF SavedInv
<1>2. \A u \in Threads : InSave(u)' => u = t
  BY <1>1 DEF InSave
<1>3. Progress(t)'
  BY DEF SavedInv
<1>4. QED
  BY <1>1, <1>2, <1>3 DEF SavedInv

LEMMA SavedStep ==
    ASSUME StoreInv, SavedInv, StoreNext
    PROVE  SavedInv'
<1> USE DEF historyVars, boundVars
<1>1. CASE CrashAndLoad
  <2>1. \A u \in Threads : call'[u].pc = "idle"
    BY <1>1, Shapes DEF CrashAndLoad
  <2>2. QED
    BY <1>1, <2>1 DEF CrashAndLoad, SavedInv, InSave
<1>2. CASE Tick
  BY <1>2 DEF Tick, SavedInv, InSave, Progress
<1>3. ASSUME NEW t \in Threads, Begin(t) PROVE SavedInv'
  <2>1. PICK k \in Kinds, n \in Names, i \in Nodes : call' = [call EXCEPT ![t] = Call(k, n, i)]
    BY <1>3, RequestAssumption DEF Begin
  <2>2. call'[t] = Call(k, n, i) /\ \A u \in Threads \ {t} : call'[u] = call[u]
    BY <2>1, Shapes, CallReplaced DEF StoreInv
  <2>3. call'[t].pc = "names" /\ call[t].pc = "idle"
    BY <1>3, <2>2, Shapes DEF Begin, At
  <2>4. QED
    BY <1>3, <2>2, <2>3, OthersKeepSaved DEF Begin, InSave
<1>4. ASSUME NEW t \in Threads, Refuse(t) PROVE SavedInv'
  BY <1>4, Returns, OthersKeepSaved DEF Refuse, At, InSave
<1>5. ASSUME NEW t \in Threads, UpdateNames(t) PROVE SavedInv'
  <2>1. ChangeNames(t)
    BY <1>5 DEF UpdateNames
  <2>2. call'[t].pc = "reverse" /\ \A u \in Threads \ {t} : call'[u] = call[u]
    BY <2>1, NamesChanged
  <2>3. QED
    BY <2>1, <2>2, ChangeKeepsSaved DEF ChangeNames, At
<1>6. ASSUME NEW t \in Threads, Touch(t) PROVE SavedInv'
  BY <1>6, GoesTo, ChangeKeepsSaved DEF Touch, At, Places
<1>7. ASSUME NEW t \in Threads, UpdateReverse(t) PROVE SavedInv'
  BY <1>7, GoesTo, ReverseChanged, ChangeKeepsSaved DEF UpdateReverse, At, Places
<1>8. ASSUME NEW t \in Threads, SetDirty(t) PROVE SavedInv'
  <2>1. call'[t].pc = "check" /\ \A u \in Threads \ {t} : call'[u] = call[u]
    BY <1>8, GoesTo DEF SetDirty, At, Places
  <2>2. QED
    BY <1>8, <2>1, OthersKeepSaved DEF SetDirty, InSave
<1>9. ASSUME NEW t \in Threads, CheckDirty(t) PROVE SavedInv'
  <2>1. CASE dirty
    <3>1. /\ call'[t].pc = "lock" /\ UNCHANGED <<data, dirty, file>>
          /\ \A u \in Threads \ {t} : call'[u] = call[u]
      BY <1>9, <2>1, GoesTo DEF CheckDirty, At, Places
    <3>2. ASSUME ~ raced'
          PROVE  ~ raced /\ \A u \in Threads \ {t} : ~ InSave(u)
      BY <1>9, <2>1, <3>2 DEF CheckDirty, SaveAt, InSave
    <3>3. ASSUME ~ raced'
          PROVE  \A u \in Threads : InSave(u)' => u = t
      BY <3>1, <3>2, <3>3 DEF InSave
    <3>4. Progress(t)'
      BY <3>1 DEF Progress
    <3>5. QED
      BY <2>1, <3>1, <3>3, <3>4 DEF SavedInv
  <2>2. CASE ~ dirty
    <3>1. call'[t].pc = "idle" /\ \A u \in Threads \ {t} : call'[u] = call[u]
      BY <1>9, <2>2, Returns DEF CheckDirty
    <3>2. raced' = raced
      BY <1>9, <2>2, Zenon DEF CheckDirty, StoreInv, StoreTypes
    <3>3. QED
      BY <1>9, <3>1, <3>2, OthersKeepSaved DEF CheckDirty, InSave, At
  <2>3. QED
    BY <2>1, <2>2
<1>10. ASSUME NEW t \in Threads, LockNames(t) PROVE SavedInv'
  <2>1. CopyNames(t)
    BY <1>10 DEF LockNames
  <2>2. /\ call'[t].pc = "copy" /\ call'[t].snap.names = data.names
        /\ \A u \in Threads \ {t} : call'[u] = call[u]
    BY <2>1, NamesCopied
  <2>3. UNCHANGED <<data, dirty, raced>> /\ InSave(t)
    BY <2>1 DEF CopyNames, InSave, At
  <2>4. Progress(t)'
    BY <2>2, <2>3 DEF Progress
  <2>5. QED
    BY <2>2, <2>3, <2>4, SaverKeepsSaved
<1>11. ASSUME NEW t \in Threads, Copy(t) PROVE SavedInv'
  <2>1. CopyReverse(t)
    BY <1>11 DEF Copy
  <2>2. /\ call' \in [Threads -> Calls]
        /\ call'[t].pc = "open" /\ call'[t].snap.names = call[t].snap.names
        /\ call'[t].snap.reverse = data.reverse
        /\ \A u \in Threads \ {t} : call'[u] = call[u]
    BY <2>1, ReverseCopied
  <2>3. UNCHANGED <<data, dirty, raced>> /\ InSave(t) /\ call[t].pc = "copy"
    BY <2>1 DEF CopyReverse, InSave, At
  <2>4. call'[t].snap \in Registry /\ data \in Registry
    BY <2>2 DEF Calls, StoreInv, StoreTypes
  <2>5. ASSUME Progress(t)
        PROVE  Progress(t)'
    <3>1. call[t].snap.names = data.names
      BY <2>3, <2>5 DEF Progress
    <3>2. call'[t].snap = data
      BY <2>2, <2>4, <3>1, SameRegistry
    <3>3. QED
      BY <2>2, <2>3, <3>2 DEF Progress
  <2>6. QED
    BY <2>2, <2>3, <2>5, SaverKeepsSaved
<1>12. ASSUME NEW t \in Threads, Open(t) PROVE SavedInv'
  <2>1. /\ call'[t].pc = "write" /\ call'[t].snap = call[t].snap
        /\ \A u \in Threads \ {t} : call'[u] = call[u]
    BY <1>12, GoesTo DEF Open, At, Places
  <2>2. UNCHANGED <<data, dirty, raced>> /\ InSave(t) /\ call[t].pc = "open" /\ file'.kind = "empty"
    BY <1>12 DEF Open, InSave, At, NoFile
  <2>3. Progress(t) => Progress(t)'
    BY <2>1, <2>2 DEF Progress
  <2>4. QED
    BY <2>1, <2>2, <2>3, SaverKeepsSaved
<1>13. ASSUME NEW t \in Threads, Write(t) PROVE SavedInv'
  <2>1. /\ call'[t].pc = "clear" /\ call'[t].snap = call[t].snap
        /\ \A u \in Threads \ {t} : call'[u] = call[u]
    BY <1>13, GoesTo DEF Write, At, Places
  <2>2. UNCHANGED <<data, dirty, raced>> /\ InSave(t) /\ call[t].pc = "write"
    BY <1>13 DEF Write, InSave, At
  <2>3. ASSUME Progress(t)
        PROVE  Progress(t)'
    <3>1. call[t].snap = data /\ file.kind = "empty"
      BY <2>2, <2>3 DEF Progress
    <3>2. file' = Saved(call[t].snap)
      BY <1>13, <3>1 DEF Write, Overwritten
    <3>3. file'.data = data
      BY <3>1, <3>2 DEF Saved
    <3>4. QED
      BY <2>1, <2>2, <3>1, <3>3 DEF Progress
  <2>4. QED
    BY <2>1, <2>2, <2>3, SaverKeepsSaved
<1>14. ASSUME NEW t \in Threads, FailSave(t) PROVE SavedInv'
  <2>1. /\ call'[t].pc = "idle" /\ \A u \in Threads \ {t} : call'[u] = call[u]
        /\ UNCHANGED <<data, dirty, raced>> /\ InSave(t)
    BY <1>14, Returns DEF FailSave, AfterError, InSave, At
  <2>2. Progress(t)'
    BY <2>1 DEF Progress
  <2>3. QED
    BY <2>1, <2>2, SaverKeepsSaved
<1>15. ASSUME NEW t \in Threads, ClearDirty(t) PROVE SavedInv'
  <2> SUFFICES ASSUME ~ raced' PROVE SavedInv'
    BY DEF SavedInv
  <2>1. /\ call'[t].pc = "idle" /\ \A u \in Threads \ {t} : call'[u] = call[u]
        /\ UNCHANGED <<data, file, raced>> /\ call[t].pc = "clear" /\ InSave(t)
    BY <1>15, Returns DEF ClearDirty, InSave, At
  <2>2. file.data = data /\ \A u \in Threads : InSave(u) => u = t
    BY <2>1 DEF SavedInv, Progress
  <2>3. \A u \in Threads : ~ InSave(u)'
    BY <2>1, <2>2 DEF InSave
  <2>4. QED
    BY <2>1, <2>2, <2>3 DEF SavedInv
<1>16. QED
  BY <1>1, <1>2, <1>3, <1>4, <1>5, <1>6, <1>7, <1>8, <1>9, <1>10, <1>11, <1>12, <1>13, <1>14, <1>15 DEF StoreNext, Go

\* When nothing is in progress and the data is not marked dirty, a restart brings all
\* of it back, for any number of threads, whatever writes failed and wherever the
\* process died, as long as no save began and nothing changed while another save was
\* under way (center.rs, save_if_dirty, save_to_file).
THEOREM CleanIsSaved == StoreSpec => []CleanMeansSaved
<1>1. StoreInit => SavedInv
  BY Shapes DEF StoreInit, SavedInv, InSave
<1>2. StoreInv /\ SavedInv /\ [StoreNext]_storeVars => SavedInv'
  <2>1. ASSUME SavedInv, UNCHANGED storeVars PROVE SavedInv'
    BY <2>1 DEF storeVars, historyVars, SavedInv, InSave, Progress
  <2>2. QED
    BY <2>1, SavedStep
<1>3. SavedInv => CleanMeansSaved
  BY DEF SavedInv, CleanMeansSaved, At
<1>4. QED
  BY <1>1, <1>2, <1>3, StoreInvHolds, PTL DEF StoreSpec

-----------------------------------------------------------------------------
(* The two maps. *)

\* Every node that has a name is the one the name stands for, but for the names of S.
Agree(d, S) ==
    \A i \in Nodes, n \in Names : d.reverse[i] = n => d.names[n] # NoEntry /\ (d.names[n].id = i \/ n \in S)

HalfDone == {n \in Names : \E t \in Threads : call[t].pc = "reverse" /\ call[t].name = n}

\* The update that t has half done is the last one of its name, and the nodes that
\* still have the name are those it will deal with.
LastUpdate(t) ==
    /\ data.names[call[t].name].id = call[t].id
    /\ \A u \in Threads : call[u].pc = "reverse" /\ call[u].name = call[t].name => u = t
    /\ \A i \in Nodes : data.reverse[i] = call[t].name => i = call[t].old \/ i = call[t].id

\* The maps agree but for updates that are half done or were cut in two, in memory, in
\* the copies and in the file.
AgreeInv ==
    /\ Agree(data, suspect \cup HalfDone)
    /\ \A t \in Threads : call[t].pc = "reverse" =>
          data.names[call[t].name] # NoEntry /\ (call[t].name \in suspect \/ LastUpdate(t))
    /\ \A t \in Threads : call[t].pc = "copy" => call[t].snap.names = data.names
    /\ \A t \in Threads : call[t].pc \in {"open", "write"} => Agree(call[t].snap, suspect)
    /\ Agree(file.data, suspect)

LEMMA AgreeMore ==
    ASSUME NEW d, NEW S, NEW T, Agree(d, S), S \subseteq T
    PROVE  Agree(d, T)
BY DEF Agree

LEMMA AgreeEmpty ==
    ASSUME NEW S
    PROVE  Agree(NoData, S)
BY Shapes, NoEntryAssumption DEF Agree

\* A step of one thread that leaves the maps and the file, with the thread neither at
\* an update before it nor with a copy after it.
LEMMA AgreeKept ==
    ASSUME StoreInv, AgreeInv, UNCHANGED <<data, file, suspect>>, NEW t \in Threads,
           \A u \in Threads \ {t} : call'[u] = call[u],
           call[t].pc # "reverse", call'[t].pc \notin {"reverse", "copy", "open"},
           call'[t].pc = "write" => call[t].pc \in {"open", "write"} /\ call'[t].snap = call[t].snap
    PROVE  AgreeInv'
<1>1. HalfDone' = HalfDone
  BY DEF HalfDone
<1>2. Agree(data, suspect \cup HalfDone)'
  BY <1>1 DEF AgreeInv, Agree
<1>3. ASSUME NEW u \in Threads, call'[u].pc = "reverse"
      PROVE  (data.names[call[u].name] # NoEntry /\ (call[u].name \in suspect \/ LastUpdate(u)))'
  BY <1>3 DEF AgreeInv, LastUpdate
<1>4. ASSUME NEW u \in Threads, call'[u].pc \in {"open", "write"} PROVE Agree(call[u].snap, suspect)'
  <2>1. Agree(call'[u].snap, suspect)
    BY <1>4 DEF AgreeInv
  <2>2. QED
    BY <2>1 DEF Agree
<1>5. QED
  BY <1>2, <1>3, <1>4 DEF AgreeInv, Agree

LEMMA AgreeStep ==
    ASSUME StoreInv, AgreeInv, StoreNext
    PROVE  AgreeInv'
<1> USE DEF historyVars, boundVars
<1>1. CASE CrashAndLoad
  <2>1. \A u \in Threads : call'[u].pc = "idle"
    BY <1>1, Shapes DEF CrashAndLoad
  <2>2. Agree(file.data, suspect)
    BY DEF AgreeInv
  <2>3. Agree(data', suspect' \cup HalfDone') /\ Agree(file'.data, suspect')
    BY <1>1, <2>2, AgreeMore DEF CrashAndLoad
  <2>4. QED
    BY <2>1, <2>3 DEF AgreeInv, Agree
<1>2. CASE Tick
  BY <1>2 DEF Tick, AgreeInv, Agree, HalfDone, LastUpdate
<1>3. ASSUME NEW t \in Threads, Begin(t) PROVE AgreeInv'
  <2>1. PICK k \in Kinds, n \in Names, i \in Nodes : call' = [call EXCEPT ![t] = Call(k, n, i)]
    BY <1>3, RequestAssumption DEF Begin
  <2>2. call'[t] = Call(k, n, i) /\ \A u \in Threads \ {t} : call'[u] = call[u]
    BY <2>1, Shapes, CallReplaced DEF StoreInv
  <2>3. call'[t].pc = "names" /\ call[t].pc = "idle"
    BY <1>3, <2>2, Shapes DEF Begin, At
  <2>4. QED
    BY <1>3, <2>2, <2>3, AgreeKept DEF Begin
<1>4. ASSUME NEW t \in Threads, Refuse(t) PROVE AgreeInv'
  BY <1>4, Returns, AgreeKept DEF Refuse, At
<1>5. ASSUME NEW t \in Threads, UpdateNames(t) PROVE AgreeInv'
  <2> DEFINE n0 == call[t].name
  <2>1. /\ ChangeNames(t) /\ UNCHANGED <<file, dirty>> /\ call[t].pc = "names" /\ call[t].kind # "heartbeat" /\ ~ Rejected(t)
        /\ suspect' = suspect \cup {n \in {n0} : Halfway(t, n)}
        /\ locked["names"] = {}
    BY <1>5 DEF UpdateNames, ChangeNames, At, MayWrite
  <2>2. /\ data'.reverse = data.reverse
        /\ data'.names[n0] # NoEntry /\ data'.names[n0].id = call[t].id
        /\ \A n \in Names \ {n0} : data'.names[n] = data.names[n]
        /\ call'[t].pc = "reverse" /\ call'[t].name = n0 /\ call'[t].id = call[t].id
        /\ call'[t].old = (IF call[t].kind = "upsert" /\ Present(t) # NoEntry THEN Present(t).id ELSE NoEntry)
        /\ \A u \in Threads \ {t} : call'[u] = call[u]
    BY <2>1, NamesChanged
  <2>3. n0 \in Names /\ call[t].kind \in Kinds
    BY <2>1 DEF StoreInv, AtWork
  <2>4. \A u \in Threads : call[u].pc # "copy"
    BY <2>1 DEF StoreInv
  <2>5. Agree(data', suspect' \cup HalfDone')
    <3>1. n0 \in HalfDone' /\ HalfDone \subseteq HalfDone'
      BY <2>1, <2>2, <2>3 DEF HalfDone
    <3>2. QED
      BY <2>1, <2>2, <3>1 DEF AgreeInv, Agree
  <2>6. ASSUME n0 \notin suspect' PROVE LastUpdate(t)'
    <3>1. n0 \notin suspect /\ \A u \in Threads \ {t} : ~ (call[u].pc = "reverse" /\ call[u].name = n0)
      BY <2>1, <2>6 DEF Halfway, At
    <3>2. n0 \notin HalfDone
      BY <2>1, <3>1 DEF HalfDone
    <3>3. ASSUME NEW i \in Nodes, data.reverse[i] = n0 PROVE i = call'[t].old
      <4>1. data.names[n0] # NoEntry /\ data.names[n0].id = i
        BY <2>3, <3>1, <3>2, <3>3 DEF AgreeInv, Agree
      <4>2. call[t].kind = "upsert"
        BY <2>1, <2>3, <4>1 DEF Rejected, Present, Kinds
      <4>3. QED
        BY <2>2, <4>1, <4>2 DEF Present
    <3>4. QED
      BY <2>1, <2>2, <3>1, <3>3 DEF LastUpdate
  <2>7. ASSUME NEW u \in Threads, call'[u].pc = "reverse"
        PROVE  data'.names[call'[u].name] # NoEntry /\ (call'[u].name \in suspect' \/ LastUpdate(u)')
    <3>1. CASE u = t
      BY <2>2, <2>6, <3>1
    <3>2. CASE u # t
      <4>1. call'[u] = call[u] /\ call[u].pc = "reverse" /\ call[u].name \in Names
        BY <2>2, <2>7, <3>2 DEF StoreInv, AtWork
      <4>2. CASE call[u].name = n0
        <5>1. Halfway(t, n0)
          BY <3>2, <4>1, <4>2 DEF Halfway, At
        <5>2. QED
          BY <2>1, <2>2, <4>1, <4>2, <5>1
      <4>3. CASE call[u].name # n0
        BY <2>1, <2>2, <4>1, <4>3 DEF AgreeInv, LastUpdate
      <4>4. QED
        BY <4>2, <4>3
    <3>3. QED
      BY <3>1, <3>2
  <2>8. ASSUME NEW u \in Threads, call'[u].pc \in {"open", "write"} PROVE Agree(call'[u].snap, suspect')
    BY <2>1, <2>2, <2>8, AgreeMore DEF AgreeInv
  <2>9. Agree(file'.data, suspect')
    BY <2>1, AgreeMore DEF AgreeInv
  <2>10. \A u \in Threads : call'[u].pc # "copy"
    BY <2>2, <2>4
  <2>11. QED
    BY <2>5, <2>7, <2>8, <2>9, <2>10 DEF AgreeInv, Agree
<1>6. ASSUME NEW t \in Threads, Touch(t) PROVE AgreeInv'
  <2>1. /\ call[t].pc = "names" /\ UNCHANGED <<file, suspect>> /\ locked["names"] = {}
        /\ call'[t].pc = "dirty" /\ \A u \in Threads \ {t} : call'[u] = call[u]
    BY <1>6, GoesTo DEF Touch, At, Places, MayWrite
  <2>2. /\ data'.reverse = data.reverse
        /\ \A n \in Names : data.names[n] # NoEntry => data'.names[n] # NoEntry /\ data'.names[n].id = data.names[n].id
    BY <1>6, NamesTouched
  <2>3. HalfDone' = HalfDone
    BY <2>1 DEF HalfDone
  <2>4. Agree(data', suspect' \cup HalfDone')
    BY <2>1, <2>2, <2>3 DEF AgreeInv, Agree
  <2>5. ASSUME NEW u \in Threads, call'[u].pc = "reverse"
        PROVE  (data.names[call[u].name] # NoEntry /\ (call[u].name \in suspect \/ LastUpdate(u)))'
    <3>1. u # t /\ call'[u] = call[u] /\ call[u].name \in Names
      BY <2>1, <2>5 DEF StoreInv, AtWork
    <3>2. QED
      BY <2>1, <2>2, <2>5, <3>1 DEF AgreeInv, LastUpdate
  <2>6. ASSUME NEW u \in Threads, call'[u].pc \in {"open", "write"} PROVE Agree(call'[u].snap, suspect')
    BY <2>1, <2>6 DEF AgreeInv
  <2>7. \A u \in Threads : call'[u].pc # "copy"
    BY <2>1 DEF StoreInv
  <2>8. Agree(file'.data, suspect')
    BY <2>1 DEF AgreeInv
  <2>9. QED
    BY <2>4, <2>5, <2>6, <2>7, <2>8 DEF AgreeInv, Agree
<1>7. ASSUME NEW t \in Threads, UpdateReverse(t) PROVE AgreeInv'
  <2> DEFINE n0 == call[t].name
  <2>1. /\ call[t].pc = "reverse" /\ UNCHANGED <<file, suspect>>
        /\ call'[t].pc = "dirty" /\ \A u \in Threads \ {t} : call'[u] = call[u]
    BY <1>7, GoesTo DEF UpdateReverse, At, Places
  <2>2. n0 \in Names /\ call[t].id \in Nodes
    BY <2>1 DEF StoreInv, AtWork
  <2>3. /\ data'.names = data.names /\ data'.reverse[call[t].id] = n0
        /\ \A i \in Nodes : i # call[t].id =>
              data'.reverse[i] = NoEntry \/ (data'.reverse[i] = data.reverse[i] /\ i # call[t].old)
    BY <1>7, <2>2, ReverseChanged DEF NewReverse
  <2>4. ASSUME NEW i \in Nodes, NEW n \in Names, data'.reverse[i] = n
        PROVE  data'.names[n] # NoEntry /\ (data'.names[n].id = i \/ n \in suspect' \cup HalfDone')
    <3>1. CASE n # n0
      <4>1. data.reverse[i] = n
        BY <2>3, <2>4, <3>1, NoEntryAssumption
      <4>2. n \in HalfDone => n \in HalfDone'
        BY <2>1, <3>1 DEF HalfDone
      <4>3. QED
        BY <2>1, <2>3, <4>1, <4>2 DEF AgreeInv, Agree
    <3>2. CASE n = n0
      <4>1. data.names[n0] # NoEntry /\ (n0 \in suspect \/ LastUpdate(t))
        BY <2>1 DEF AgreeInv
      <4>2. CASE n0 \in suspect
        BY <2>1, <2>3, <3>2, <4>1, <4>2
      <4>3. CASE LastUpdate(t)
        <5>1. i = call[t].id
          BY <2>3, <2>4, <3>2, <4>3, NoEntryAssumption DEF LastUpdate
        <5>2. QED
          BY <2>3, <3>2, <4>1, <4>3, <5>1 DEF LastUpdate
      <4>4. QED
        BY <4>1, <4>2, <4>3
    <3>3. QED
      BY <3>1, <3>2
  <2>5. ASSUME NEW u \in Threads, call'[u].pc = "reverse"
        PROVE  (data.names[call[u].name] # NoEntry /\ (call[u].name \in suspect \/ LastUpdate(u)))'
    <3>1. u # t /\ call'[u] = call[u] /\ call[u].name \in Names /\ call[u].pc = "reverse"
      BY <2>1, <2>5 DEF StoreInv, AtWork
    <3>2. data.names[call[u].name] # NoEntry /\ (call[u].name \in suspect \/ LastUpdate(u))
      BY <3>1 DEF AgreeInv
    <3>3. CASE call[u].name \in suspect
      BY <2>1, <2>3, <3>1, <3>2, <3>3
    <3>4. CASE LastUpdate(u)
      <4>1. call[u].name # n0
        BY <2>1, <3>1, <3>4 DEF LastUpdate
      <4>2. \A i \in Nodes : data'.reverse[i] = call[u].name => data.reverse[i] = call[u].name
        BY <2>2, <2>3, <3>1, <4>1, NoEntryAssumption
      <4>3. LastUpdate(u)'
        BY <2>1, <2>3, <3>1, <3>4, <4>2 DEF LastUpdate
      <4>4. QED
        BY <2>3, <3>1, <3>2, <4>3
    <3>5. QED
      BY <3>2, <3>3, <3>4
  <2>6. ASSUME NEW u \in Threads, call'[u].pc \in {"open", "write"} PROVE Agree(call'[u].snap, suspect')
    BY <2>1, <2>6 DEF AgreeInv
  <2>7. \A u \in Threads : call'[u].pc = "copy" => call'[u].snap.names = data'.names
    BY <2>1, <2>3 DEF AgreeInv
  <2>8. Agree(file'.data, suspect')
    BY <2>1 DEF AgreeInv
  <2>9. QED
    BY <2>4, <2>5, <2>6, <2>7, <2>8 DEF AgreeInv, Agree
<1>8. ASSUME NEW t \in Threads, SetDirty(t) PROVE AgreeInv'
  BY <1>8, GoesTo, AgreeKept DEF SetDirty, At, Places
<1>9. ASSUME NEW t \in Threads, CheckDirty(t) PROVE AgreeInv'
  <2>1. CASE dirty
    BY <1>9, <2>1, GoesTo, AgreeKept DEF CheckDirty, At, Places
  <2>2. CASE ~ dirty
    BY <1>9, <2>2, Returns, AgreeKept DEF CheckDirty, At
  <2>3. QED
    BY <2>1, <2>2
<1>10. ASSUME NEW t \in Threads, LockNames(t) PROVE AgreeInv'
  <2>1. CopyNames(t) /\ UNCHANGED <<data, file, suspect>> /\ call[t].pc = "lock"
    BY <1>10 DEF LockNames, CopyNames, At
  <2>2. /\ call'[t].pc = "copy" /\ call'[t].snap.names = data.names
        /\ \A u \in Threads \ {t} : call'[u] = call[u]
    BY <2>1, NamesCopied
  <2>3. HalfDone' = HalfDone
    BY <2>1, <2>2 DEF HalfDone
  <2>4. ASSUME NEW u \in Threads, call'[u].pc \in {"open", "write"} PROVE Agree(call'[u].snap, suspect')
    BY <2>1, <2>2, <2>4 DEF AgreeInv
  <2>5. Agree(data', suspect' \cup HalfDone') /\ Agree(file'.data, suspect')
    BY <2>1, <2>3 DEF AgreeInv
  <2>6. ASSUME NEW u \in Threads, call'[u].pc = "reverse"
        PROVE  (data.names[call[u].name] # NoEntry /\ (call[u].name \in suspect \/ LastUpdate(u)))'
    BY <2>1, <2>2, <2>6 DEF AgreeInv, LastUpdate
  <2>7. \A u \in Threads : call'[u].pc = "copy" => call'[u].snap.names = data'.names
    BY <2>1, <2>2 DEF AgreeInv
  <2>8. QED
    BY <2>4, <2>5, <2>6, <2>7 DEF AgreeInv, Agree
<1>11. ASSUME NEW t \in Threads, Copy(t) PROVE AgreeInv'
  <2>1. /\ CopyReverse(t) /\ UNCHANGED <<data, file>> /\ call[t].pc = "copy"
        /\ suspect' = suspect \cup {n \in Names : Halfway(t, n)}
    BY <1>11 DEF Copy, CopyReverse, At
  <2>2. /\ call'[t].pc = "open" /\ call'[t].snap.names = data.names /\ call'[t].snap.reverse = data.reverse
        /\ \A u \in Threads \ {t} : call'[u] = call[u]
    BY <2>1, ReverseCopied DEF AgreeInv
  <2>3. HalfDone' = HalfDone /\ HalfDone \subseteq suspect'
    BY <2>1, <2>2 DEF HalfDone, Halfway, At
  <2>4. ASSUME NEW u \in Threads, call'[u].pc \in {"open", "write"} PROVE Agree(call'[u].snap, suspect')
    <3>1. CASE u = t
      BY <2>1, <2>2, <2>3, <3>1 DEF AgreeInv, Agree
    <3>2. CASE u # t
      BY <2>1, <2>2, <2>4, <3>2, AgreeMore DEF AgreeInv
    <3>3. QED
      BY <3>1, <3>2
  <2>5. Agree(data', suspect' \cup HalfDone') /\ Agree(file'.data, suspect')
    <3>1. Agree(data, suspect \cup HalfDone) /\ Agree(file.data, suspect)
      BY DEF AgreeInv
    <3>2. suspect \cup HalfDone \subseteq suspect' \cup HalfDone' /\ suspect \subseteq suspect'
      BY <2>1, <2>3
    <3>3. QED
      BY <2>1, <3>1, <3>2, AgreeMore
  <2>6. ASSUME NEW u \in Threads, call'[u].pc = "reverse"
        PROVE  (data.names[call[u].name] # NoEntry /\ (call[u].name \in suspect \/ LastUpdate(u)))'
    BY <2>1, <2>2, <2>6 DEF AgreeInv, LastUpdate
  <2>7. \A u \in Threads : call'[u].pc = "copy" => call'[u].snap.names = data'.names
    BY <2>1, <2>2 DEF AgreeInv
  <2>8. QED
    BY <2>4, <2>5, <2>6, <2>7 DEF AgreeInv, Agree
<1>12. ASSUME NEW t \in Threads, Open(t) \/ Write(t) \/ FailSave(t) PROVE AgreeInv'
  <2>1. /\ call[t].pc \in {"open", "write"} /\ UNCHANGED <<data, suspect>>
        /\ call'[t].pc \in {"idle", "write", "clear"}
        /\ call'[t].pc = "write" => call'[t].snap = call[t].snap
        /\ \A u \in Threads \ {t} : call'[u] = call[u]
    BY <1>12, GoesTo, Returns DEF Open, Write, FailSave, At, Places
  <2>2. file'.data \in {file.data, NoData, call[t].snap}
    BY <1>12, Shapes, FileWritten DEF Open, FailSave
  <2>3. Agree(file'.data, suspect')
    BY <2>1, <2>2, AgreeEmpty DEF AgreeInv
  <2>4. HalfDone' = HalfDone
    BY <2>1 DEF HalfDone
  <2>5. ASSUME NEW u \in Threads, call'[u].pc \in {"open", "write"} PROVE Agree(call'[u].snap, suspect')
    BY <2>1, <2>5 DEF AgreeInv
  <2>6. Agree(data', suspect' \cup HalfDone')
    BY <2>1, <2>4 DEF AgreeInv
  <2>7. ASSUME NEW u \in Threads, call'[u].pc = "reverse"
        PROVE  (data.names[call[u].name] # NoEntry /\ (call[u].name \in suspect \/ LastUpdate(u)))'
    BY <2>1, <2>7 DEF AgreeInv, LastUpdate
  <2>8. \A u \in Threads : call'[u].pc = "copy" => call'[u].snap.names = data'.names
    BY <2>1 DEF AgreeInv
  <2>9. QED
    BY <2>3, <2>5, <2>6, <2>7, <2>8 DEF AgreeInv, Agree
<1>13. ASSUME NEW t \in Threads, ClearDirty(t) PROVE AgreeInv'
  BY <1>13, Returns, AgreeKept DEF ClearDirty, At
<1>14. QED
  BY <1>1, <1>2, <1>3, <1>4, <1>5, <1>6, <1>7, <1>8, <1>9, <1>10, <1>11, <1>12, <1>13 DEF StoreNext, Go

\* The two maps agree once an update is through, for any number of threads, names and
\* nodes, through failed saves, crashes and reloads, unless another update of the name,
\* or a save, fell between the two halves of an update (center.rs, register, upsert).
THEOREM MapsAgree == StoreSpec => []ReverseAgrees
<1>1. StoreInit => AgreeInv
  <2> SUFFICES ASSUME StoreInit PROVE AgreeInv
    OBVIOUS
  <2>1. /\ data = NoData /\ file.data = NoData /\ \A t \in Threads : call[t].pc = "idle"
    BY Shapes DEF StoreInit
  <2>2. QED
    BY <2>1, AgreeEmpty DEF AgreeInv
<1>2. StoreInv /\ AgreeInv /\ [StoreNext]_storeVars => AgreeInv'
  <2>1. ASSUME AgreeInv, UNCHANGED storeVars PROVE AgreeInv'
    BY <2>1 DEF storeVars, historyVars, AgreeInv, Agree, HalfDone, LastUpdate
  <2>2. QED
    BY <2>1, AgreeStep
<1>3. AgreeInv => ReverseAgrees
  BY DEF AgreeInv, Agree, HalfDone, ReverseAgrees, At
<1>4. QED
  BY <1>1, <1>2, <1>3, StoreInvHolds, PTL DEF StoreSpec
=============================================================================
