--------------------------- MODULE SelfHealProofs ---------------------------
(***************************************************************************)
(* What HeartbeatManager and SelfHealManager keep between them, proved for  *)
(* any number of peers, any tables of the DHT and any limits.               *)
(***************************************************************************)
EXTENDS SelfHeal, TLAPS

\* Threads and entries have their fields.
IsThread(t) ==
    /\ t = [pc |-> t.pc, node |-> t.node, target |-> t.target, nodes |-> t.nodes,
            targets |-> t.targets, ret |-> t.ret]
    /\ t.ret \in {"idle", "received", "pongs"}
IsEntry(e) ==
    e = [target |-> e.target, next_hop |-> e.next_hop, candidates |-> e.candidates,
         valid |-> e.valid, newer |-> e.newer, gone |-> e.gone, extended |-> e.extended]

StateTable == [Peers -> HealState \cup {NoState}]

ThreadsOK == thread = [w \in Threads |-> thread[w]] /\ \A w \in Threads : IsThread(thread[w])
StatesOK == states \in StateTable /\ file \in StateTable
BeatsOK == beats = [p \in Monitored |-> beats[p]]
RoutesOK == \A e \in routes : IsEntry(e)

HB == thread["heartbeat"]
Loop == thread["loop"]

\* The nodes that the healing loop is about to probe have attempts left.
ProbesOK ==
    Loop.pc \in {"attempt", "find", "found"} =>
        \A p \in Loop.nodes : /\ 0 < max_failed_attempts
                              /\ p \in Peers /\ Tracked(p) => states[p].failed < max_failed_attempts

\* Where the heartbeat thread drops silent nodes, and where it hears of one.
Dropping == {"offline", "remove", "affected", "invalid", "switch", "discover"}
Hearing == {"online", "received", "recover", "reroute"}

\* The managers agree but for the nodes that the heartbeat thread has yet to
\* report: silent ones to drop, or the one that was heard.
AgreeInv ==
    /\ HB.pc \in {"idle"} \cup Dropping \cup Hearing
    /\ HB.ret \in {"idle", "received"}
    /\ HB.pc \in Dropping \/ HB.nodes = {}
    /\ HB.nodes \subseteq Monitored
    /\ \A p \in HB.nodes : ~ beats[p].online
    /\ HB.pc \in Hearing => HB.node \in Monitored /\ beats[HB.node].online
    /\ HB.pc = "reroute" \/ (HB.pc = "recover" /\ HB.ret = "idle") => ~ Offline(HB.node)
    /\ \A p \in Monitored \ presumed :
         p \in HB.nodes \/ (HB.pc \in Hearing /\ p = HB.node) \/ (Offline(p) <=> ~ beats[p].online)

\* A path in use through a node that went offline after it was set up.
Dead(e) == e.valid /\ ~ e.extended /\ e.next_hop \in e.gone

\* Such paths are among those that on_node_offline has yet to deal with.
DeadInv ==
    \A e \in routes : Dead(e) =>
        /\ HB.pc \in Dropping \ {"offline"}
        /\ HB.node = e.next_hop
        /\ HB.pc \in {"invalid", "switch", "discover"} => e.target \in HB.targets

-----------------------------------------------------------------------------
(* The threads.                                                             *)

LEMMA IdleThread ==
    /\ IsThread(Idle) /\ Idle.pc = "idle" /\ Idle.nodes = {} /\ Idle.ret = "idle" /\ Idle.targets = {}
BY DEF Idle, IsThread

LEMMA IdleWith ==
    ASSUME NEW place, NEW n, NEW S
    PROVE  /\ IsThread([Idle EXCEPT !.pc = place, !.node = n])
           /\ IsThread([Idle EXCEPT !.pc = place, !.nodes = S])
           /\ IsThread([Idle EXCEPT !.pc = place, !.targets = S])
<1>1. ASSUME NEW x, \/ x = [Idle EXCEPT !.pc = place, !.node = n]
                    \/ x = [Idle EXCEPT !.pc = place, !.nodes = S]
                    \/ x = [Idle EXCEPT !.pc = place, !.targets = S]
      PROVE  IsThread(x)
  BY <1>1 DEF Idle, IsThread
<1> QED
  BY <1>1

LEMMA MovedThread ==
    ASSUME ThreadsOK, NEW w \in Threads, NEW x, IsThread(x), thread' = [thread EXCEPT ![w] = x]
    PROVE  ThreadsOK' /\ thread'[w] = x /\ \A v \in Threads : v # w => thread'[v] = thread[v]
BY DEF ThreadsOK

LEMMA GoneThread ==
    ASSUME ThreadsOK, NEW w \in Threads, NEW x, GoTo(w, x)
    PROVE  /\ ThreadsOK'
           /\ \A v \in Threads : v # w => thread'[v] = thread[v]
           /\ thread'[w] = [thread[w] EXCEPT !.pc = x]
           /\ thread'[w].pc = x /\ thread'[w].node = thread[w].node /\ thread'[w].nodes = thread[w].nodes
           /\ thread'[w].target = thread[w].target /\ thread'[w].targets = thread[w].targets
           /\ thread'[w].ret = thread[w].ret
BY DEF ThreadsOK, GoTo, IsThread

LEMMA AfterTargetThread ==
    ASSUME ThreadsOK, NEW w \in Threads
    PROVE  LET t == AfterTarget(w)
           IN  /\ IsThread(t)
               /\ \/ /\ thread[w].targets # {} /\ t.pc = IF w = "caller" THEN "refresh" ELSE "invalid"
                     /\ t.node = thread[w].node /\ t.nodes = thread[w].nodes
                     /\ t.targets = thread[w].targets /\ t.ret = thread[w].ret
                  \/ /\ thread[w].targets = {} /\ thread[w].nodes # {} /\ t.pc = "offline"
                     /\ t.node = thread[w].node /\ t.nodes = thread[w].nodes
                     /\ t.targets = thread[w].targets /\ t.ret = thread[w].ret
                  \/ thread[w].targets = {} /\ thread[w].nodes = {} /\ t = Idle
<1>1. IsThread(thread[w]) /\ IsThread(Idle)
  BY IdleThread DEF ThreadsOK
<1>2. CASE thread[w].targets # {}
  BY <1>1, <1>2 DEF AfterTarget, IsThread
<1>3. CASE thread[w].targets = {} /\ thread[w].nodes # {}
  BY <1>1, <1>3 DEF AfterTarget, IsThread
<1>4. CASE thread[w].targets = {} /\ thread[w].nodes = {}
  BY <1>1, <1>4 DEF AfterTarget, IsThread
<1> QED
  BY <1>2, <1>3, <1>4

\* The steps of the three threads, by what they do to their own record.
LEMMA ThreadNames == "heartbeat" \in Threads /\ "loop" \in Threads /\ "caller" \in Threads
BY DEF Threads

Only(w) == ThreadsOK' /\ \A v \in Threads : v # w => thread'[v] = thread[v]

LEMMA HeartbeatMoves ==
    ASSUME ThreadsOK, CheckBeats \/ HeartbeatSteps \/ \E p \in Monitored : HandleHeartbeat(p)
    PROVE  Only("heartbeat")
<1> USE ThreadNames
<1>0. IsThread(Idle) /\ IsThread(HB) /\ ThreadsOK
  BY IdleThread DEF HB, ThreadsOK
<1>1. CASE CheckBeats
  <2>1. PICK out : thread' = [thread EXCEPT !["heartbeat"] =
                               IF out = {} THEN Idle ELSE [Idle EXCEPT !.pc = "offline", !.nodes = out]]
    BY <1>1 DEF CheckBeats
  <2>2. IsThread(IF out = {} THEN Idle ELSE [Idle EXCEPT !.pc = "offline", !.nodes = out])
    BY <1>0 DEF IsThread, Idle
  <2> QED
    BY <2>1, <2>2, MovedThread DEF Only
<1>2. ASSUME NEW p \in Monitored, HandleHeartbeat(p)
      PROVE  Only("heartbeat")
  <2>1. PICK place : thread' = [thread EXCEPT !["heartbeat"] = [Idle EXCEPT !.pc = place, !.node = p]]
    BY <1>2 DEF HandleHeartbeat
  <2>2. IsThread([Idle EXCEPT !.pc = place, !.node = p])
    BY IdleWith
  <2> QED
    BY <2>1, <2>2, MovedThread DEF Only
<1>3. CASE OnNodeOnline
  BY <1>0, <1>3 DEF OnNodeOnline, Only, ThreadsOK, IsThread, HB
<1>4. CASE OnHeartbeatReceived
  <2>1. thread' = [thread EXCEPT !["heartbeat"] =
                     IF BackFromOffline(HB.node) THEN [HB EXCEPT !.pc = "recover", !.ret = "idle"] ELSE Idle]
    BY <1>4 DEF OnHeartbeatReceived, NodeOf, HB
  <2>2. IsThread(IF BackFromOffline(HB.node) THEN [HB EXCEPT !.pc = "recover", !.ret = "idle"] ELSE Idle)
    BY <1>0 DEF IsThread, Idle
  <2> QED
    BY <2>1, <2>2, MovedThread DEF Only
<1>5. CASE OnNodeOffline
  <2>1. PICK p : thread' = [thread EXCEPT !["heartbeat"].pc = "remove", !["heartbeat"].node = p,
                                    !["heartbeat"].nodes = @ \ {p}]
    BY <1>5 DEF OnNodeOffline
  <2> QED
    BY <1>0, <2>1 DEF Only, ThreadsOK, IsThread, HB
<1>6. CASE RemoveOffline
  BY <1>6, GoneThread DEF RemoveOffline, Only
<1>7. CASE Affected
  <2>1. PICK via : thread' = [thread EXCEPT !["heartbeat"] =
                        IF via # {} THEN [HB EXCEPT !.pc = "invalid", !.targets = via]
                        ELSE IF HB.nodes # {} THEN [HB EXCEPT !.pc = "offline"] ELSE Idle]
    BY <1>7 DEF Affected, HB
  <2>2. IsThread(IF via # {} THEN [HB EXCEPT !.pc = "invalid", !.targets = via]
                 ELSE IF HB.nodes # {} THEN [HB EXCEPT !.pc = "offline"] ELSE Idle)
    BY <1>0 DEF IsThread, Idle
  <2> QED
    BY <2>1, <2>2, MovedThread DEF Only
<1> QED
  BY <1>1, <1>2, <1>3, <1>4, <1>5, <1>6, <1>7 DEF HeartbeatSteps

LEMMA LoopMoves ==
    ASSUME ThreadsOK, LoopSteps
    PROVE  Only("loop")
<1> USE ThreadNames
<1>0. IsThread(Idle) /\ IsThread(Loop) /\ ThreadsOK
  BY IdleThread DEF Loop, ThreadsOK
<1>a. ASSUME NEW S
      PROVE  IsThread([Idle EXCEPT !.pc = "pongs", !.nodes = S]) /\ IsThread([Idle EXCEPT !.pc = "attempt", !.nodes = S])
  BY IdleWith
<1>1. CASE TakePongs
  BY <1>1, <1>a, MovedThread DEF TakePongs, Only
<1>2. CASE ReadPong
  <2>1. PICK p \in Loop.nodes : thread' = [thread EXCEPT !["loop"] =
                     IF Offline(p)
                     THEN [Idle EXCEPT !.pc = "recover", !.node = p, !.nodes = Loop.nodes \ {p}, !.ret = "pongs"]
                     ELSE [Idle EXCEPT !.pc = "pongs", !.nodes = Loop.nodes \ {p}]]
    BY <1>2 DEF ReadPong, Loop
  <2>2. IsThread(IF Offline(p)
                 THEN [Idle EXCEPT !.pc = "recover", !.node = p, !.nodes = Loop.nodes \ {p}, !.ret = "pongs"]
                 ELSE [Idle EXCEPT !.pc = "pongs", !.nodes = Loop.nodes \ {p}])
    BY <1>0 DEF IsThread, Idle
  <2> QED
    BY <2>1, <2>2, MovedThread DEF Only
<1>3. CASE ChooseOffline
  <2>1. PICK chosen : thread' = [thread EXCEPT !["loop"] = [Idle EXCEPT !.pc = "attempt", !.nodes = chosen]]
    BY <1>3 DEF ChooseOffline
  <2> QED
    BY <2>1, <1>a, MovedThread DEF Only
<1>4. CASE SkipProbes
  BY <1>4, GoneThread DEF SkipProbes, Only
<1>5. CASE RecordAttempt
  <2>1. PICK p : thread' = [thread EXCEPT !["loop"].pc = "find", !["loop"].node = p, !["loop"].nodes = @ \ {p}]
    BY <1>5 DEF RecordAttempt
  <2> QED
    BY <1>0, <2>1 DEF Only, ThreadsOK, IsThread, Loop
<1>6. CASE NextAttempt
  BY <1>0, <1>6 DEF NextAttempt, Only, ThreadsOK, IsThread, Loop
<1>7. CASE GoTo("loop", "found")
  BY <1>7, GoneThread DEF Only
<1>8. CASE Persist
  BY <1>0, <1>8, MovedThread DEF Persist, Only
<1> QED
  BY <1>1, <1>2, <1>3, <1>4, <1>5, <1>6, <1>7, <1>8 DEF LoopSteps, ProbeRoute, PresumeOnline

LEMMA CommonMoves ==
    ASSUME ThreadsOK, NEW w \in Threads, CommonSteps(w)
    PROVE  Only(w)
<1>0. IsThread(Idle) /\ IsThread(thread[w]) /\ ThreadsOK
  BY IdleThread DEF ThreadsOK
<1>1. CASE Invalidate(w)
  BY <1>0, <1>1 DEF Invalidate, Only, ThreadsOK, IsThread
<1>2. CASE thread' = [thread EXCEPT ![w] = AfterTarget(w)]
  BY <1>2, AfterTargetThread, MovedThread DEF Only
<1>3. CASE GoTo(w, "discover") \/ GoTo(w, "reroute")
  BY <1>3, GoneThread DEF Only
<1>4. CASE Reroute(w)
  <2> DEFINE x == CASE thread[w].ret = "received" -> [Idle EXCEPT !.pc = thread[w].ret, !.node = NodeOf(w)]
                    [] thread[w].ret = "pongs" -> [Idle EXCEPT !.pc = thread[w].ret, !.nodes = thread[w].nodes]
                    [] thread[w].ret = "idle" -> Idle
  <2>1. thread' = [thread EXCEPT ![w] = x]
    BY <1>4 DEF Reroute
  <2>2. IsThread(x)
    <3>1. CASE thread[w].ret = "received"
      BY <3>1 DEF IsThread, Idle
    <3>2. CASE thread[w].ret = "pongs"
      BY <3>2 DEF IsThread, Idle
    <3>3. CASE thread[w].ret = "idle"
      BY <3>3 DEF IsThread, Idle
    <3> QED
      BY <1>0, <3>1, <3>2, <3>3 DEF IsThread
  <2> QED
    BY <2>1, <2>2, MovedThread DEF Only
<1> QED
  BY <1>1, <1>2, <1>3, <1>4 DEF CommonSteps, Switch, Rediscover, Recover

LEMMA CallerMoves ==
    ASSUME ThreadsOK,
           RefreshOne \/ Calls \/ DhtChanges \/ \E p \in Monitored : Messages(p)
    PROVE  Only("caller")
<1> USE ThreadNames
<1>0. IsThread(Idle) /\ IsThread(thread["caller"]) /\ ThreadsOK
  BY IdleThread DEF ThreadsOK
<1>1. CASE UNCHANGED thread
  BY <1>0, <1>1 DEF Only, ThreadsOK
<1>2. ASSUME NEW place, NEW n, NEW S,
             \/ thread' = [thread EXCEPT !["caller"] = [Idle EXCEPT !.pc = place, !.targets = S]]
             \/ thread' = [thread EXCEPT !["caller"] = [Idle EXCEPT !.pc = place, !.node = n]]
      PROVE  Only("caller")
  <2>1. IsThread([Idle EXCEPT !.pc = place, !.targets = S]) /\ IsThread([Idle EXCEPT !.pc = place, !.node = n])
    BY IdleWith
  <2> QED
    BY <1>2, <2>1, MovedThread DEF Only
<1>3. CASE RefreshOne
  <2>1. PICK t : thread' = [thread EXCEPT !["caller"] =
                              IF @.targets = {t} THEN Idle ELSE [@ EXCEPT !.targets = @ \ {t}]]
    BY <1>3 DEF RefreshOne
  <2>2. CASE thread["caller"].targets = {t}
    <3>1. thread' = [thread EXCEPT !["caller"] = Idle]
      BY <2>1, <2>2
    <3> QED
      BY <1>0, <3>1, MovedThread DEF Only
  <2>3. CASE thread["caller"].targets # {t}
    BY <1>0, <2>1, <2>3 DEF Only, ThreadsOK, IsThread
  <2> QED
    BY <2>2, <2>3
<1>4. CASE RefreshStaleRoutes
  BY <1>2, <1>4 DEF RefreshStaleRoutes
<1>5. ASSUME NEW t \in PathTargets, HandlePathFailure(t)
      PROVE  Only("caller")
  BY <1>2, <1>5 DEF HandlePathFailure
<1>6. ASSUME NEW p \in Monitored, Messages(p)
      PROVE  Only("caller")
  <2>1. CASE HandlePartitionSync(p)
    BY <1>1, <1>2, <2>1 DEF HandlePartitionSync
  <2>2. CASE HandleHealPong(p) \/ SendBeat(p) \/ Flip(p)
    BY <1>1, <2>2 DEF HandleHealPong, SendBeat, Flip, peerVars
  <2> QED
    BY <1>6, <2>1, <2>2 DEF Messages
<1>7. CASE ChangeRoutes
  BY <1>1, <1>7 DEF ChangeRoutes
<1>8. CASE DhtChanges
  BY <1>1, <1>8 DEF DhtChanges, peerVars
<1> QED
  BY <1>3, <1>4, <1>5, <1>6, <1>7, <1>8 DEF Calls

-----------------------------------------------------------------------------
(* The states.                                                              *)

OfflineIn(table, p) == table[p] # NoState /\ table[p].offline

\* mark_offline, mark_online and add_node.
LEMMA Marks ==
    ASSUME StatesOK, NEW p
    PROVE  /\ MarkOffline(p) \in StateTable /\ MarkOnline(p) \in StateTable /\ AddNode(p) \in StateTable
           /\ \A q \in Peers : q # p => /\ MarkOffline(p)[q] = states[q]
                                        /\ MarkOnline(p)[q] = states[q]
                                        /\ AddNode(p)[q] = states[q]
           /\ p \in Peers => /\ OfflineIn(MarkOffline(p), p)
                             /\ ~ OfflineIn(MarkOnline(p), p)
                             /\ OfflineIn(AddNode(p), p) <=> Offline(p)
                             /\ MarkOffline(p)[p].failed = 0 /\ MarkOnline(p)[p].failed = 0
                             /\ AddNode(p)[p].failed = IF Tracked(p) THEN states[p].failed ELSE 0
<1>1. CASE p \notin Peers
  BY <1>1 DEF StatesOK, StateTable, MarkOffline, MarkOnline, AddNode
<1>2. CASE p \in Peers
  <2>1. StateOf(p) \in HealState /\ NewState \in HealState
    BY <1>2, LimitAssumption DEF StatesOK, StateTable, StateOf, NewState, HealState, Tracked
  <2>2. PICK off : off = [StateOf(p) EXCEPT !.offline = TRUE, !.failed = 0]
    OBVIOUS
  <2>3. PICK on : on = [StateOf(p) EXCEPT !.offline = FALSE, !.failed = 0]
    OBVIOUS
  <2>a. 0 \in 0..max_failed_attempts
    BY LimitAssumption
  <2>4. off \in HealState /\ off.offline = TRUE /\ off.failed = 0 /\ off # NoState
    <3>1. off \in HealState
      BY <2>1, <2>2, <2>a DEF HealState
    <3>2. off.offline = TRUE /\ off.failed = 0
      BY <2>1, <2>2 DEF HealState
    <3> QED
      BY <3>1, <3>2, StateAssumption
  <2>5. on \in HealState /\ on.offline = FALSE /\ on.failed = 0 /\ on # NoState
    <3>1. on \in HealState
      BY <2>1, <2>3, <2>a DEF HealState
    <3>2. on.offline = FALSE /\ on.failed = 0
      BY <2>1, <2>3 DEF HealState
    <3> QED
      BY <3>1, <3>2, StateAssumption
  <2>6. MarkOffline(p) = [states EXCEPT ![p] = off] /\ MarkOnline(p) = [states EXCEPT ![p] = on]
    BY <2>2, <2>3 DEF MarkOffline, MarkOnline
  <2>7. /\ MarkOffline(p) \in StateTable /\ MarkOffline(p)[p] = off
        /\ MarkOnline(p) \in StateTable /\ MarkOnline(p)[p] = on
        /\ \A q \in Peers : q # p => MarkOffline(p)[q] = states[q] /\ MarkOnline(p)[q] = states[q]
    BY <1>2, <2>4, <2>5, <2>6 DEF StatesOK, StateTable
  <2>8. /\ AddNode(p) \in StateTable /\ AddNode(p)[p] = StateOf(p)
        /\ \A q \in Peers : q # p => AddNode(p)[q] = states[q]
    BY <1>2, <2>1 DEF AddNode, StatesOK, StateTable
  <2>9. OfflineIn(AddNode(p), p) <=> Offline(p)
    BY <1>2, <2>1, <2>8, StateAssumption DEF OfflineIn, Offline, StateOf, Tracked, NewState
  <2>10. AddNode(p)[p].failed = IF Tracked(p) THEN states[p].failed ELSE 0
    BY <2>8 DEF StateOf, NewState
  <2> QED
    BY <2>4, <2>5, <2>7, <2>8, <2>9, <2>10 DEF OfflineIn
<1> QED
  BY <1>1, <1>2

\* No peer becomes offline, and only those in told change.
Milder(told) ==
    /\ \A p \in Peers : Offline(p)' => Offline(p)
    /\ \A p \in Peers \ told : Offline(p)' <=> Offline(p)

\* What steps do to the count of failed attempts, the loop's own aside.
CountsKept ==
    \A p \in Peers : states'[p] # NoState =>
        states'[p].failed = 0 \/ (Tracked(p) /\ states'[p].failed = states[p].failed)

LEMMA MarkedOnline ==
    ASSUME StatesOK, NEW p, states' = MarkOnline(p)
    PROVE  states' \in StateTable /\ Milder({p}) /\ CountsKept
BY Marks DEF Milder, CountsKept, Offline, OfflineIn, Tracked

LEMMA AddedNode ==
    ASSUME StatesOK, NEW p, states' = AddNode(p)
    PROVE  states' \in StateTable /\ Milder({}) /\ CountsKept
BY Marks DEF Milder, CountsKept, Offline, OfflineIn, Tracked

LEMMA MarkedOffline ==
    ASSUME StatesOK, NEW p \in Peers, states' = MarkOffline(p)
    PROVE  /\ states' \in StateTable /\ CountsKept /\ Offline(p)'
           /\ \A q \in Peers : q # p => (Offline(q)' <=> Offline(q))
BY Marks DEF CountsKept, Offline, OfflineIn, Tracked

LEMMA SameStates ==
    ASSUME StatesOK, UNCHANGED states
    PROVE  states' \in StateTable /\ CountsKept /\ \A S : Milder(S)
BY DEF StatesOK, Milder, CountsKept, Offline, Tracked

\* The loop's nodes have attempts left as long as only the loop counts them.
LEMMA ProbesKept ==
    ASSUME ProbesOK, CountsKept, Loop' = Loop
    PROVE  ProbesOK'
BY DEF ProbesOK, CountsKept, Tracked

LEMMA NoProbes ==
    ASSUME Loop'.pc \notin {"attempt", "find", "found"}
    PROVE  ProbesOK'
BY DEF ProbesOK

\* A step of which the heartbeat thread and HeartbeatManager know nothing.
Unheard ==
    /\ HB' = HB /\ beats' = beats
    /\ presumed \subseteq presumed' /\ Milder(presumed')

LEMMA LoopStates ==
    ASSUME ThreadsOK, StatesOK, ProbesOK, LoopSteps
    PROVE  StatesOK' /\ ProbesOK' /\ Unheard
<1>1. HB' = HB
  BY LoopMoves, ThreadNames DEF Only, HB
<1>2. IsThread(Idle) /\ IsThread(Loop) /\ "loop" \in DOMAIN thread
  BY IdleThread, ThreadNames DEF ThreadsOK, Loop
<1>3. beats' = beats
  BY DEF LoopSteps, TakePongs, ReadPong, ChooseOffline, SkipProbes, RecordAttempt, ProbeRoute, PresumeOnline, Persist
<1>4. CASE TakePongs \/ ReadPong
  <2>1. UNCHANGED <<states, file, presumed>>
    BY <1>4 DEF TakePongs, ReadPong
  <2>2. Loop'.pc \in {"pongs", "recover"}
    <3>1. CASE TakePongs
      BY <1>2, <3>1 DEF TakePongs, Loop, Idle
    <3>2. CASE ReadPong
      <4>1. PICK p : thread' = [thread EXCEPT !["loop"] =
                     IF Offline(p)
                     THEN [Idle EXCEPT !.pc = "recover", !.node = p, !.nodes = thread["loop"].nodes \ {p}, !.ret = "pongs"]
                     ELSE [Idle EXCEPT !.pc = "pongs", !.nodes = thread["loop"].nodes \ {p}]]
        BY <3>2 DEF ReadPong
      <4> QED
        BY <1>2, <4>1 DEF Loop, Idle
    <3> QED
      BY <1>4, <3>1, <3>2
  <2> QED
    BY <1>1, <1>3, <2>1, <2>2, NoProbes, SameStates DEF Unheard, StatesOK
<1>5. CASE ChooseOffline
  <2>1. UNCHANGED <<states, file, presumed>>
    BY <1>5 DEF ChooseOffline
  <2>2. PICK chosen : /\ \A p \in chosen : p \in Peers /\ Offline(p) /\ ~ Hopeless(p)
                      /\ thread' = [thread EXCEPT !["loop"] = [Idle EXCEPT !.pc = "attempt", !.nodes = chosen]]
    BY <1>5 DEF ChooseOffline
  <2>3. Loop'.nodes = chosen
    BY <1>2, <2>2 DEF Loop, Idle
  <2>4. ASSUME NEW p \in chosen
        PROVE  0 < max_failed_attempts /\ states[p].failed < max_failed_attempts
    <3>1. states[p] \in HealState
      BY <2>2 DEF Offline, Tracked, StatesOK, StateTable
    <3>2. states[p].failed \in 0..max_failed_attempts /\ max_failed_attempts \in Nat
      BY <3>1, LimitAssumption DEF HealState
    <3> QED
      BY <2>2, <3>2 DEF Hopeless
  <2>5. ProbesOK'
    BY <2>1, <2>3, <2>4 DEF ProbesOK
  <2> QED
    BY <1>1, <1>3, <2>1, <2>5, SameStates DEF Unheard, StatesOK
<1>6. CASE SkipProbes
  <2>1. UNCHANGED <<states, file, presumed>> /\ Loop.nodes = {} /\ GoTo("loop", "attempt")
    BY <1>6 DEF SkipProbes, PongsDone, Loop
  <2>2. Loop'.nodes = {}
    BY <2>1, GoneThread, ThreadNames DEF Loop
  <2>3. ProbesOK'
    BY <2>2 DEF ProbesOK
  <2> QED
    BY <1>1, <1>3, <2>1, <2>3, SameStates DEF Unheard, StatesOK
<1>7. CASE RecordAttempt
  <2>1. PICK p \in Loop.nodes :
            /\ states' = IF Tracked(p) THEN [states EXCEPT ![p].failed = @ + 1, ![p].tried = TRUE] ELSE states
            /\ thread' = [thread EXCEPT !["loop"].pc = "find", !["loop"].node = p, !["loop"].nodes = @ \ {p}]
    BY <1>7 DEF RecordAttempt, Loop
  <2>2. UNCHANGED <<file, presumed>> /\ Loop.pc = "attempt"
    BY <1>7 DEF RecordAttempt, At, Loop
  <2>3. Loop'.nodes = Loop.nodes \ {p}
    BY <1>2, <2>1 DEF Loop, IsThread
  <2>4. CASE p \in Peers /\ Tracked(p)
    <3>1. states[p] \in HealState /\ states[p].failed < max_failed_attempts
      BY <2>1, <2>2, <2>4 DEF ProbesOK, StatesOK, StateTable, Tracked
    <3>2. PICK st : st = [states[p] EXCEPT !.failed = @ + 1, !.tried = TRUE]
      OBVIOUS
    <3>3. states[p].failed + 1 \in 0..max_failed_attempts
      BY <3>1, LimitAssumption DEF HealState
    <3>4. st \in HealState /\ st.offline = states[p].offline /\ st # NoState
      <4>1. st \in HealState /\ st.offline = states[p].offline
        BY <3>1, <3>2, <3>3 DEF HealState
      <4> QED
        BY <4>1, StateAssumption
    <3>5. states' = [states EXCEPT ![p] = st]
      BY <2>1, <2>4, <3>2 DEF StatesOK, StateTable
    <3>6. /\ states' \in StateTable /\ states'[p] = st
          /\ \A q \in Peers : q # p => states'[q] = states[q]
      BY <2>4, <3>4, <3>5 DEF StatesOK, StateTable
    <3>7. \A q \in Peers : Offline(q)' <=> Offline(q)
      BY <2>4, <3>4, <3>6 DEF Offline, Tracked
    <3>8. ProbesOK'
      BY <2>2, <2>3, <3>6 DEF ProbesOK, Tracked
    <3> QED
      BY <1>1, <1>3, <2>2, <3>6, <3>7, <3>8 DEF Unheard, Milder, StatesOK
  <2>5. CASE ~ (p \in Peers /\ Tracked(p))
    <3>1. UNCHANGED states
      BY <2>1, <2>5 DEF StatesOK, StateTable
    <3>2. ProbesOK'
      BY <2>2, <2>3, <3>1 DEF ProbesOK, Tracked
    <3> QED
      BY <1>1, <1>3, <2>2, <3>1, <3>2, SameStates DEF Unheard, StatesOK
  <2> QED
    BY <2>4, <2>5
<1>a. ASSUME NextAttempt
      PROVE  Loop'.nodes = Loop.nodes
  BY <1>2, <1>a DEF NextAttempt, Loop, IsThread
<1>8. CASE ProbeRoute
  <2>1. UNCHANGED <<states, file, presumed>> /\ Loop.pc = "find"
    BY <1>8 DEF ProbeRoute, At, Loop
  <2>2. Loop'.nodes = Loop.nodes
    <3>1. GoTo("loop", "found") => Loop'.nodes = Loop.nodes
      BY GoneThread, ThreadNames DEF Loop
    <3> QED
      BY <1>8, <1>a, <3>1 DEF ProbeRoute
  <2>3. ProbesOK'
    BY <2>1, <2>2 DEF ProbesOK, Tracked
  <2> QED
    BY <1>1, <1>3, <2>1, <2>3, SameStates DEF Unheard, StatesOK
<1>9. CASE PresumeOnline
  <2>1. /\ states' = IF Tracked(Loop.node) THEN MarkOnline(Loop.node) ELSE states
        /\ presumed' = presumed \cup {Loop.node} /\ UNCHANGED file /\ Loop.pc = "found"
        /\ Loop'.nodes = Loop.nodes
    BY <1>9, <1>a DEF PresumeOnline, NodeOf, At, Loop
  <2>2. states' \in StateTable /\ CountsKept /\ Milder({Loop.node})
    BY <2>1, MarkedOnline, SameStates
  <2>3. ProbesOK'
    BY <2>1, <2>2 DEF ProbesOK, CountsKept, Tracked
  <2>4. Milder(presumed')
    BY <2>1, <2>2 DEF Milder
  <2> QED
    BY <1>1, <1>3, <2>1, <2>2, <2>3, <2>4 DEF Unheard, StatesOK
<1>10. CASE Persist
  <2>1. UNCHANGED <<states, presumed>> /\ file' \in StateTable
    BY <1>10 DEF Persist, StatesOK
  <2>2. Loop'.pc = "idle"
    BY <1>2, <1>10 DEF Persist, Loop, Idle
  <2> QED
    BY <1>1, <1>3, <2>1, <2>2, NoProbes, SameStates DEF Unheard, StatesOK
<1> QED
  BY <1>4, <1>5, <1>6, <1>7, <1>8, <1>9, <1>10 DEF LoopSteps

LEMMA CommonStates ==
    ASSUME ThreadsOK, StatesOK, ProbesOK, NEW w \in Threads, CommonSteps(w)
    PROVE  /\ StatesOK' /\ ProbesOK' /\ beats' = beats
           /\ w # "heartbeat" => Unheard
<1>1. Only(w) /\ IsThread(thread[w]) /\ IsThread(Idle)
  BY CommonMoves, IdleThread DEF ThreadsOK
<1>2. w # "heartbeat" => HB' = HB
  BY <1>1, ThreadNames DEF Only, HB
<1>3. UNCHANGED <<beats, file>>
  BY DEF CommonSteps, Invalidate, Switch, Rediscover, Recover, Reroute
<1>4. thread'[w].pc \notin {"attempt", "find", "found"}
  <2>1. CASE Invalidate(w)
    <3>1. PICK t : thread' = [thread EXCEPT ![w].pc = "switch", ![w].target = t, ![w].targets = @ \ {t}]
      BY <2>1 DEF Invalidate
    <3>2. thread'[w].pc = "switch"
      BY <1>1, <3>1 DEF ThreadsOK, IsThread
    <3> QED
      BY <3>2
  <2>2. CASE thread' = [thread EXCEPT ![w] = AfterTarget(w)]
    <3>1. AfterTarget(w).pc \in {"refresh", "invalid", "offline", "idle"}
      BY AfterTargetThread, IdleThread
    <3> QED
      BY <2>2, <3>1 DEF ThreadsOK
  <2>3. CASE GoTo(w, "discover") \/ GoTo(w, "reroute")
    <3>1. thread'[w].pc = "discover" \/ thread'[w].pc = "reroute"
      BY <2>3, GoneThread
    <3> QED
      BY <3>1
  <2>4. CASE Reroute(w)
    <3>1. PICK x : x = CASE thread[w].ret = "received" -> [Idle EXCEPT !.pc = thread[w].ret, !.node = NodeOf(w)]
                    [] thread[w].ret = "pongs" -> [Idle EXCEPT !.pc = thread[w].ret, !.nodes = thread[w].nodes]
                    [] thread[w].ret = "idle" -> Idle
      OBVIOUS
    <3>2. thread' = [thread EXCEPT ![w] = x]
      BY <2>4, <3>1 DEF Reroute
    <3>3. x.pc \in {"received", "pongs", "idle"}
      BY <1>1, <3>1 DEF IsThread, Idle
    <3> QED
      BY <3>2, <3>3 DEF ThreadsOK
  <2> QED
    BY <2>1, <2>2, <2>3, <2>4 DEF CommonSteps, Switch, Rediscover, Recover
<1>5. CASE Recover(w)
  <2>1. /\ states' = MarkOnline(NodeOf(w))
        /\ presumed' = IF w = "heartbeat" THEN presumed ELSE presumed \cup {NodeOf(w)}
    BY <1>5 DEF Recover
  <2>2. states' \in StateTable /\ CountsKept /\ Milder({NodeOf(w)})
    BY <2>1, MarkedOnline
  <2>3. StatesOK'
    BY <1>3, <2>2 DEF StatesOK
  <2>4. ProbesOK'
    <3>1. CASE w = "loop"
      BY <1>4, <3>1, NoProbes DEF Loop
    <3>2. CASE w # "loop"
      BY <1>1, <2>2, <3>2, ProbesKept, ThreadNames DEF Only, Loop
    <3> QED
      BY <3>1, <3>2
  <2>5. w # "heartbeat" => Milder(presumed') /\ presumed \subseteq presumed'
    BY <2>1, <2>2 DEF Milder
  <2> QED
    BY <1>2, <1>3, <2>3, <2>4, <2>5 DEF Unheard
<1>6. CASE ~ Recover(w)
  <2>1. UNCHANGED <<states, presumed>>
    BY <1>6 DEF CommonSteps, Invalidate, Switch, Rediscover, Reroute
  <2>2. states' \in StateTable /\ CountsKept /\ Milder(presumed')
    BY <2>1, SameStates
  <2>3. ProbesOK'
    <3>1. CASE w = "loop"
      BY <1>4, <3>1, NoProbes DEF Loop
    <3>2. CASE w # "loop"
      BY <1>1, <2>2, <3>2, ProbesKept, ThreadNames DEF Only, Loop
    <3> QED
      BY <3>1, <3>2
  <2> QED
    BY <1>2, <1>3, <2>1, <2>2, <2>3 DEF Unheard, StatesOK
<1> QED
  BY <1>5, <1>6

LEMMA CallerStates ==
    ASSUME ThreadsOK, StatesOK, ProbesOK,
           RefreshOne \/ Calls \/ DhtChanges \/ \E p \in Monitored : Messages(p)
    PROVE  StatesOK' /\ ProbesOK' /\ Unheard
<1>1. HB' = HB /\ Loop' = Loop
  BY CallerMoves, ThreadNames DEF Only, HB, Loop
<1>2. UNCHANGED <<beats, file, presumed>>
  BY DEF RefreshOne, Calls, RefreshStaleRoutes, ChangeRoutes, HandlePathFailure, DhtChanges, Messages,
         HandleHealPong, HandlePartitionSync, SendBeat, Flip, peerVars
<1>3. states' = states \/ \E p : states' = AddNode(p)
  BY DEF RefreshOne, Calls, RefreshStaleRoutes, ChangeRoutes, HandlePathFailure, DhtChanges, Messages,
         HandleHealPong, HandlePartitionSync, SendBeat, Flip, peerVars
<1>4. states' \in StateTable /\ CountsKept /\ Milder({})
  BY <1>3, SameStates, AddedNode
<1>5. Milder(presumed')
  BY <1>4 DEF Milder
<1> QED
  BY <1>1, <1>2, <1>4, <1>5, ProbesKept DEF Unheard, StatesOK

LEMMA HeartbeatStates ==
    ASSUME ThreadsOK, StatesOK, ProbesOK, AgreeInv,
           CheckBeats \/ HeartbeatSteps \/ \E p \in Monitored : HandleHeartbeat(p)
    PROVE  StatesOK' /\ ProbesOK'
<1>1. Loop' = Loop
  BY HeartbeatMoves, ThreadNames DEF Only, Loop
<1>2. UNCHANGED file
  BY DEF CheckBeats, HandleHeartbeat, HeartbeatSteps, OnNodeOnline, OnHeartbeatReceived, OnNodeOffline,
         RemoveOffline, Affected
<1>3. \/ states' = states
      \/ \E p : states' = AddNode(p) \/ states' = MarkOnline(p)
      \/ \E p \in HB.nodes : states' = MarkOffline(p)
  BY DEF CheckBeats, HandleHeartbeat, HeartbeatSteps, OnNodeOnline, OnHeartbeatReceived, OnNodeOffline,
         RemoveOffline, Affected, StatesOffline, HB
<1>4. HB.nodes \subseteq Peers
  BY MonitoredAssumption DEF AgreeInv
<1>5. states' \in StateTable /\ CountsKept
  BY <1>3, <1>4, SameStates, AddedNode, MarkedOnline, MarkedOffline
<1> QED
  BY <1>1, <1>2, <1>5, ProbesKept DEF StatesOK

-----------------------------------------------------------------------------
(* The two managers agree.                                                  *)

LEMMA UnheardAgrees ==
    ASSUME AgreeInv, Unheard
    PROVE  AgreeInv'
<1>1. \A p \in Monitored : p \in Peers
  BY MonitoredAssumption
<1> QED
  BY <1>1 DEF AgreeInv, Unheard, Milder, Dropping, Hearing

\* The heartbeat thread goes on with the silent nodes, or is through with them.
LEMMA DroppingAgrees ==
    ASSUME AgreeInv, HB.pc \in Dropping, UNCHANGED <<beats, states, presumed>>,
           \/ HB'.pc \in Dropping /\ HB'.nodes = HB.nodes /\ HB'.ret = HB.ret
           \/ HB' = Idle /\ HB.nodes = {}
    PROVE  AgreeInv'
<1>1. \A p : Offline(p)' <=> Offline(p)
  BY DEF Offline, Tracked
<1>2. HB.pc \notin Hearing
  BY DEF Dropping, Hearing
<1>3. CASE HB'.pc \in Dropping /\ HB'.nodes = HB.nodes /\ HB'.ret = HB.ret
  <2>1. HB'.pc \notin Hearing /\ HB'.pc # "reroute" /\ HB'.pc # "recover"
    BY <1>3 DEF Dropping, Hearing
  <2> QED
    BY <1>1, <1>2, <1>3, <2>1 DEF AgreeInv
<1>4. CASE HB' = Idle /\ HB.nodes = {}
  <2>1. HB'.pc = "idle" /\ HB'.nodes = {} /\ HB'.ret = "idle" /\ "idle" \notin Hearing
    BY <1>4, IdleThread DEF Hearing
  <2> QED
    BY <1>1, <1>2, <1>4, <2>1 DEF AgreeInv
<1> QED
  BY <1>3, <1>4

LEMMA CheckAgrees ==
    ASSUME ThreadsOK, BeatsOK, AgreeInv, CheckBeats
    PROVE  AgreeInv'
<1>1. HB.pc = "idle" /\ UNCHANGED <<states, presumed>>
  BY DEF CheckBeats, At, HB
<1>2. PICK late \in SUBSET Monitored :
        LET missed(p) == beats[p].missed + (IF p \in late THEN 1 ELSE 0)
            out == {p \in late : missed(p) >= offline_threshold}
        IN  /\ beats' = [p \in Monitored |->
                           [online |-> beats[p].online /\ p \notin out,
                            missed |-> missed(p),
                            age |-> Min({beats[p].age + 1, 2})]]
            /\ thread' = [thread EXCEPT !["heartbeat"] =
                            IF out = {} THEN Idle ELSE [Idle EXCEPT !.pc = "offline", !.nodes = out]]
  BY DEF CheckBeats
<1>3. PICK out \in SUBSET Monitored :
        /\ \A p \in Monitored : beats'[p].online = (beats[p].online /\ p \notin out)
        /\ thread' = [thread EXCEPT !["heartbeat"] =
                        IF out = {} THEN Idle ELSE [Idle EXCEPT !.pc = "offline", !.nodes = out]]
  BY <1>2
<1>4. /\ HB'.nodes = out /\ HB'.ret = "idle"
      /\ HB'.pc = IF out = {} THEN "idle" ELSE "offline"
  BY <1>3, ThreadNames DEF ThreadsOK, HB, Idle
<1>5. \A p \in Monitored \ presumed : Offline(p) <=> ~ beats[p].online
  BY <1>1 DEF AgreeInv, Dropping, Hearing
<1>6. \A p : Offline(p)' <=> Offline(p)
  BY <1>1 DEF Offline, Tracked
<1>7. HB'.pc \in {"idle", "offline"} /\ HB'.pc \notin Hearing /\ (out # {} => HB'.pc \in Dropping)
  BY <1>4 DEF Dropping, Hearing
<1>8. \A p \in Monitored \ presumed : p \in out \/ (Offline(p)' <=> ~ beats'[p].online)
  BY <1>3, <1>5, <1>6
<1> QED
  BY <1>1, <1>3, <1>4, <1>7, <1>8 DEF AgreeInv

LEMMA HeardAgrees ==
    ASSUME ThreadsOK, BeatsOK, StatesOK, AgreeInv, NEW p \in Monitored, HandleHeartbeat(p)
    PROVE  AgreeInv'
<1>1. HB.pc = "idle" /\ UNCHANGED <<states, presumed>> /\ beats' = [beats EXCEPT ![p] = BeatOf(p)]
  BY DEF HandleHeartbeat, At, HB
<1>2. PICK place \in {"received", "online"} :
         thread' = [thread EXCEPT !["heartbeat"] = [Idle EXCEPT !.pc = place, !.node = p]]
  BY DEF HandleHeartbeat
<1>3. /\ HB'.nodes = {} /\ HB'.ret = "idle" /\ HB'.pc = place /\ HB'.node = p
  BY <1>2, ThreadNames DEF ThreadsOK, HB, Idle
<1>4. \A q \in Monitored \ presumed : Offline(q) <=> ~ beats[q].online
  BY <1>1 DEF AgreeInv, Dropping, Hearing
<1>5. \A q : Offline(q)' <=> Offline(q)
  BY <1>1 DEF Offline, Tracked
<1>6. beats'[p].online /\ \A q \in Monitored : q # p => beats'[q] = beats[q]
  BY <1>1 DEF BeatsOK, BeatOf
<1>7. place \in Hearing /\ place # "reroute" /\ place # "recover"
  BY DEF Hearing
<1> QED
  BY <1>1, <1>3, <1>4, <1>5, <1>6, <1>7 DEF AgreeInv

LEMMA OnlineAgrees ==
    ASSUME ThreadsOK, StatesOK, AgreeInv, OnNodeOnline
    PROVE  AgreeInv'
<1>1. PICK place \in {"recover", "received"} :
        thread' = [thread EXCEPT !["heartbeat"].pc = place, !["heartbeat"].ret = "received"]
  BY DEF OnNodeOnline
<1>2. HB.pc = "online" /\ UNCHANGED <<beats, presumed>> /\ states' = AddNode(HB.node)
  BY DEF OnNodeOnline, At, NodeOf, HB
<1>3. HB'.pc = place /\ HB'.ret = "received" /\ HB'.node = HB.node /\ HB'.nodes = HB.nodes
  <2>1. HB' = [HB EXCEPT !.pc = place, !.ret = "received"] /\ IsThread(HB)
    BY <1>1, ThreadNames DEF ThreadsOK, HB
  <2> QED
    BY <2>1 DEF IsThread
<1>4. \A q \in Monitored : Offline(q)' <=> Offline(q)
  BY <1>2, AddedNode, MonitoredAssumption DEF Milder
<1>5. HB.pc \in Hearing /\ HB'.pc \in Hearing /\ HB.pc \notin Dropping /\ HB'.pc # "reroute"
  BY <1>2, <1>3 DEF Hearing, Dropping
<1> QED
  BY <1>2, <1>3, <1>4, <1>5 DEF AgreeInv

LEMMA ReceivedAgrees ==
    ASSUME ThreadsOK, StatesOK, AgreeInv, OnHeartbeatReceived
    PROVE  AgreeInv'
<1>0. PICK n : n = HB.node
  OBVIOUS
<1>1. /\ HB.pc = "received" /\ UNCHANGED beats /\ presumed' = presumed \ {n}
      /\ states' = IF Offline(n) THEN MarkOnline(n) ELSE AddNode(n)
  BY <1>0 DEF OnHeartbeatReceived, BackFromOffline, At, NodeOf, HB
<1>a. PICK x : x = IF Offline(n) THEN [HB EXCEPT !.pc = "recover", !.ret = "idle"] ELSE Idle
  OBVIOUS
<1>b. HB' = x
  BY <1>0, <1>a, ThreadNames DEF OnHeartbeatReceived, BackFromOffline, NodeOf, HB, ThreadsOK
<1>2. HB.pc \in Hearing /\ HB.pc \notin Dropping /\ HB.nodes = {} /\ n \in Monitored /\ beats[n].online
  BY <1>0, <1>1 DEF AgreeInv, Hearing, Dropping
<1>3. n \in Peers
  BY <1>2, MonitoredAssumption
<1>4. ~ Offline(n)'
  BY <1>1, <1>3, Marks DEF Offline, OfflineIn, Tracked
<1>5. \A q \in Monitored : q # n => (Offline(q)' <=> Offline(q))
  BY <1>1, MarkedOnline, AddedNode, MonitoredAssumption DEF Milder
<1>6. CASE Offline(n)
  <2>1. HB'.pc = "recover" /\ HB'.ret = "idle" /\ HB'.node = n /\ HB'.nodes = {}
    <3>1. x = [HB EXCEPT !.pc = "recover", !.ret = "idle"] /\ IsThread(HB)
      BY <1>6, <1>a, ThreadNames DEF ThreadsOK, HB
    <3> QED
      BY <1>0, <1>2, <1>b, <3>1 DEF IsThread
  <2>2. HB'.pc \in Hearing
    BY <2>1 DEF Hearing
  <2> QED
    BY <1>0, <1>1, <1>2, <1>4, <1>5, <2>1, <2>2 DEF AgreeInv
<1>7. CASE ~ Offline(n)
  <2>1. HB' = Idle
    BY <1>7, <1>a, <1>b
  <2>2. HB'.pc = "idle" /\ HB'.nodes = {} /\ HB'.ret = "idle" /\ "idle" \notin Hearing
    BY <2>1, IdleThread DEF Hearing
  <2> QED
    BY <1>0, <1>1, <1>2, <1>4, <1>5, <2>2 DEF AgreeInv
<1> QED
  BY <1>6, <1>7

LEMMA OfflineAgrees ==
    ASSUME ThreadsOK, StatesOK, AgreeInv, OnNodeOffline
    PROVE  AgreeInv'
<1>1. PICK p \in HB.nodes :
        /\ states' = MarkOffline(p) /\ presumed' = presumed \ {p}
        /\ thread' = [thread EXCEPT !["heartbeat"].pc = "remove", !["heartbeat"].node = p,
                                    !["heartbeat"].nodes = @ \ {p}]
  BY DEF OnNodeOffline, StatesOffline, HB
<1>2. HB.pc = "offline" /\ UNCHANGED beats
  BY DEF OnNodeOffline, At, HB
<1>3. HB'.pc = "remove" /\ HB'.nodes = HB.nodes \ {p} /\ HB'.ret = HB.ret
  BY <1>1, ThreadNames DEF ThreadsOK, IsThread, HB
<1>4. p \in Monitored /\ p \in Peers /\ ~ beats[p].online
  BY MonitoredAssumption DEF AgreeInv
<1>5. Offline(p)' /\ \A q \in Monitored : q # p => (Offline(q)' <=> Offline(q))
  BY <1>1, <1>4, MarkedOffline, MonitoredAssumption
<1>6. HB.pc \notin Hearing /\ HB'.pc \in Dropping /\ HB'.pc \notin Hearing /\ HB'.pc # "reroute" /\ HB'.pc # "recover"
  BY <1>2, <1>3 DEF Dropping, Hearing
<1> QED
  BY <1>1, <1>2, <1>3, <1>4, <1>5, <1>6 DEF AgreeInv

LEMMA RecoverAgrees ==
    ASSUME ThreadsOK, StatesOK, AgreeInv, Recover("heartbeat") \/ Reroute("heartbeat")
    PROVE  AgreeInv'
<1>1. CASE Recover("heartbeat")
  <2>1. /\ HB.pc = "recover" /\ UNCHANGED <<beats, presumed>> /\ states' = MarkOnline(HB.node)
        /\ GoTo("heartbeat", "reroute")
    BY <1>1 DEF Recover, At, NodeOf, HB
  <2>2. HB'.pc = "reroute" /\ HB'.ret = HB.ret /\ HB'.node = HB.node /\ HB'.nodes = HB.nodes
    BY <2>1, GoneThread, ThreadNames DEF HB
  <2>3. HB.pc \in Hearing /\ HB'.pc \in Hearing /\ HB.pc \notin Dropping
    BY <2>1, <2>2 DEF Hearing, Dropping
  <2>a. PICK n : n = HB.node
    OBVIOUS
  <2>4. n \in Peers
    BY <2>3, <2>a, MonitoredAssumption DEF AgreeInv
  <2>5. ~ Offline(n)' /\ \A q \in Monitored : q # n => (Offline(q)' <=> Offline(q))
    BY <2>1, <2>4, <2>a, Marks, MonitoredAssumption DEF Offline, OfflineIn, Tracked
  <2> QED
    BY <2>1, <2>2, <2>3, <2>5, <2>a DEF AgreeInv
<1>2. CASE Reroute("heartbeat")
  <2>1. HB.pc = "reroute" /\ UNCHANGED <<beats, presumed, states>>
    BY <1>2 DEF Reroute, At, HB
  <2>2. HB.pc \in Hearing /\ HB.pc \notin Dropping /\ HB.nodes = {} /\ HB.ret \in {"idle", "received"}
        /\ HB.node \in Monitored /\ beats[HB.node].online /\ ~ Offline(HB.node)
    BY <2>1 DEF AgreeInv, Hearing, Dropping
  <2>3. \A q : Offline(q)' <=> Offline(q)
    BY <2>1 DEF Offline, Tracked
  <2>4. PICK x : x = CASE HB.ret = "received" -> [Idle EXCEPT !.pc = HB.ret, !.node = HB.node]
                       [] HB.ret = "pongs" -> [Idle EXCEPT !.pc = HB.ret, !.nodes = HB.nodes]
                       [] HB.ret = "idle" -> Idle
    OBVIOUS
  <2>5. HB' = x
    BY <1>2, <2>4, ThreadNames DEF Reroute, ThreadsOK, NodeOf, HB
  <2>6. CASE HB.ret = "received"
    <3>1. x = [Idle EXCEPT !.pc = "received", !.node = HB.node]
      BY <2>4, <2>6
    <3>2. HB'.pc = "received" /\ HB'.node = HB.node /\ HB'.nodes = {} /\ HB'.ret = "idle"
      BY <2>5, <3>1 DEF Idle
    <3>3. HB'.pc \in Hearing
      BY <3>2 DEF Hearing
    <3> QED
      BY <2>1, <2>2, <2>3, <3>2, <3>3 DEF AgreeInv
  <2>7. CASE HB.ret = "idle"
    <3>1. HB' = Idle
      BY <2>4, <2>5, <2>7
    <3>2. HB'.pc = "idle" /\ HB'.nodes = {} /\ HB'.ret = "idle" /\ "idle" \notin Hearing
      BY <3>1, IdleThread DEF Hearing
    <3> QED
      BY <2>1, <2>2, <2>3, <3>2 DEF AgreeInv
  <2> QED
    BY <2>2, <2>6, <2>7
<1> QED
  BY <1>1, <1>2

LEMMA DropStepsAgree ==
    ASSUME ThreadsOK, AgreeInv,
           RemoveOffline \/ Affected \/ Invalidate("heartbeat") \/ Switch("heartbeat") \/ Rediscover("heartbeat")
    PROVE  AgreeInv'
<1>1. HB.pc \in Dropping /\ UNCHANGED <<beats, states, presumed>> /\ IsThread(HB)
  BY ThreadNames DEF RemoveOffline, Affected, Invalidate, Switch, Rediscover, At, HB, Dropping, ThreadsOK
<1>2. CASE GoTo("heartbeat", "affected") \/ GoTo("heartbeat", "discover")
  <2>1. HB'.pc \in {"affected", "discover"} /\ HB'.nodes = HB.nodes /\ HB'.ret = HB.ret
    BY <1>2, GoneThread, ThreadNames DEF HB
  <2>2. HB'.pc \in Dropping
    BY <2>1 DEF Dropping
  <2> QED
    BY <1>1, <2>1, <2>2, DroppingAgrees
<1>3. CASE Affected
  <2>1. PICK via : thread' = [thread EXCEPT !["heartbeat"] =
                        IF via # {} THEN [HB EXCEPT !.pc = "invalid", !.targets = via]
                        ELSE IF HB.nodes # {} THEN [HB EXCEPT !.pc = "offline"] ELSE Idle]
    BY <1>3 DEF Affected, HB
  <2>2. \/ HB'.pc \in {"invalid", "offline"} /\ HB'.nodes = HB.nodes /\ HB'.ret = HB.ret
        \/ HB' = Idle /\ HB.nodes = {}
    <3>1. PICK x : x = IF via # {} THEN [HB EXCEPT !.pc = "invalid", !.targets = via]
                        ELSE IF HB.nodes # {} THEN [HB EXCEPT !.pc = "offline"] ELSE Idle
      OBVIOUS
    <3>2. HB' = x
      BY <2>1, <3>1, ThreadNames DEF ThreadsOK, HB
    <3> QED
      BY <1>1, <3>1, <3>2 DEF IsThread
  <2>3. "invalid" \in Dropping /\ "offline" \in Dropping
    BY DEF Dropping
  <2> QED
    BY <1>1, <2>2, <2>3, DroppingAgrees
<1>4. CASE Invalidate("heartbeat")
  <2>1. PICK t : thread' = [thread EXCEPT !["heartbeat"].pc = "switch", !["heartbeat"].target = t,
                                          !["heartbeat"].targets = @ \ {t}]
    BY <1>4 DEF Invalidate
  <2>2. HB'.pc = "switch" /\ HB'.nodes = HB.nodes /\ HB'.ret = HB.ret
    BY <1>1, <2>1, ThreadNames DEF ThreadsOK, IsThread, HB
  <2>3. HB'.pc \in Dropping
    BY <2>2 DEF Dropping
  <2> QED
    BY <1>1, <2>2, <2>3, DroppingAgrees
<1>5. CASE thread' = [thread EXCEPT !["heartbeat"] = AfterTarget("heartbeat")]
  <2>1. HB' = AfterTarget("heartbeat")
    BY <1>5, ThreadNames DEF ThreadsOK, HB
  <2>2. \/ HB'.pc \in {"invalid", "offline"} /\ HB'.nodes = HB.nodes /\ HB'.ret = HB.ret
        \/ HB' = Idle /\ HB.nodes = {}
    BY <2>1, AfterTargetThread, ThreadNames DEF HB
  <2>3. "invalid" \in Dropping /\ "offline" \in Dropping
    BY DEF Dropping
  <2> QED
    BY <1>1, <2>2, <2>3, DroppingAgrees
<1> QED
  BY <1>2, <1>3, <1>4, <1>5 DEF RemoveOffline, Switch, Rediscover

-----------------------------------------------------------------------------
(* The routing table.                                                       *)

\* The dead paths of a table were dead paths of the other.
Improves(new, old) ==
    \A e \in new :
        /\ IsEntry(e)
        /\ Dead(e) => \E f \in old : Dead(f) /\ f.target = e.target /\ f.next_hop = e.next_hop

LEMMA ImprovesTwice ==
    ASSUME NEW new, NEW mid, NEW old, Improves(new, mid), Improves(mid, old)
    PROVE  Improves(new, old)
BY DEF Improves

LEMMA SameImproves ==
    ASSUME NEW table, \A e \in table : IsEntry(e)
    PROVE  Improves(table, table)
BY DEF Improves

LEMMA WithoutImproves ==
    ASSUME NEW table, \A e \in table : IsEntry(e), NEW ts
    PROVE  Improves(Without(table, ts), table)
<1>1. SUFFICES ASSUME NEW x \in Without(table, ts)
               PROVE  /\ IsEntry(x)
                      /\ Dead(x) => \E f \in table : Dead(f) /\ f.target = x.target /\ f.next_hop = x.next_hop
  BY DEF Improves
<1>2. PICK e \in table : x = [e EXCEPT !.newer = e.newer \ ts]
  BY <1>1 DEF Without
<1>3. IsEntry(e)
  OBVIOUS
<1>4. /\ IsEntry(x)
      /\ x.target = e.target /\ x.next_hop = e.next_hop /\ x.valid = e.valid
      /\ x.gone = e.gone /\ x.extended = e.extended
  BY <1>2, <1>3 DEF IsEntry
<1> QED
  BY <1>4 DEF Dead

LEMMA InsertImproves ==
    ASSUME NEW table, \A e \in table : IsEntry(e), NEW new, IsEntry(new), new.gone = {}
    PROVE  Improves(Insert(table, new), table)
<1>1. Improves(RemoveRoute(table, new.target), table)
  BY WithoutImproves DEF RemoveRoute
<1>2. SUFFICES ASSUME NEW x \in Insert(table, new)
               PROVE  /\ IsEntry(x)
                      /\ Dead(x) => \E f \in table : Dead(f) /\ f.target = x.target /\ f.next_hop = x.next_hop
  BY DEF Improves
<1>3. CASE x = new
  BY <1>3 DEF Dead
<1>4. CASE x # new
  <2>1. PICK e \in RemoveRoute(table, new.target) : x = [e EXCEPT !.newer = e.newer \cup {new.target}]
    BY <1>2, <1>4 DEF Insert
  <2>2. IsEntry(e)
    BY <1>1 DEF Improves
  <2>3. /\ IsEntry(x)
        /\ x.target = e.target /\ x.next_hop = e.next_hop /\ x.valid = e.valid
        /\ x.gone = e.gone /\ x.extended = e.extended
    BY <2>1, <2>2 DEF IsEntry
  <2> QED
    BY <1>1, <2>3 DEF Dead, Improves
<1> QED
  BY <1>3, <1>4

LEMMA InsertOrEvictImproves ==
    ASSUME NEW table, \A e \in table : IsEntry(e), NEW t, NEW hop, NEW others
    PROVE  /\ Improves(Insert(table, NewEntry(t, hop, others)), table)
           /\ Improves(InsertOrEvict(table, NewEntry(t, hop, others)), table)
<1>1. PICK new : new = NewEntry(t, hop, others)
  OBVIOUS
<1>2. IsEntry(new) /\ new.gone = {}
  BY <1>1 DEF NewEntry, IsEntry
<1>3. PICK mid : /\ InsertOrEvict(table, new) = Insert(mid, new)
                 /\ mid = table \/ \E d : mid = RemoveRoute(table, d)
  BY DEF InsertOrEvict
<1>4. Improves(mid, table)
  BY <1>3, WithoutImproves, SameImproves DEF RemoveRoute
<1>5. Improves(Insert(mid, new), mid)
  BY <1>2, <1>4, InsertImproves DEF Improves
<1> QED
  BY <1>1, <1>2, <1>3, <1>4, <1>5, InsertImproves, ImprovesTwice

\* mark_invalid leaves no dead path to the target.
LEMMA InvalidImproves ==
    ASSUME NEW table, \A e \in table : IsEntry(e), NEW t
    PROVE  /\ Improves(SetValid(table, t, FALSE), table)
           /\ \A e \in SetValid(table, t, FALSE) : Dead(e) => e.target # t
<1>1. SUFFICES ASSUME NEW x \in SetValid(table, t, FALSE)
               PROVE  /\ IsEntry(x)
                      /\ Dead(x) => x \in table /\ x.target # t
  BY DEF Improves
<1>2. PICK e \in table : x = IF e.target = t THEN [e EXCEPT !.valid = FALSE] ELSE e
  BY <1>1 DEF SetValid
<1>3. IsEntry(e)
  OBVIOUS
<1>4. CASE e.target = t
  <2>1. x = [e EXCEPT !.valid = FALSE]
    BY <1>2, <1>4
  <2>2. IsEntry(x) /\ x.valid = FALSE
    BY <1>3, <2>1 DEF IsEntry
  <2> QED
    BY <2>2 DEF Dead
<1>5. CASE e.target # t
  BY <1>2, <1>3, <1>5
<1> QED
  BY <1>4, <1>5

LEMMA ExtendImproves ==
    ASSUME NEW table, \A e \in table : IsEntry(e), NEW t
    PROVE  Improves(Extend(table, t), table)
<1>1. SUFFICES ASSUME NEW x \in Extend(table, t)
               PROVE  IsEntry(x) /\ (Dead(x) => x \in table)
  BY DEF Improves
<1>2. PICK e \in table : x = IF e.target = t THEN [e EXCEPT !.valid = TRUE, !.extended = TRUE] ELSE e
  BY <1>1 DEF Extend
<1>3. IsEntry(e)
  OBVIOUS
<1>4. CASE e.target = t
  <2>1. x = [e EXCEPT !.valid = TRUE, !.extended = TRUE]
    BY <1>2, <1>4
  <2>2. IsEntry(x) /\ x.extended = TRUE
    BY <1>3, <2>1 DEF IsEntry
  <2> QED
    BY <2>2 DEF Dead
<1>5. CASE e.target # t
  BY <1>2, <1>3, <1>5
<1> QED
  BY <1>4, <1>5

\* Whatever is done to the table, but for the marks of on_node_offline.
LEMMA RoutesImprove ==
    ASSUME RoutesOK,
           \/ routes' = routes
           \/ \E ts : routes' = Without(routes, ts)
           \/ \E t : routes' = SetValid(routes, t, FALSE) \/ routes' = Extend(routes, t)
           \/ \E t, hop, others : \/ routes' = Insert(routes, NewEntry(t, hop, others))
                                  \/ routes' = InsertOrEvict(routes, NewEntry(t, hop, others))
    PROVE  Improves(routes', routes)
BY SameImproves, WithoutImproves, InsertOrEvictImproves, InvalidImproves, ExtendImproves DEF RoutesOK

LEMMA TableSteps ==
    ASSUME RoutesOK,
           \/ CheckBeats \/ OnNodeOnline \/ OnHeartbeatReceived \/ RemoveOffline \/ Affected
           \/ LoopSteps \/ RefreshOne \/ Calls \/ DhtChanges
           \/ \E w \in Threads : CommonSteps(w)
           \/ \E p \in Monitored : HandleHeartbeat(p) \/ Messages(p)
    PROVE  Improves(routes', routes)
<1>1. \A known, t : \E hop, others :
         DiscoverRoute(routes, known, t) = InsertOrEvict(routes, NewEntry(t, hop, others))
  BY DEF DiscoverRoute
<1>2. CASE CheckBeats \/ OnNodeOnline \/ OnHeartbeatReceived \/ Affected \/ DhtChanges
           \/ \E p \in Monitored : HandleHeartbeat(p) \/ Messages(p)
  BY <1>2, RoutesImprove DEF CheckBeats, OnNodeOnline, OnHeartbeatReceived, Affected, DhtChanges, HandleHeartbeat,
         Messages, HandleHealPong, HandlePartitionSync, SendBeat, Flip, peerVars
<1>3. CASE RemoveOffline
  BY <1>3, RoutesImprove DEF RemoveOffline, RemoveRoute
<1>4. CASE LoopSteps
  BY <1>1, <1>4, RoutesImprove DEF LoopSteps, TakePongs, ReadPong, ChooseOffline, SkipProbes, RecordAttempt, ProbeRoute,
         PresumeOnline, Persist
<1>5. CASE RefreshOne
  <2>1. (\E known, t : routes' = DiscoverRoute(routes, known, t)) \/ \E t : routes' = Extend(routes, t)
    BY <1>5 DEF RefreshOne
  <2> QED
    BY <1>1, <2>1, RoutesImprove
<1>6. CASE Calls
  <2>1. \/ routes' = routes
        \/ \E t : routes' = AddDirectRoute(routes, t) \/ routes' = SetValid(routes, t, FALSE)
        \/ routes' = CleanupExpired(routes)
    BY <1>6 DEF Calls, RefreshStaleRoutes, ChangeRoutes, HandlePathFailure
  <2>2. \A t : AddDirectRoute(routes, t) = InsertOrEvict(routes, NewEntry(t, t, <<t>>))
    BY DEF AddDirectRoute
  <2>3. \E ts : CleanupExpired(routes) = Without(routes, ts)
    BY DEF CleanupExpired
  <2> QED
    BY <2>1, <2>2, <2>3, RoutesImprove
<1>7. ASSUME NEW w \in Threads, CommonSteps(w)
      PROVE  Improves(routes', routes)
  <2>1. CASE Invalidate(w)
    BY <2>1, RoutesImprove DEF Invalidate, MarkInvalid
  <2>2. CASE Switch(w)
    <3>1. routes' = routes \/ \E t : routes' = FindAlternative(routes, t)
      BY <2>2 DEF Switch
    <3>2. \A t : \E hop, others : FindAlternative(routes, t) = Insert(routes, NewEntry(t, hop, others))
      BY DEF FindAlternative
    <3> QED
      BY <3>1, <3>2, RoutesImprove
  <2>3. CASE Rediscover(w) \/ Recover(w) \/ Reroute(w)
    <3>1. routes' = routes \/ \E known, t : routes' = DiscoverRoute(routes, known, t)
      BY <2>3 DEF Rediscover, Recover, Reroute
    <3> QED
      BY <1>1, <3>1, RoutesImprove
  <2> QED
    BY <1>7, <2>1, <2>2, <2>3 DEF CommonSteps
<1> QED
  BY <1>2, <1>3, <1>4, <1>5, <1>6, <1>7

\* While the heartbeat thread does nothing about a node, no dead path appears.
LEMMA DeadKept ==
    ASSUME DeadInv, Improves(routes', routes), HB' = HB
    PROVE  DeadInv'
BY DEF DeadInv, Improves

LEMMA NoneDead ==
    ASSUME DeadInv, Improves(routes', routes), HB.pc \notin Dropping \ {"offline"}
    PROVE  DeadInv'
BY DEF DeadInv, Improves

\* on_node_offline takes note of the node: the dead paths lead through it.
LEMMA OfflineDead ==
    ASSUME ThreadsOK, RoutesOK, DeadInv, OnNodeOffline
    PROVE  RoutesOK' /\ DeadInv'
<1>1. PICK p \in HB.nodes :
        /\ routes' = {[e EXCEPT !.gone = @ \cup {p}] : e \in routes}
        /\ thread' = [thread EXCEPT !["heartbeat"].pc = "remove", !["heartbeat"].node = p,
                                    !["heartbeat"].nodes = @ \ {p}]
  BY DEF OnNodeOffline, HB
<1>2. HB.pc = "offline"
  BY DEF OnNodeOffline, At, HB
<1>3. HB'.pc = "remove" /\ HB'.node = p
  BY <1>1, ThreadNames DEF ThreadsOK, IsThread, HB
<1>4. \A e \in routes : ~ Dead(e)
  BY <1>2 DEF DeadInv
<1>5. ASSUME NEW x \in routes'
      PROVE  IsEntry(x) /\ (Dead(x) => x.next_hop = p)
  <2>1. PICK e \in routes : x = [e EXCEPT !.gone = e.gone \cup {p}]
    BY <1>1, <1>5
  <2>2. IsEntry(e) /\ ~ Dead(e)
    BY <1>4 DEF RoutesOK
  <2>3. /\ IsEntry(x)
        /\ x.next_hop = e.next_hop /\ x.valid = e.valid /\ x.extended = e.extended
        /\ x.gone = e.gone \cup {p}
    BY <2>1, <2>2 DEF IsEntry
  <2> QED
    BY <2>2, <2>3 DEF Dead
<1>6. "remove" \in Dropping \ {"offline"} /\ "remove" \notin {"invalid", "switch", "discover"}
  BY DEF Dropping
<1> QED
  BY <1>3, <1>5, <1>6 DEF RoutesOK, DeadInv, Dead

\* The steps after that, until the last of the targets is dealt with.
LEMMA DropStepsDead ==
    ASSUME ThreadsOK, RoutesOK, DeadInv, Improves(routes', routes),
           RemoveOffline \/ Affected \/ Invalidate("heartbeat") \/ Switch("heartbeat") \/ Rediscover("heartbeat")
    PROVE  DeadInv'
<1>0. IsThread(HB)
  BY ThreadNames DEF ThreadsOK, HB
<1>1. CASE RemoveOffline
  <2>1. HB'.pc = "affected" /\ HB'.node = HB.node
    BY <1>1, GoneThread, ThreadNames DEF RemoveOffline, HB
  <2>2. "affected" \in Dropping \ {"offline"}
    BY DEF Dropping
  <2> QED
    BY <2>1, <2>2 DEF DeadInv, Improves
<1>2. CASE Affected
  <2>1. PICK via : /\ via = TargetsVia(routes, HB.node)
                   /\ thread' = [thread EXCEPT !["heartbeat"] =
                        IF via # {} THEN [HB EXCEPT !.pc = "invalid", !.targets = via]
                        ELSE IF HB.nodes # {} THEN [HB EXCEPT !.pc = "offline"] ELSE Idle]
    BY <1>2 DEF Affected, NodeOf, HB
  <2>2. routes' = routes
    BY <1>2 DEF Affected
  <2>3. \A e \in routes : Dead(e) => e.target \in via /\ HB.node = e.next_hop
    BY <2>1 DEF TargetsVia, DeadInv
  <2>4. CASE via # {}
    <3>1. PICK x : x = [HB EXCEPT !.pc = "invalid", !.targets = via]
      OBVIOUS
    <3>2. HB' = x
      BY <2>1, <2>4, <3>1, ThreadNames DEF ThreadsOK, HB
    <3>3. HB'.pc = "invalid" /\ HB'.targets = via /\ HB'.node = HB.node
      BY <1>0, <3>1, <3>2 DEF IsThread
    <3>4. "invalid" \in Dropping \ {"offline"}
      BY DEF Dropping
    <3> QED
      BY <2>2, <2>3, <3>3, <3>4 DEF DeadInv
  <2>5. CASE via = {}
    BY <2>2, <2>3, <2>5 DEF DeadInv
  <2> QED
    BY <2>4, <2>5
<1>3. CASE Invalidate("heartbeat")
  <2>1. PICK t : /\ routes' = SetValid(routes, t, FALSE)
                 /\ thread' = [thread EXCEPT !["heartbeat"].pc = "switch", !["heartbeat"].target = t,
                                             !["heartbeat"].targets = @ \ {t}]
    BY <1>3 DEF Invalidate, MarkInvalid
  <2>2. HB'.pc = "switch" /\ HB'.node = HB.node /\ HB'.targets = HB.targets \ {t}
    BY <1>0, <2>1, ThreadNames DEF ThreadsOK, IsThread, HB
  <2>3. \A e \in routes' : Dead(e) => e.target # t
    BY <2>1, InvalidImproves DEF RoutesOK
  <2>4. HB.pc = "invalid"
    BY <1>3 DEF Invalidate, At, HB
  <2>5. "switch" \in Dropping \ {"offline"}
    BY DEF Dropping
  <2> QED
    BY <2>2, <2>3, <2>4, <2>5 DEF DeadInv, Improves
<1>a. ASSUME HB.pc \in {"switch", "discover"},
             \/ GoTo("heartbeat", "discover")
             \/ thread' = [thread EXCEPT !["heartbeat"] = AfterTarget("heartbeat")]
      PROVE  DeadInv'
  <2>1. \A e \in routes' : Dead(e) => HB.node = e.next_hop /\ e.target \in HB.targets
    BY <1>a DEF DeadInv, Improves
  <2>2. CASE GoTo("heartbeat", "discover")
    <3>1. HB'.pc = "discover" /\ HB'.node = HB.node /\ HB'.targets = HB.targets
      BY <2>2, GoneThread, ThreadNames DEF HB
    <3>2. "discover" \in Dropping \ {"offline"}
      BY DEF Dropping
    <3> QED
      BY <2>1, <3>1, <3>2 DEF DeadInv
  <2>3. CASE thread' = [thread EXCEPT !["heartbeat"] = AfterTarget("heartbeat")]
    <3>1. HB' = AfterTarget("heartbeat")
      BY <2>3, ThreadNames DEF ThreadsOK, HB
    <3>2. CASE HB.targets # {}
      <4>1. HB'.pc = "invalid" /\ HB'.node = HB.node /\ HB'.targets = HB.targets
        BY <3>1, <3>2, AfterTargetThread, ThreadNames DEF HB
      <4>2. "invalid" \in Dropping \ {"offline"}
        BY DEF Dropping
      <4> QED
        BY <2>1, <4>1, <4>2 DEF DeadInv
    <3>3. CASE HB.targets = {}
      BY <2>1, <3>3 DEF DeadInv
    <3> QED
      BY <3>2, <3>3
  <2> QED
    BY <1>a, <2>2, <2>3
<1>4. CASE Switch("heartbeat") \/ Rediscover("heartbeat")
  <2>1. /\ HB.pc \in {"switch", "discover"}
        /\ \/ GoTo("heartbeat", "discover")
           \/ thread' = [thread EXCEPT !["heartbeat"] = AfterTarget("heartbeat")]
    BY <1>4 DEF Switch, Rediscover, At, HB
  <2> QED
    BY <1>a, <2>1
<1> QED
  BY <1>1, <1>2, <1>3, <1>4

-----------------------------------------------------------------------------
(* The whole.                                                               *)

HealInv ==
    ThreadsOK /\ StatesOK /\ BeatsOK /\ RoutesOK /\ ProbesOK /\ AgreeInv /\ DeadInv

LEMMA HealInit == Init => HealInv
<1> SUFFICES ASSUME Init PROVE HealInv
  OBVIOUS
<1>1. thread = [w \in Threads |-> Idle] /\ routes = {} /\ states = [p \in Peers |-> NoState] /\ file = states
      /\ beats = NewBeats
  BY DEF Init
<1>2. ThreadsOK /\ HB = Idle /\ Loop = Idle
  BY <1>1, IdleThread, ThreadNames DEF ThreadsOK, HB, Loop
<1>3. StatesOK /\ BeatsOK /\ RoutesOK /\ ProbesOK /\ DeadInv
  BY <1>1, <1>2, IdleThread DEF StatesOK, StateTable, BeatsOK, NewBeats, RoutesOK, ProbesOK, DeadInv
<1>4. \A p \in Monitored : ~ Offline(p) /\ beats[p].online
  BY <1>1, MonitoredAssumption DEF Offline, Tracked, NewBeats, NewBeat
<1>5. AgreeInv
  BY <1>2, <1>4, IdleThread DEF AgreeInv, Dropping, Hearing
<1> QED
  BY <1>2, <1>3, <1>5 DEF HealInv

LEMMA HealRestart ==
    ASSUME HealInv, Restart
    PROVE  HealInv'
<1>1. /\ thread' = [w \in Threads |-> Idle] /\ routes' = {} /\ file' = file
      /\ beats' = NewBeats /\ presumed' = Peers
      /\ states' = file \/ states' = [p \in Peers |-> NoState]
  BY DEF Restart
<1>2. ThreadsOK' /\ HB' = Idle /\ Loop' = Idle
  BY <1>1, IdleThread, ThreadNames DEF ThreadsOK, HB, Loop
<1>3. StatesOK' /\ BeatsOK' /\ RoutesOK' /\ DeadInv'
  BY <1>1 DEF HealInv, StatesOK, StateTable, BeatsOK, NewBeats, RoutesOK, DeadInv
<1>4. ProbesOK'
  BY <1>2, IdleThread, NoProbes
<1>5. AgreeInv'
  BY <1>1, <1>2, IdleThread, MonitoredAssumption DEF AgreeInv, Dropping, Hearing
<1> QED
  BY <1>2, <1>3, <1>4, <1>5 DEF HealInv

\* A step by which the heartbeat thread and HeartbeatManager do not change.
LEMMA HealUnheard ==
    ASSUME HealInv, ThreadsOK', StatesOK', ProbesOK', Unheard, Improves(routes', routes)
    PROVE  HealInv'
<1>1. AgreeInv'
  BY UnheardAgrees DEF HealInv
<1>2. DeadInv'
  BY DeadKept DEF HealInv, Unheard
<1>3. RoutesOK' /\ BeatsOK'
  BY DEF HealInv, Improves, RoutesOK, BeatsOK, Unheard
<1> QED
  BY <1>1, <1>2, <1>3 DEF HealInv

LEMMA HealHeartbeat ==
    ASSUME HealInv,
           \/ CheckBeats \/ HeartbeatSteps
           \/ \E p \in Monitored : HandleHeartbeat(p)
    PROVE  HealInv'
<1>0. ThreadsOK /\ StatesOK /\ BeatsOK /\ RoutesOK /\ ProbesOK /\ AgreeInv /\ DeadInv
  BY DEF HealInv
<1>1. ThreadsOK' /\ StatesOK' /\ ProbesOK'
  BY <1>0, HeartbeatMoves, HeartbeatStates DEF Only
<1>2. BeatsOK'
  BY <1>0 DEF BeatsOK, CheckBeats, HandleHeartbeat, HeartbeatSteps, OnNodeOnline, OnHeartbeatReceived,
              OnNodeOffline, RemoveOffline, Affected
<1>3. AgreeInv'
  BY <1>0, CheckAgrees, HeardAgrees, OnlineAgrees, ReceivedAgrees, OfflineAgrees, DropStepsAgree
     DEF HeartbeatSteps
<1>4. CASE OnNodeOffline
  BY <1>0, <1>1, <1>2, <1>3, <1>4, OfflineDead DEF HealInv
<1>5. CASE ~ OnNodeOffline
  <2>1. Improves(routes', routes)
    BY <1>0, <1>5, TableSteps DEF HeartbeatSteps
  <2>2. RoutesOK'
    BY <2>1 DEF Improves, RoutesOK
  <2>3. DeadInv'
    <3>1. CASE RemoveOffline \/ Affected
      BY <1>0, <2>1, <3>1, DropStepsDead
    <3>2. CASE ~ (RemoveOffline \/ Affected)
      <4>1. HB.pc \in {"idle", "online", "received"}
        BY <1>5, <3>2 DEF CheckBeats, HandleHeartbeat, HeartbeatSteps, OnNodeOnline, OnHeartbeatReceived, At, HB
      <4>2. HB.pc \notin Dropping \ {"offline"}
        BY <4>1 DEF Dropping
      <4> QED
        BY <1>0, <2>1, <4>2, NoneDead
    <3> QED
      BY <3>1, <3>2
  <2> QED
    BY <1>1, <1>2, <1>3, <2>2, <2>3 DEF HealInv
<1> QED
  BY <1>4, <1>5

LEMMA HealCommon ==
    ASSUME HealInv, NEW w \in Threads, CommonSteps(w)
    PROVE  HealInv'
<1>0. ThreadsOK /\ StatesOK /\ BeatsOK /\ RoutesOK /\ ProbesOK /\ AgreeInv /\ DeadInv
  BY DEF HealInv
<1>1. ThreadsOK' /\ StatesOK' /\ ProbesOK' /\ beats' = beats /\ (w # "heartbeat" => Unheard)
  BY <1>0, CommonMoves, CommonStates DEF Only
<1>2. Improves(routes', routes)
  BY <1>0, TableSteps
<1>3. CASE w # "heartbeat"
  BY <1>1, <1>2, <1>3, HealUnheard
<1>4. CASE w = "heartbeat"
  <2>1. RoutesOK' /\ BeatsOK'
    BY <1>0, <1>1, <1>2 DEF Improves, RoutesOK, BeatsOK
  <2>2. CASE Recover("heartbeat") \/ Reroute("heartbeat")
    <3>1. HB.pc \in {"recover", "reroute"}
      BY <2>2 DEF Recover, Reroute, At, HB
    <3>2. HB.pc \notin Dropping \ {"offline"}
      BY <3>1 DEF Dropping
    <3> QED
      BY <1>0, <1>1, <1>2, <2>1, <2>2, <3>2, NoneDead, RecoverAgrees DEF HealInv
  <2>3. CASE Invalidate("heartbeat") \/ Switch("heartbeat") \/ Rediscover("heartbeat")
    BY <1>0, <1>1, <1>2, <2>1, <2>3, DropStepsDead, DropStepsAgree DEF HealInv
  <2> QED
    BY <1>4, <2>2, <2>3 DEF CommonSteps
<1> QED
  BY <1>3, <1>4

LEMMA HealNext == HealInv /\ [Next]_vars => HealInv'
<1> SUFFICES ASSUME HealInv, [Next]_vars PROVE HealInv'
  OBVIOUS
<1>0. ThreadsOK /\ StatesOK /\ BeatsOK /\ RoutesOK /\ ProbesOK /\ AgreeInv /\ DeadInv
  BY DEF HealInv
<1>1. CASE CheckBeats \/ HeartbeatSteps \/ \E p \in Monitored : HandleHeartbeat(p)
  BY <1>1, HealHeartbeat
<1>2. CASE LoopSteps
  BY <1>0, <1>2, LoopMoves, LoopStates, TableSteps, HealUnheard DEF Only
<1>3. CASE RefreshOne \/ Calls \/ DhtChanges \/ \E p \in Monitored : Messages(p)
  <2>1. ThreadsOK' /\ StatesOK' /\ ProbesOK' /\ Unheard
    BY <1>0, <1>3, CallerMoves, CallerStates DEF Only
  <2>2. Improves(routes', routes)
    BY <1>0, <1>3, TableSteps
  <2> QED
    BY <2>1, <2>2, HealUnheard
<1>4. ASSUME NEW w \in Threads, CommonSteps(w)
      PROVE  HealInv'
  BY <1>4, HealCommon
<1>5. CASE Restart
  BY <1>5, HealRestart
<1>6. CASE UNCHANGED vars
  <2>1. UNCHANGED <<beats, states, routes, thread, file, presumed>>
    BY <1>6 DEF vars
  <2> QED
    BY <1>0, <2>1 DEF HealInv, ThreadsOK, StatesOK, BeatsOK, RoutesOK, ProbesOK, AgreeInv, DeadInv, HB, Loop,
                      Offline, Tracked
<1> QED
  BY <1>1, <1>2, <1>3, <1>4, <1>5, <1>6 DEF Next

LEMMA HealSafe == Spec => []HealInv
BY HealInit, HealNext, PTL DEF Spec

\* HeartbeatManager and SelfHealManager agree on who is offline whenever the lock
\* on nodes is free and nobody else told states of the peer: the loop of start() and
\* handle_heartbeat report their changes through the callbacks before they let it
\* go, whatever the healing loop, the callers and restarts do in between.
THEOREM ManagersAgree == Spec => []ViewsAgree
<1>1. HealInv => ViewsAgree
  BY DEF HealInv, AgreeInv, ViewsAgree, At, HB, Dropping, Hearing
<1> QED
  BY <1>1, HealSafe, PTL

\* on_node_offline leaves no path in use that led through the node when it went
\* offline, however the healing loop and the callers of find_alternative,
\* discover_route and cleanup_expired change the table between its steps.
THEOREM NoDeadPathStays == Spec => []DeadPathsGone
<1>1. HealInv => DeadPathsGone
  <2>1. "idle" \notin Dropping
    BY DEF Dropping
  <2> QED
    BY <2>1 DEF HealInv, DeadInv, Dead, DeadPathsGone, At, NodeOf, HB
<1> QED
  BY <1>1, HealSafe, PTL
=============================================================================
