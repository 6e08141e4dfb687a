------------------------------ MODULE SelfHeal ------------------------------
(***************************************************************************)
(* HeartbeatManager (heartbeat.rs) with SelfHealManager (selfheal.rs) as    *)
(* its callback, over the routing table of Multihop.                        *)
(*                                                                         *)
(* Three threads change what they share.  "heartbeat" stands for whoever    *)
(* holds the lock on HeartbeatManager.nodes: the thread of start() while it *)
(* looks for silent nodes, or handle_heartbeat.  Both call SelfHealManager  *)
(* with that lock held.  "loop" is the healing loop of start(), "caller"    *)
(* whoever reports a failed path, refreshes routes or brings a              *)
(* PartitionSync.  A step is a critical section of states or of routes.     *)
(***************************************************************************)
EXTENDS Multihop

CONSTANTS
    Monitored,    \* the peers given to HeartbeatManager::add_node
    PathTargets,  \* the targets whose paths callers use
    DhtTables,    \* what the table of the DHT may hold
    offline_threshold,
    max_failed_attempts,
    NoState,      \* a peer that SelfHealManager does not track
    MaxEvents     \* bound: peers dying or returning, calls, restarts

ASSUME MonitoredAssumption == Monitored \subseteq Peers /\ PathTargets \subseteq Peers
ASSUME TableAssumption == DhtTables # {} /\ DhtTables \subseteq SUBSET Peers
ASSUME LimitAssumption == offline_threshold \in Nat \ {0} /\ max_failed_attempts \in Nat
ASSUME BoundAssumption == MaxEvents \in Nat

\* SelfHealNodeState; tried says that last_recovery_attempt is not zero.
HealState == [offline : BOOLEAN, failed : 0..max_failed_attempts, tried : BOOLEAN]
ASSUME StateAssumption == NoState \notin HealState

NewState == [offline |-> FALSE, failed |-> 0, tried |-> FALSE]

\* NodeHeartbeatState.  age counts the checks since the last heartbeat, up to
\* two: by the next it is older than two intervals for certain.
NewBeat == [online |-> TRUE, missed |-> 0, age |-> 0]

\* HeartbeatManager::new, and add_node for every monitored peer.
NewBeats == [p \in Monitored |-> NewBeat]

Threads == {"heartbeat", "loop", "caller"}

\* Where a thread is: the node and the target it deals with, the nodes and the
\* targets it has yet to deal with, and where it goes on after on_node_recovered.
Idle == [pc |-> "idle", node |-> NoState, target |-> NoState, nodes |-> {}, targets |-> {},
         ret |-> "idle"]

VARIABLES
    alive,     \* the peers that run
    net,       \* the senders of the heartbeats on their way to this node
    dht,       \* the nodes in the table of the DHT
    beats,     \* HeartbeatManager.nodes
    states,    \* SelfHealManager.states
    heal_pongs,
    routes,    \* MultihopManager.routes
    thread,
    file,      \* the states in the file at persist_path
    presumed,  \* history: peers of which states was told by others than the heartbeats
    events

envVars == <<alive, net, dht, events>>
vars == <<envVars, beats, states, heal_pongs, routes, thread, file, presumed>>

Init ==
    /\ alive = Monitored
    /\ net = {}
    /\ dht \in DhtTables
    /\ beats = NewBeats
    /\ states = [p \in Peers |-> NoState]
    /\ heal_pongs = {}
    /\ routes = {}
    /\ thread = [w \in Threads |-> Idle]
    /\ file = states
    /\ presumed = {}
    /\ events = 0

Tracked(p) == states[p] # NoState
Offline(p) == Tracked(p) /\ states[p].offline
StateOf(p) == IF Tracked(p) THEN states[p] ELSE NewState

Event == events < MaxEvents /\ events' = events + 1

At(w, where) == thread[w].pc = where
NodeOf(w) == thread[w].node
GoTo(w, where) == thread' = [thread EXCEPT ![w].pc = where]

\* states after mark_offline, mark_online and record_failed_attempt.
MarkOffline(p) == [states EXCEPT ![p] = [StateOf(p) EXCEPT !.offline = TRUE, !.failed = 0]]
MarkOnline(p) == [states EXCEPT ![p] = [StateOf(p) EXCEPT !.offline = FALSE, !.failed = 0]]
AddNode(p) == [states EXCEPT ![p] = StateOf(p)]

-----------------------------------------------------------------------------
(* The heartbeat thread and handle_heartbeat.                               *)

\* last_heartbeat.elapsed() > 2 * interval: never at the first check after a
\* heartbeat, perhaps at the second, for certain at the third.

\* Mutant of Late: a heartbeat is late once.
LateOnce(p) == beats[p].online /\ beats[p].age = 1

Late(p) == beats[p].online /\ beats[p].age >= 2
MaybeLate(p) == beats[p].online /\ beats[p].age = 1

\* One turn of the loop of HeartbeatManager::start: late nodes miss one more.
CheckBeats ==
    /\ At("heartbeat", "idle")
    /\ \E late \in SUBSET Monitored :
        /\ {p \in Monitored : Late(p)} \subseteq late
        /\ late \subseteq {p \in Monitored : Late(p) \/ MaybeLate(p)}
        /\ LET missed(p) == beats[p].missed + (IF p \in late THEN 1 ELSE 0)
               out == {p \in late : missed(p) >= offline_threshold}
           IN  /\ beats' = [p \in Monitored |->
                              [online |-> beats[p].online /\ p \notin out,
                               missed |-> missed(p),
                               age |-> Min({beats[p].age + 1, 2})]]
               /\ thread' = [thread EXCEPT !["heartbeat"] =
                               IF out = {} THEN Idle ELSE [Idle EXCEPT !.pc = "offline", !.nodes = out]]
    /\ UNCHANGED <<envVars, states, heal_pongs, routes, file, presumed>>

\* A heartbeat clears the count of misses.
BeatOf(p) == [online |-> TRUE, missed |-> 0, age |-> 0]

\* handle_heartbeat, whatever the sequence number.
HandleHeartbeat(p) ==
    /\ p \in net
    /\ net' = net \ {p}
    /\ At("heartbeat", "idle")
    /\ beats' = [beats EXCEPT ![p] = BeatOf(p)]
    /\ thread' = [thread EXCEPT !["heartbeat"] =
                    [Idle EXCEPT !.pc = IF beats[p].online THEN "received" ELSE "online", !.node = p]]
    /\ UNCHANGED <<alive, dht, events, states, heal_pongs, routes, file, presumed>>

\* SelfHealManager::on_node_online up to the call of on_node_recovered.
OnNodeOnline ==
    LET p == NodeOf("heartbeat")
    IN  /\ At("heartbeat", "online")
        /\ states' = AddNode(p)
        /\ thread' = [thread EXCEPT !["heartbeat"].pc = IF Offline(p) THEN "recover" ELSE "received",
                                    !["heartbeat"].ret = "received"]
        /\ UNCHANGED <<envVars, beats, heal_pongs, routes, file, presumed>>

\* A node that states calls offline is back.
BackFromOffline(p) == Offline(p)

\* on_heartbeat_received, with add_node before it.
OnHeartbeatReceived ==
    LET p == NodeOf("heartbeat")
    IN  /\ At("heartbeat", "received")
        /\ states' = IF BackFromOffline(p) THEN MarkOnline(p) ELSE AddNode(p)
        /\ thread' = [thread EXCEPT !["heartbeat"] =
                        IF BackFromOffline(p) THEN [@ EXCEPT !.pc = "recover", !.ret = "idle"] ELSE Idle]
        /\ presumed' = presumed \ {p}
        /\ UNCHANGED <<envVars, beats, heal_pongs, routes, file>>

-----------------------------------------------------------------------------
(* on_node_offline, called by the heartbeat thread.                         *)

\* Mutant of StatesOffline: a node that is not tracked yet is passed over.
StatesOfflineTracked(p) == IF Tracked(p) THEN MarkOffline(p) ELSE states

StatesOffline(p) == MarkOffline(p)

\* Step 1.
OnNodeOffline ==
    /\ At("heartbeat", "offline")
    /\ \E p \in thread["heartbeat"].nodes :
        /\ states' = StatesOffline(p)
        /\ routes' = {[e EXCEPT !.gone = @ \cup {p}] : e \in routes}
        /\ presumed' = presumed \ {p}
        /\ thread' = [thread EXCEPT !["heartbeat"].pc = "remove", !["heartbeat"].node = p,
                                    !["heartbeat"].nodes = @ \ {p}]
    /\ UNCHANGED <<envVars, beats, heal_pongs, file>>

\* Step 2.
RemoveOffline ==
    /\ At("heartbeat", "remove")
    /\ routes' = RemoveRoute(routes, NodeOf("heartbeat"))
    /\ GoTo("heartbeat", "affected")
    /\ UNCHANGED <<envVars, beats, states, heal_pongs, file, presumed>>

\* Mutant of AfterTarget: the last target is tried again for ever.
AfterTargetAgain(w) ==
    LET t == thread[w]
    IN  CASE t.targets # {} -> [t EXCEPT !.pc = IF w = "caller" THEN "refresh" ELSE "invalid"]
          [] t.targets = {} /\ t.nodes # {} -> [t EXCEPT !.pc = "offline"]
          [] OTHER -> [t EXCEPT !.pc = "switch"]

\* Where w goes on when it has dealt with a target.
AfterTarget(w) ==
    LET t == thread[w]
    IN  CASE t.targets # {} -> [t EXCEPT !.pc = IF w = "caller" THEN "refresh" ELSE "invalid"]
          [] t.targets = {} /\ t.nodes # {} -> [t EXCEPT !.pc = "offline"]
          [] OTHER -> Idle

\* Step 3: the paths that lead through the node.
Affected ==
    LET via == TargetsVia(routes, NodeOf("heartbeat"))
        t == thread["heartbeat"]
    IN  /\ At("heartbeat", "affected")
        /\ thread' = [thread EXCEPT !["heartbeat"] =
                        IF via # {} THEN [t EXCEPT !.pc = "invalid", !.targets = via]
                        ELSE IF t.nodes # {} THEN [t EXCEPT !.pc = "offline"] ELSE Idle]
        /\ UNCHANGED <<envVars, beats, states, heal_pongs, routes, file, presumed>>

\* mark_invalid, for one of the targets.
Invalidate(w) ==
    /\ At(w, "invalid")
    /\ \E t \in thread[w].targets :
        /\ routes' = MarkInvalid(routes, t)
        /\ thread' = [thread EXCEPT ![w].pc = "switch", ![w].target = t, ![w].targets = @ \ {t}]
    /\ UNCHANGED <<envVars, beats, states, heal_pongs, file, presumed>>

\* find_alternative; without one, the DHT is asked.
Switch(w) ==
    LET t == thread[w].target
    IN  /\ At(w, "switch")
        /\ IF Alternatives(routes, t) # <<>>
           THEN /\ routes' = FindAlternative(routes, t)
                /\ thread' = [thread EXCEPT ![w] = AfterTarget(w)]
           ELSE GoTo(w, "discover") /\ UNCHANGED routes
        /\ UNCHANGED <<envVars, beats, states, heal_pongs, file, presumed>>

Rediscover(w) ==
    /\ At(w, "discover")
    /\ routes' = IF CanDiscover(dht) THEN DiscoverRoute(routes, dht, thread[w].target) ELSE routes
    /\ thread' = [thread EXCEPT ![w] = AfterTarget(w)]
    /\ UNCHANGED <<envVars, beats, states, heal_pongs, file, presumed>>

-----------------------------------------------------------------------------
(* on_node_recovered, also as the healing loop spells it out.               *)

Recover(w) ==
    /\ At(w, "recover")
    /\ states' = MarkOnline(NodeOf(w))
    /\ presumed' = IF w = "heartbeat" THEN presumed ELSE presumed \cup {NodeOf(w)}
    /\ GoTo(w, "reroute")
    /\ UNCHANGED <<envVars, beats, heal_pongs, routes, file>>

Reroute(w) ==
    LET p == NodeOf(w)
        ret == thread[w].ret
    IN  /\ At(w, "reroute")
        /\ routes' = IF ~ HasRoute(routes, p) /\ CanDiscover(dht)
                     THEN DiscoverRoute(routes, dht, p) ELSE routes
        /\ thread' = [thread EXCEPT ![w] =
                        CASE ret = "received" -> [Idle EXCEPT !.pc = ret, !.node = p]
                          [] ret = "pongs" -> [Idle EXCEPT !.pc = ret, !.nodes = thread[w].nodes]
                          [] ret = "idle" -> Idle]
        /\ UNCHANGED <<envVars, beats, states, heal_pongs, file, presumed>>

-----------------------------------------------------------------------------
(* The healing loop.                                                        *)

\* A turn begins: the pongs are taken from their buffer.
TakePongs ==
    /\ At("loop", "idle")
    /\ heal_pongs' = {}
    /\ thread' = [thread EXCEPT !["loop"] = [Idle EXCEPT !.pc = "pongs", !.nodes = heal_pongs]]
    /\ UNCHANGED <<envVars, beats, states, routes, file, presumed>>

\* The state of a sender is read here and changed in a later critical section.
ReadPong ==
    /\ At("loop", "pongs")
    /\ \E p \in thread["loop"].nodes :
        thread' = [thread EXCEPT !["loop"] =
                     IF Offline(p)
                     THEN [Idle EXCEPT !.pc = "recover", !.node = p, !.nodes = thread["loop"].nodes \ {p}, !.ret = "pongs"]
                     ELSE [Idle EXCEPT !.pc = "pongs", !.nodes = thread["loop"].nodes \ {p}]]
    /\ UNCHANGED <<envVars, beats, states, heal_pongs, routes, file, presumed>>

PongsDone == At("loop", "pongs") /\ thread["loop"].nodes = {}

Hopeless(p) == states[p].failed >= max_failed_attempts

\* The offline nodes to be probed, if the recovery interval has passed.  One whose
\* last attempt was less than an interval ago, in whole seconds, is left out.
ChooseOffline ==
    LET eligible == {p \in Peers : Offline(p) /\ ~ Hopeless(p)}
    IN  /\ PongsDone
        /\ \E chosen \in SUBSET eligible :
              /\ \A p \in eligible \ chosen : states[p].tried
              /\ thread' = [thread EXCEPT !["loop"] = [Idle EXCEPT !.pc = "attempt", !.nodes = chosen]]
        /\ UNCHANGED <<envVars, beats, states, heal_pongs, routes, file, presumed>>

SkipProbes ==
    /\ PongsDone
    /\ GoTo("loop", "attempt")
    /\ UNCHANGED <<envVars, beats, states, heal_pongs, routes, file, presumed>>

RecordAttempt ==
    /\ At("loop", "attempt")
    /\ \E p \in thread["loop"].nodes :
        /\ states' = IF Tracked(p)
                     THEN [states EXCEPT ![p].failed = @ + 1, ![p].tried = TRUE]
                     ELSE states
        /\ thread' = [thread EXCEPT !["loop"].pc = "find", !["loop"].node = p,
                                    !["loop"].nodes = @ \ {p}]
    /\ UNCHANGED <<envVars, beats, heal_pongs, routes, file, presumed>>

AttemptsDone == At("loop", "attempt") /\ thread["loop"].nodes = {}

\* On to the next node.
NextAttempt == thread' = [thread EXCEPT !["loop"].pc = "attempt", !["loop"].node = NoState]

ProbeRoute ==
    /\ At("loop", "find")
    /\ IF CanDiscover(dht)
       THEN routes' = DiscoverRoute(routes, dht, NodeOf("loop")) /\ GoTo("loop", "found")
       ELSE UNCHANGED routes /\ NextAttempt
    /\ UNCHANGED <<envVars, beats, states, heal_pongs, file, presumed>>

\* A route was found, which is taken for a sign of life.
PresumeOnline ==
    LET p == NodeOf("loop")
    IN  /\ At("loop", "found")
        /\ states' = IF Tracked(p) THEN MarkOnline(p) ELSE states
        /\ presumed' = presumed \cup {p}
        /\ NextAttempt
        /\ UNCHANGED <<envVars, beats, heal_pongs, routes, file>>

\* The turn ends; the states are written if that is due.
Persist ==
    /\ AttemptsDone
    /\ file' \in {file, states}
    /\ thread' = [thread EXCEPT !["loop"] = Idle]
    /\ UNCHANGED <<envVars, beats, states, heal_pongs, routes, presumed>>

-----------------------------------------------------------------------------
(* Calls from outside.                                                      *)

HandlePathFailure(t) ==
    /\ Event
    /\ At("caller", "idle")
    /\ thread' = [thread EXCEPT !["caller"] = [Idle EXCEPT !.pc = "invalid", !.targets = {t}]]
    /\ UNCHANGED <<alive, net, dht, beats, states, heal_pongs, routes, file, presumed>>

RefreshStaleRoutes ==
    /\ Event
    /\ At("caller", "idle")
    /\ Stale(routes) # {}
    /\ thread' = [thread EXCEPT !["caller"] = [Idle EXCEPT !.pc = "refresh", !.targets = Stale(routes)]]
    /\ UNCHANGED <<alive, net, dht, beats, states, heal_pongs, routes, file, presumed>>

RefreshOne ==
    /\ At("caller", "refresh")
    /\ \E t \in thread["caller"].targets :
        /\ routes' = IF CanDiscover(dht) THEN DiscoverRoute(routes, dht, t) ELSE Extend(routes, t)
        /\ thread' = [thread EXCEPT !["caller"] =
                        IF @.targets = {t} THEN Idle ELSE [@ EXCEPT !.targets = @ \ {t}]]
    /\ UNCHANGED <<envVars, beats, states, heal_pongs, file, presumed>>

\* add_direct_route, cleanup_expired, or the passing of a route's 300 seconds.
ChangeRoutes ==
    /\ Event
    /\ \/ \E t \in PathTargets : routes' \in {AddDirectRoute(routes, t), SetValid(routes, t, FALSE)}
       \/ routes' = CleanupExpired(routes)
    /\ UNCHANGED <<alive, net, dht, beats, states, heal_pongs, thread, file, presumed>>

\* process_heal_message: HealPong.  It may have been sent long ago: a peer that is
\* dead by now was alive once.
HandleHealPong(p) ==
    /\ Event
    /\ heal_pongs' = heal_pongs \cup {p}
    /\ UNCHANGED <<alive, net, dht, beats, states, routes, thread, file, presumed>>

\* process_heal_message: PartitionSync, which may be as old.
HandlePartitionSync(p) ==
    /\ Event
    /\ At("caller", "idle")
    /\ states' = AddNode(p)
    /\ thread' = IF Offline(p)
                 THEN [thread EXCEPT !["caller"] = [Idle EXCEPT !.pc = "recover", !.node = p]]
                 ELSE thread
    /\ UNCHANGED <<alive, net, dht, beats, heal_pongs, routes, file, presumed>>

-----------------------------------------------------------------------------
(* The peers, the DHT and restarts.                                         *)

peerVars == <<beats, states, heal_pongs, routes, thread, file, presumed>>

\* A lost heartbeat is one that is not sent.
SendBeat(p) ==
    /\ p \in alive
    /\ net' = net \cup {p}
    /\ UNCHANGED <<alive, dht, events, peerVars>>

Flip(p) ==
    /\ Event
    /\ alive' = IF p \in alive THEN alive \ {p} ELSE alive \cup {p}
    /\ UNCHANGED <<net, dht, peerVars>>

DhtChanges ==
    /\ Event
    /\ dht' \in DhtTables \ {dht}
    /\ UNCHANGED <<alive, net, peerVars>>

\* try_restore_state; the file is unreadable if writing it was cut short.
Restart ==
    /\ Event
    /\ states' \in {file} \cup (IF AttemptsDone THEN {[p \in Peers |-> NoState]} ELSE {})
    /\ beats' = NewBeats
    /\ heal_pongs' = {}
    /\ routes' = {}
    /\ thread' = [w \in Threads |-> Idle]
    /\ presumed' = Peers
    /\ UNCHANGED <<alive, net, dht, file>>

-----------------------------------------------------------------------------
HeartbeatSteps ==
    OnNodeOnline \/ OnHeartbeatReceived \/ OnNodeOffline \/ RemoveOffline \/ Affected
LoopSteps ==
    TakePongs \/ ReadPong \/ ChooseOffline \/ SkipProbes \/ RecordAttempt \/ ProbeRoute
    \/ PresumeOnline \/ Persist
CommonSteps(w) == Invalidate(w) \/ Switch(w) \/ Rediscover(w) \/ Recover(w) \/ Reroute(w)

Calls == RefreshStaleRoutes \/ ChangeRoutes \/ \E t \in PathTargets : HandlePathFailure(t)
Messages(p) == HandleHealPong(p) \/ HandlePartitionSync(p) \/ SendBeat(p) \/ Flip(p)

Next ==
    \/ CheckBeats \/ HeartbeatSteps \/ LoopSteps \/ RefreshOne
    \/ \E w \in Threads : CommonSteps(w)
    \/ \E p \in Monitored : HandleHeartbeat(p) \/ Messages(p)
    \/ Calls \/ DhtChanges \/ Restart

Spec == Init /\ [][Next]_vars

\* Every thread goes on, and whoever waits for the lock on nodes gets it in the
\* end: its holders let it go after a bounded number of steps, and the heartbeat
\* thread sleeps between its turns.
FairSpec ==
    /\ Spec
    /\ WF_vars(HeartbeatSteps \/ CommonSteps("heartbeat"))
    /\ WF_vars(LoopSteps \/ CommonSteps("loop"))
    /\ SF_vars(CheckBeats)
    /\ \A p \in Monitored : WF_vars(SendBeat(p)) /\ SF_vars(HandleHeartbeat(p))

-----------------------------------------------------------------------------
(* Properties.                                                              *)

Places == {"idle", "online", "received", "offline", "remove", "affected", "invalid", "switch",
           "discover", "recover", "reroute", "pongs", "attempt", "find", "found", "refresh"}

\* The table of routes stays within its limit, with one entry for a target, and
\* no node is probed more than max_failed_attempts times in a row.
TypeOK ==
    /\ alive \subseteq Monitored
    /\ net \subseteq Monitored
    /\ dht \in DhtTables
    /\ beats \in [Monitored -> [online : BOOLEAN, missed : 0..offline_threshold, age : 0..2]]
    /\ states \in [Peers -> HealState \cup {NoState}]
    /\ file \in [Peers -> HealState \cup {NoState}]
    /\ heal_pongs \subseteq Peers /\ presumed \subseteq Peers
    /\ routes \subseteq Entry
    /\ Cardinality(routes) <= MAX_ROUTE_ENTRIES
    /\ Cardinality(Targets(routes)) = Cardinality(routes)
    /\ thread \in [Threads -> [pc : Places, node : Peers \cup {NoState}, target : Peers \cup {NoState},
                               nodes : SUBSET Peers, targets : SUBSET Peers,
                               ret : {"idle", "received", "pongs"}]]

\* The two managers agree on who is offline whenever no callback is under way:
\* both callbacks run with the lock on nodes held, so they come in the order of
\* the changes they report.  Peers whose state was set by a pong, a
\* PartitionSync, a rediscovered route or a file are excepted until their next
\* change.
ViewsAgree ==
    At("heartbeat", "idle") =>
        \A p \in Monitored \ presumed : Offline(p) <=> ~ beats[p].online

\* When on_node_offline is through with a node, no route that led through it
\* before is still in use, whatever other threads did to the table meanwhile;
\* except that refresh_stale_routes makes an entry valid again when the DHT has no
\* other to offer.
DeadPathsGone ==
    \A e \in routes :
        e.valid /\ ~ e.extended /\ e.next_hop \in e.gone =>
            ~ At("heartbeat", "idle") /\ NodeOf("heartbeat") = e.next_hop

\* A peer that stays dead is declared offline for good, and stays so.
DeadNoticed ==
    \A p \in Monitored : <>[](p \notin alive) => <>[](~ beats[p].online)

\* A peer that stays alive, and whose heartbeats get through, is online again in
\* the view of both managers, whatever the healing loop or a restart had made of
\* it.
AliveNoticed ==
    \A p \in Monitored : <>[](p \in alive) => []<>(beats[p].online /\ ~ Offline(p))
=============================================================================
