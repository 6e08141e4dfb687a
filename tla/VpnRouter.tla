----------------------------- MODULE VpnRouter ------------------------------
(***************************************************************************)
(* The router of the mesh (vpn_router.rs): resolve the name, try the local  *)
(* network, then the relay; ping_node with its listener; the receive loops  *)
(* that hand relayed data to the listeners.  What the relay answers is      *)
(* either answer (Relay.tla is the relay).  A loop sleeps 100 ms between    *)
(* two looks at the running flag: after a stop and a start there are two.   *)
(***************************************************************************)
EXTENDS LanRouter, FiniteSets

CONSTANTS
    NoNode,
    Loops,                    \* threads of the receive loop
    MaxPings                  \* bound: pings

VARIABLES
    vpnRunning, hasLan,
    loop,                     \* what each receive loop has taken
    inbox,                    \* the received queue of the relay's server
    listeners,                \* the pings with a listener; listeners are never removed
    ponged,                   \* the pings whose channel holds a PONG
    vpnNodes,                 \* known_nodes
    pings,
    accepted                  \* history: the ids for which the relay took a message

vpnVars == <<vpnRunning, hasLan, loop, inbox, listeners, ponged, vpnNodes, pings, accepted>>

LoopOff == [alive |-> FALSE, batch |-> <<>>]

VpnInit ==
    /\ AddressInit /\ LanInit
    /\ vpnRunning = FALSE
    /\ hasLan \in BOOLEAN
    /\ loop = [l \in Loops |-> LoopOff]
    /\ inbox = <<>> /\ listeners = {} /\ ponged = {}
    /\ vpnNodes = [n \in Names |-> NoNode]
    /\ pings = 0
    /\ accepted = {}

\* update_node
UpdateNode(t, type) == vpnNodes' = [vpnNodes EXCEPT ![call[t].name] = [id |-> call[t].id, via |-> type]]
CallEnds(t) == call' = [call EXCEPT ![t] = CallFree]
AddressRest == UNCHANGED <<wrapped, static_map, cache, outer, addressNow, events, mapped>>

\* A call begins with the resolution of its name.
NewCall(op, name, ping) ==
    [pc |-> IF wrapped THEN "outer" ELSE "cache", op |-> op, name |-> name, id |-> NoId, ping |-> ping]

\* send and ping_node, of a target that parses.
BeginSend(t, target) ==
    /\ Event /\ call[t].pc = "free" /\ Parses(target)
    /\ call' = [call EXCEPT ![t] = NewCall("send", target[2], 0)]
    /\ UNCHANGED <<wrapped, static_map, cache, outer, addressNow, mapped, lanVars, vpnVars>>

BeginPing(t, target) ==
    /\ Event /\ call[t].pc = "free" /\ Parses(target) /\ pings < MaxPings
    /\ pings' = pings + 1
    /\ call' = [call EXCEPT ![t] = NewCall("ping", target[2], pings + 1)]
    /\ UNCHANGED <<wrapped, static_map, cache, outer, addressNow, mapped, lanVars, vpnRunning, hasLan, loop, inbox, listeners, ponged, vpnNodes, accepted>>

\* A ping pushes its listener once it has the id.
PushListener(t) ==
    /\ call[t].pc = "lan" /\ call[t].op = "ping" /\ call[t].ping \notin listeners
    /\ listeners' = listeners \cup {call[t].ping}
    /\ UNCHANGED <<addressVars, lanVars, vpnRunning, hasLan, loop, inbox, ponged, vpnNodes, pings, accepted>>

Listening(t) == call[t].op = "ping" => call[t].ping \in listeners

\* The lookups of LanRouter::send, or none at all.
TryLan(t) ==
    /\ Listening(t)
    /\ \/ hasLan /\ LanLookup(t)
       \/ LanLookAgain(t)
       \/ /\ ~hasLan /\ call[t].pc = "lan" /\ Goes(t, "relay")
          /\ AddressRest /\ UNCHANGED lanVars
    /\ UNCHANGED vpnVars

\* The datagram: Ok is the end of a send and of a ping alike, an error leads to the relay.
LanWrite(t) ==
    /\ call[t].pc = "lan_write"
    /\ \/ bound /\ CallEnds(t) /\ UpdateNode(t, "Lan")
       \/ Goes(t, "relay") /\ UNCHANGED vpnNodes
    /\ AddressRest
    /\ UNCHANGED <<lanVars, vpnRunning, hasLan, loop, inbox, listeners, ponged, pings, accepted>>

\* RelayManager::send: an error ends the call; Ok ends a send, a ping waits.
RelayAnswers(t) ==
    /\ call[t].pc = "relay"
    /\ \/ CallEnds(t) /\ UNCHANGED <<vpnNodes, accepted>>
       \/ /\ call[t].op = "send" /\ CallEnds(t)
          /\ accepted' = accepted \cup {call[t].id}
          /\ UpdateNode(t, "Vpn")
       \/ /\ call[t].op = "ping" /\ Goes(t, "pong")
          /\ accepted' = accepted \cup {call[t].id}
          /\ UNCHANGED vpnNodes
    /\ AddressRest
    /\ UNCHANGED <<lanVars, vpnRunning, hasLan, loop, inbox, listeners, ponged, pings>>

\* recv_timeout: the PONG, or five seconds without it.
PingEnds(t) ==
    /\ call[t].pc = "pong" /\ CallEnds(t)
    /\ \/ call[t].ping \in ponged /\ UpdateNode(t, "Vpn")
       \/ call[t].ping \notin ponged /\ UNCHANGED vpnNodes
    /\ AddressRest
    /\ UNCHANGED <<lanVars, vpnRunning, hasLan, loop, inbox, listeners, ponged, pings, accepted>>

\* start: the relay's server binds, so it must not run; then a receive loop.
VpnStart ==
    /\ Event /\ ~vpnRunning
    /\ vpnRunning' = TRUE
    /\ \E l \in Loops : ~loop[l].alive /\ loop' = [loop EXCEPT ![l] = [alive |-> TRUE, batch |-> <<>>]]
    /\ UNCHANGED <<wrapped, static_map, cache, outer, addressNow, call, mapped, lanVars, hasLan, inbox, listeners, ponged, vpnNodes, pings, accepted>>

VpnStop ==
    /\ Event /\ vpnRunning
    /\ vpnRunning' = FALSE
    /\ UNCHANGED <<wrapped, static_map, cache, outer, addressNow, call, mapped, lanVars, hasLan, loop, inbox, listeners, ponged, vpnNodes, pings, accepted>>

\* A message for the relay's server: data, a message of another type, or a peer's PONG
\* for a ping that the relay took (which may come twice, or late).
MessageArrives(ping, type) ==
    /\ Event /\ vpnRunning
    /\ ping = 0 \/ \E t \in Callers : call[t].ping = ping /\ call[t].pc = "pong"
    /\ inbox' = Append(inbox, [type |-> type, pong |-> ping])
    /\ UNCHANGED <<wrapped, static_map, cache, outer, addressNow, call, mapped, lanVars, vpnRunning, hasLan, loop, listeners, ponged, vpnNodes, pings, accepted>>

\* A turn of a loop: it ends, or takes everything that was received, ...
LoopTurn(l) ==
    /\ loop[l].alive /\ loop[l].batch = <<>>
    /\ vpnRunning => inbox # <<>>
    /\ loop' = [loop EXCEPT ![l] = IF vpnRunning THEN [alive |-> TRUE, batch |-> inbox] ELSE LoopOff]
    /\ inbox' = IF vpnRunning THEN <<>> ELSE inbox
    /\ UNCHANGED <<addressVars, lanVars, vpnRunning, hasLan, listeners, ponged, vpnNodes, pings, accepted>>

\* ... and hands each Data message to every listener: a PONG to the channel of its ping.
Dispatch(l) ==
    /\ loop[l].batch # <<>>
    /\ LET msg == Head(loop[l].batch)
       IN  ponged' = IF msg.type = "Data" /\ msg.pong \in listeners THEN ponged \cup {msg.pong} ELSE ponged
    /\ loop' = [loop EXCEPT ![l].batch = Tail(@)]
    /\ UNCHANGED <<addressVars, lanVars, vpnRunning, hasLan, inbox, listeners, vpnNodes, pings, accepted>>

VpnNext ==
    \/ AddressNext /\ UNCHANGED <<lanVars, vpnVars>>
    \/ LanStart /\ UNCHANGED vpnVars
    \/ LanStop /\ UNCHANGED vpnVars
    \/ \E f \in UdpFrames : ReceiveFrame(f) /\ UNCHANGED vpnVars
    \/ ReadTimeout /\ UNCHANGED vpnVars
    \/ TakeReceivedData /\ UNCHANGED vpnVars
    \/ UpdateNodeStatus /\ UNCHANGED vpnVars
    \/ \E t \in Callers, target \in Targets : BeginSend(t, target) \/ BeginPing(t, target)
    \/ \E t \in Callers : PushListener(t) \/ TryLan(t) \/ LanWrite(t) \/ RelayAnswers(t) \/ PingEnds(t)
    \/ VpnStart \/ VpnStop
    \/ \E ping \in 0..MaxPings, type \in {"Data", "Relay"} : MessageArrives(ping, type)
    \/ \E l \in Loops : LoopTurn(l) \/ Dispatch(l)

\* What the router knows of a node has a reason that is not only its own: the id is one
\* that the name was mapped to at some time, whatever was remapped, cached or cleared in
\* the meantime; a node reached on the local network announced itself there; and of one
\* reached through the mesh the relay took a message for this very id.
RouteJustified ==
    \A n \in Names : vpnNodes[n] # NoNode =>
        /\ vpnNodes[n].id \in mapped[n]
        /\ vpnNodes[n].via = "Lan" => hasLan /\ n \in announced
        /\ vpnNodes[n].via = "Vpn" => vpnNodes[n].id \in accepted
=============================================================================
