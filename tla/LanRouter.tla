----------------------------- MODULE LanRouter ------------------------------
(***************************************************************************)
(* The router of the local network (lan_router.rs): a UDP socket, a thread  *)
(* that reads frames, the nodes that announced themselves, and send.        *)
(* A datagram may be lost: the socket says Ok.  stop lets the thread end,   *)
(* after the frame it is reading; the socket stays bound, so a second start *)
(* of the same router fails and send still works.                           *)
(***************************************************************************)
EXTENDS Address

CONSTANTS
    LocalName,
    NODE_ONLINE               \* the 5 s without a heartbeat after which a node is offline

VARIABLES
    lanRunning, bound,        \* the running flag; socket is Some
    reading,                  \* the receiving thread is alive
    lanNodes,                 \* name -> last seen and status
    received_data,
    announced                 \* history: the names that announced themselves here

lanVars == <<lanRunning, bound, reading, lanNodes, received_data, announced>>

Unseen == [seen |-> 0, status |-> "Unknown"]
Discovered(n) == lanNodes[n] # Unseen

LanInit ==
    /\ lanRunning = FALSE /\ bound = FALSE /\ reading = FALSE
    /\ lanNodes = [n \in Names |-> Unseen]
    /\ received_data = <<>>
    /\ announced = {}

\* start: bind (which fails while an earlier socket of this router lives), the thread,
\* a broadcast that may fail too.
LanStart ==
    /\ Event /\ ~bound
    /\ bound' = TRUE /\ lanRunning' = TRUE /\ reading' = TRUE
    /\ UNCHANGED <<wrapped, static_map, cache, outer, addressNow, call, mapped, lanNodes, received_data, announced>>

LanStop ==
    /\ Event /\ lanRunning
    /\ lanRunning' = FALSE
    /\ UNCHANGED <<wrapped, static_map, cache, outer, addressNow, call, mapped, bound, reading, lanNodes, received_data, announced>>

\* parse_udp_frame: a type of the table and as many bytes as its lengths say; a datagram
\* of more than 4096 bytes was cut by the buffer.
ParseUdpFrame(f) == f.type \in {"Discover", "DiscoverReply", "Data", "Heartbeat"} /\ f.whole

UdpFrames == [type : {"Discover", "DiscoverReply", "Data", "Heartbeat", "other"},
              name : Names \cup {LocalName}, whole : BOOLEAN]

\* What a frame does to the nodes: an announcement of another node is recorded, a
\* heartbeat only refreshes one that is known.
NodesAfter(f) ==
    IF \/ ~ParseUdpFrame(f) \/ f.name = LocalName
       \/ f.type = "Data"
       \/ f.type = "Heartbeat" /\ ~Discovered(f.name)
    THEN lanNodes
    ELSE [lanNodes EXCEPT ![f.name] = [seen |-> addressNow, status |-> "Online"]]

\* One turn of the thread: a frame, or a second without one.
ReceiveFrame(f) ==
    /\ reading /\ Event
    /\ lanNodes' = NodesAfter(f)
    /\ received_data' = IF ParseUdpFrame(f) /\ f.type = "Data" THEN Append(received_data, f.name) ELSE received_data
    /\ announced' = IF f.whole /\ f.type \in {"Discover", "DiscoverReply"} THEN announced \cup {f.name} ELSE announced
    /\ reading' = lanRunning
    /\ UNCHANGED <<wrapped, static_map, cache, outer, addressNow, call, mapped, lanRunning, bound>>

ReadTimeout ==
    /\ reading /\ ~lanRunning
    /\ reading' = FALSE
    /\ UNCHANGED <<addressVars, lanRunning, bound, lanNodes, received_data, announced>>

TakeReceivedData ==
    /\ received_data # <<>>
    /\ received_data' = <<>>
    /\ UNCHANGED <<addressVars, lanRunning, bound, reading, lanNodes, announced>>

\* update_node_status: a silent node is marked, never removed.
UpdateNodeStatus ==
    /\ lanNodes' = [n \in Names |-> IF Discovered(n) /\ addressNow - lanNodes[n].seen >= NODE_ONLINE
                                    THEN [lanNodes[n] EXCEPT !.status = "Offline"] ELSE lanNodes[n]]
    /\ UNCHANGED <<addressVars, lanRunning, bound, reading, received_data, announced>>

\* send: of a node that is not known after the broadcast and half a second it says
\* Unreachable; the status of one that is known is not looked at.
LanLookup(t) ==
    /\ call[t].pc = "lan"
    /\ \/ Discovered(call[t].name) /\ Goes(t, "lan_write")
       \/ ~Discovered(call[t].name) /\ bound /\ Goes(t, "lan_wait")
       \/ ~Discovered(call[t].name) /\ Goes(t, "relay")          \* the broadcast failed
    /\ UNCHANGED <<wrapped, static_map, cache, outer, addressNow, events, mapped, lanVars>>

\* Mutant of LanLookAgain: whoever did not answer is taken to be there.
LanLookAgainAny(t) ==
    /\ call[t].pc = "lan_wait"
    /\ Goes(t, "lan_write")
    /\ UNCHANGED <<wrapped, static_map, cache, outer, addressNow, events, mapped, lanVars>>

LanLookAgain(t) ==
    /\ call[t].pc = "lan_wait"
    /\ Goes(t, IF Discovered(call[t].name) THEN "lan_write" ELSE "relay")
    /\ UNCHANGED <<wrapped, static_map, cache, outer, addressNow, events, mapped, lanVars>>

LanNext ==
    \/ LanStart \/ LanStop
    \/ \E f \in UdpFrames : ReceiveFrame(f)
    \/ ReadTimeout \/ TakeReceivedData \/ UpdateNodeStatus
    \/ \E t \in Callers : LanLookup(t) \/ LanLookAgain(t)
=============================================================================
