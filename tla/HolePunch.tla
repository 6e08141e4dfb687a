----------------------------- MODULE HolePunch ------------------------------
(***************************************************************************)
(* HolePunchManager (vpn/hole_punch.rs): calls of punch_hole by several     *)
(* threads.  Without a bound socket every call opens one of its own, which  *)
(* never blocks; with one, all calls read from it, one may take the answer  *)
(* meant for another, and if it blocks a call waits for a packet.           *)
(***************************************************************************)
EXTENDS Integers, Sequences, FiniteSets

CONSTANTS
    Punchers, PunchPeers, NoPunchPeer,
    PUNCH_RETRY_COUNT,
    MaxPackets                \* bound: packets that arrive

VARIABLES
    nat_type, socket,         \* socket: none, or the mode of the bound one
    active_punches, punched_peers,
    puncher,                  \* what each thread is doing
    punchInbox,               \* packets that wait, per socket
    heard,                    \* history: the peers that sent a punch packet
    packets

punchVars == <<nat_type, socket, active_punches, punched_peers, puncher, punchInbox, heard, packets>>

PuncherFree == [pc |-> "free", peer |-> NoPunchPeer, attempt |-> 0, result |-> "none"]
SharedSocket == "shared"

\* NatType; the kinds of cone are not told apart.
NatTypes == {"Unknown", "Cone", "Symmetric"}

SocketOf(t) == IF socket = "none" THEN t ELSE SharedSocket

PunchInit ==
    /\ nat_type = "Unknown" /\ socket = "none"
    /\ active_punches = {} /\ punched_peers = {}
    /\ puncher = [t \in Punchers |-> PuncherFree]
    /\ punchInbox = [s \in Punchers \cup {SharedSocket} |-> <<>>]
    /\ heard = {} /\ packets = 0

\* bind_socket, before the manager is shared.
BindSocket(mode) ==
    /\ socket = "none" /\ packets = 0 /\ \A t \in Punchers : puncher[t] = PuncherFree
    /\ socket' = mode
    /\ UNCHANGED <<nat_type, active_punches, punched_peers, puncher, punchInbox, heard, packets>>

\* detect_nat_type, which answers Cone, and set_nat_type.
SetNatType(type) ==
    /\ nat_type' = type
    /\ UNCHANGED <<socket, active_punches, punched_peers, puncher, punchInbox, heard, packets>>
DetectNatType == SetNatType("Cone")

IsSymmetricNat == nat_type = "Symmetric"

\* punch_hole, up to the socket.
PunchHole(t, p) ==
    /\ puncher[t].pc = "free"
    /\ puncher' = [puncher EXCEPT ![t] =
          IF IsSymmetricNat THEN [PuncherFree EXCEPT !.result = "degraded"]
          ELSE IF p \in punched_peers THEN [PuncherFree EXCEPT !.result = "success"]
          ELSE [pc |-> "open", peer |-> p, attempt |-> 0, result |-> "none"]]
    /\ UNCHANGED <<nat_type, socket, active_punches, punched_peers, punchInbox, heard, packets>>

\* The port may be taken: the call ends before the punch is recorded.
BindFails(t) ==
    /\ puncher[t].pc = "open" /\ socket = "none"
    /\ puncher' = [puncher EXCEPT ![t] = [PuncherFree EXCEPT !.result = "error"]]
    /\ UNCHANGED <<nat_type, socket, active_punches, punched_peers, punchInbox, heard, packets>>

RecordPunch(t) ==
    /\ puncher[t].pc = "open"
    /\ active_punches' = active_punches \cup {puncher[t].peer}
    /\ puncher' = [puncher EXCEPT ![t].pc = "recv"]
    /\ punchInbox' = IF socket = "none" THEN [punchInbox EXCEPT ![t] = <<>>] ELSE punchInbox
    /\ UNCHANGED <<nat_type, socket, punched_peers, heard, packets>>

\* build_punch_packet, as the peer builds it: who it is from.
PunchPacket(p) == [magic |-> "LLHP", from |-> p]

\* Mutant of IsValidPunchResponse: the sender is not compared.
IsValidPunchResponseAny(pkt, p) == pkt.magic = "LLHP"

\* is_valid_punch_response: the magic and the sender; the target is not looked at.
IsValidPunchResponse(pkt, p) == pkt.magic = "LLHP" /\ pkt.from = p

\* The answer to one attempt: a valid one ends the punch, anything else is dropped.
Receive(t) ==
    LET c == puncher[t]
        box == punchInbox[SocketOf(t)]
    IN  /\ c.pc = "recv" /\ box # <<>>
        /\ punchInbox' = [punchInbox EXCEPT ![SocketOf(t)] = Tail(@)]
        /\ IF IsValidPunchResponse(Head(box), c.peer)
           THEN /\ punched_peers' = punched_peers \cup {c.peer}
                /\ puncher' = [puncher EXCEPT ![t].pc = "punched"]
           ELSE /\ puncher' = [puncher EXCEPT ![t].attempt = @ + 1,
                                              ![t].pc = IF c.attempt + 1 < PUNCH_RETRY_COUNT THEN "recv" ELSE "give_up"]
                /\ UNCHANGED punched_peers
        /\ UNCHANGED <<nat_type, socket, active_punches, heard, packets>>

\* No packet is there: a socket that does not block is tried again.
WouldBlock(t) ==
    /\ puncher[t].pc = "recv" /\ punchInbox[SocketOf(t)] = <<>> /\ socket # "blocking"
    /\ puncher' = [puncher EXCEPT ![t].attempt = @ + 1,
                                  ![t].pc = IF puncher[t].attempt + 1 < PUNCH_RETRY_COUNT THEN "recv" ELSE "give_up"]
    /\ UNCHANGED <<nat_type, socket, active_punches, punched_peers, punchInbox, heard, packets>>

\* The punch is over, either way, and is not active any more.
EndPunch(t) ==
    /\ puncher[t].pc \in {"punched", "give_up"}
    /\ active_punches' = active_punches \ {puncher[t].peer}
    /\ puncher' = [puncher EXCEPT ![t] = [PuncherFree EXCEPT
                      !.result = IF puncher[t].pc = "punched" THEN "success" ELSE "degraded"]]
    /\ UNCHANGED <<nat_type, socket, punched_peers, punchInbox, heard, packets>>

\* A packet arrives at a socket: a peer's punch packet, or something else.
PacketArrives(s, pkt) ==
    /\ packets < MaxPackets
    /\ packets' = packets + 1
    /\ punchInbox' = [punchInbox EXCEPT ![s] = Append(@, pkt)]
    /\ heard' = IF pkt.magic = "LLHP" THEN heard \cup {pkt.from} ELSE heard
    /\ UNCHANGED <<nat_type, socket, active_punches, punched_peers, puncher>>

\* remove_peer and clear: the punched peers first, ...
RemovePunched(t, P) ==
    /\ puncher[t].pc = "free"
    /\ punched_peers' = punched_peers \ P
    /\ puncher' = [puncher EXCEPT ![t] = [PuncherFree EXCEPT !.pc = "remove", !.peer = P]]
    /\ UNCHANGED <<nat_type, socket, active_punches, punchInbox, heard, packets>>
RemovePeer(t, p) == RemovePunched(t, {p})
ClearPunches(t) == RemovePunched(t, PunchPeers)

\* ... then, under the other lock, the active punches.
RemoveActive(t) ==
    /\ puncher[t].pc = "remove"
    /\ active_punches' = active_punches \ puncher[t].peer
    /\ puncher' = [puncher EXCEPT ![t] = PuncherFree]
    /\ UNCHANGED <<nat_type, socket, punched_peers, punchInbox, heard, packets>>

\* send_keepalive: only to a peer that was punched, and only with a bound socket.
CanKeepalive(p) == p \in punched_peers /\ socket # "none"

PunchNext ==
    \/ \E mode \in {"blocking", "nonblocking"} : BindSocket(mode)
    \/ DetectNatType \/ \E type \in NatTypes : SetNatType(type)
    \/ \E t \in Punchers : \/ BindFails(t) \/ RecordPunch(t) \/ Receive(t) \/ WouldBlock(t) \/ EndPunch(t)
                          \/ ClearPunches(t) \/ RemoveActive(t)
    \/ \E t \in Punchers, p \in PunchPeers : PunchHole(t, p) \/ RemovePeer(t, p)
    \/ \E t \in Punchers, p \in PunchPeers, magic \in {"LLHP", "LLKA"} :
          PacketArrives(SocketOf(t), [PunchPacket(p) EXCEPT !.magic = magic])

\* A peer counts as punched only if a punch packet of that peer arrived, also when
\* calls for several peers read from one socket; and a punch is active only while a
\* call for it runs, so that none is left behind by an error or a failure.
PunchesTracked ==
    /\ punched_peers \subseteq heard
    /\ active_punches \subseteq {puncher[t].peer : t \in {u \in Punchers : puncher[u].pc \notin {"free", "remove"}}}
=============================================================================
