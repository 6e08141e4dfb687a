----------------------------- MODULE DaemonConn -----------------------------
(***************************************************************************)
(* The daemon's connections and quotas (crates/daemon/src/main.rs): the     *)
(* main loop with handle_packet_inner over UDP, handle_packet_tcp in the    *)
(* tasks of TCP clients, the rate limiter and the reclaiming of idle        *)
(* connections.                                                             *)
(*                                                                         *)
(* UDP and TCP have a connection table and a rate limiter each and share    *)
(* nothing of what is modelled here, so a behaviour is about one of them.   *)
(* Time is counted in heartbeat intervals (5 s).  A connection is entered   *)
(* as Established, so its state is not modelled.                            *)
(***************************************************************************)
EXTENDS Integers, Sequences, FiniteSets

CONSTANTS
    Peers,           \* socket addresses of clients
    Ips,
    IpOf,            \* the IP of a socket address
    Conns,           \* connection ids
    NoEntry,         \* no entry in a map
    Transports,      \* "udp", and "tcp" with --tcp
    Kinds,           \* the packets that clients send
    SYN_RATE_LIMIT,
    CMD_RATE_LIMIT,
    RATE_WINDOW,     \* RATE_WINDOW_SECS, in intervals
    MAX_CONNECTIONS,
    TIMEOUT,         \* in intervals
    MaxQueue,        \* bound: datagrams waiting in the socket
    MaxTime          \* bound: intervals

ASSUME IpAssumption == IpOf \in [Peers -> Ips]
ASSUME TransportAssumption == Transports \subseteq {"udp", "tcp"}
ASSUME KindAssumption == Kinds \subseteq {"syn", "synack", "cmd", "native", "heartbeat", "rst"}
ASSUME LimitAssumption ==
    /\ SYN_RATE_LIMIT \in Nat \ {0} /\ CMD_RATE_LIMIT \in Nat \ {0}
    /\ RATE_WINDOW \in Nat \ {0} /\ MAX_CONNECTIONS \in Nat /\ TIMEOUT \in Nat \ {0}
ASSUME BoundAssumption == MaxQueue \in Nat /\ MaxTime \in Nat
ASSUME NoEntryAssumption == NoEntry \notin [peer : Peers, last : Nat] \cup [start : Nat, count : Nat]

Time == 0..MaxTime
Quotas == {"syn", "cmd"}
Limit(q) == IF q = "syn" THEN SYN_RATE_LIMIT ELSE CMD_RATE_LIMIT
Packet == [kind : Kinds, peer : Peers, conn : Conns]

VARIABLES
    transport,   \* the transport whose tables these are
    now,
    last_hb,     \* when the main loop last sent heartbeats and cleaned up
    busy,        \* TRUE: the main loop waits for a native command
    inbox,       \* datagrams waiting in the UDP socket
    connections, \* conn_id -> [peer, last], last is last_activity
    counts,      \* per quota and IP: [start, count]
    admitted     \* history, per quota and IP: how many had passed by the end of each time

vars == <<transport, now, last_hb, busy, inbox, connections, counts, admitted>>

Init ==
    /\ transport \in Transports
    /\ now = 0 /\ last_hb = 0 /\ busy = FALSE /\ inbox = <<>>
    /\ connections = [c \in Conns |-> NoEntry]
    /\ counts = [q \in Quotas |-> [ip \in Ips |-> NoEntry]]
    /\ admitted = [q \in Quotas |-> [ip \in Ips |-> [t \in Time |-> 0]]]

Table == {c \in Conns : connections[c] # NoEntry}

-----------------------------------------------------------------------------
(* check_syn and check_cmd.                                                 *)

\* Mutant of Counted: every command begins a window of its own.
CountedAfresh(q, entry) == [start |-> now, count |-> 1]

\* The entry after one more attempt: the window starts again once it is over.
\* (Counting stops above the limit, where it makes no difference any more.)
Counted(q, entry) ==
    IF entry = NoEntry \/ now - entry.start > RATE_WINDOW
    THEN [start |-> now, count |-> 1]
    ELSE [entry EXCEPT !.count = IF @ > Limit(q) THEN @ ELSE @ + 1]

Passes(q, ip) == Counted(q, counts[q][ip]).count <= Limit(q)

\* The quota is used up whether or not the packet passes.
CountUp(q, ip) == [counts EXCEPT ![q][ip] = Counted(q, @)]

Admit(q, ip) ==
    admitted' = IF Passes(q, ip) THEN [admitted EXCEPT ![q][ip] = [t \in Time |-> IF t >= now THEN @[t] + 1 ELSE @[t]]]
                ELSE admitted

-----------------------------------------------------------------------------
(* The tables after a packet p.                                             *)

Opened(p) == [connections EXCEPT ![p.conn] = [peer |-> p.peer, last |-> now]]
Touched(p) == [connections EXCEPT ![p.conn].last = now]
Removed(p) == [connections EXCEPT ![p.conn] = NoEntry]

Exists(p) == connections[p.conn] # NoEntry
FromOwner(p) == Exists(p) /\ connections[p.conn].peer = p.peer

\* The limit on connections holds for UDP only.
HasRoom == transport = "tcp" \/ Cardinality(Table) < MAX_CONNECTIONS

\* A SYN for an id that is taken changes nothing: it is answered (a refresh) if
\* it comes from the owner, ignored otherwise.
AfterSyn(p) ==
    IF Passes("syn", IpOf[p.peer]) /\ HasRoom /\ ~ Exists(p)
    THEN Opened(p) ELSE connections

\* Over UDP data counts only if it comes from the connection's peer.
Accepted(p) == IF transport = "tcp" THEN Exists(p) ELSE FromOwner(p)

IsData(p) == p.kind \in {"cmd", "native"}

AfterPacket(p) ==
    CASE p.kind = "syn" -> AfterSyn(p)
      [] p.kind = "synack" /\ transport = "udp" /\ Exists(p) -> Touched(p)
      [] IsData(p) /\ Accepted(p) -> Touched(p)
      [] p.kind = "heartbeat" /\ Accepted(p) -> Touched(p)
      [] p.kind = "rst" -> Removed(p)
      [] OTHER -> connections

\* A SYN and accepted data are counted against the quota of the sender's IP.
Counts(p) ==
    CASE p.kind = "syn" -> CountUp("syn", IpOf[p.peer])
      [] IsData(p) /\ Accepted(p) -> CountUp("cmd", IpOf[p.peer])
      [] OTHER -> counts

Admissions(p) ==
    CASE p.kind = "syn" -> Admit("syn", IpOf[p.peer])
      [] IsData(p) /\ Accepted(p) -> Admit("cmd", IpOf[p.peer])
      [] OTHER -> UNCHANGED admitted

-----------------------------------------------------------------------------
(* The main loop: a packet or 100 ms without one, then the heartbeat tick   *)
(* if an interval has passed.                                               *)

Due == now - last_hb >= 1

Alive(entry) == entry # NoEntry /\ now - entry.last < TIMEOUT

Retained(table) == [c \in Conns |-> IF Alive(table[c]) THEN table[c] ELSE NoEntry]

Collected(quota) ==
    [ip \in Ips |-> IF quota[ip] # NoEntry /\ now - quota[ip].start < 2 * RATE_WINDOW
                    THEN quota[ip] ELSE NoEntry]

\* conns and cnts are the tables as the packet left them; only the UDP tables
\* are collected.
HeartbeatTick(conns, cnts) ==
    /\ last_hb' = IF Due THEN now ELSE last_hb
    /\ connections' = IF Due THEN Retained(conns) ELSE conns
    /\ counts' = IF Due THEN [q \in Quotas |-> Collected(cnts[q])] ELSE cnts

Runs(p) == p.kind = "native" /\ FromOwner(p) /\ Passes("cmd", IpOf[p.peer])

\* A native command is awaited before the loop goes on.
LoopReceive ==
    /\ ~ busy
    /\ inbox # <<>>
    /\ LET p == Head(inbox)
       IN  /\ Admissions(p)
           /\ busy' = Runs(p)
           /\ IF Runs(p)
              THEN /\ connections' = AfterPacket(p)
                   /\ counts' = Counts(p)
                   /\ UNCHANGED last_hb
              ELSE HeartbeatTick(AfterPacket(p), Counts(p))
    /\ inbox' = Tail(inbox)
    /\ UNCHANGED <<transport, now>>

LoopReturn ==
    /\ busy
    /\ busy' = FALSE
    /\ HeartbeatTick(connections, counts)
    /\ UNCHANGED <<transport, now, inbox, admitted>>

LoopIdle ==
    /\ transport = "udp"
    /\ ~ busy
    /\ inbox = <<>>
    /\ Due
    /\ HeartbeatTick(connections, counts)
    /\ UNCHANGED <<transport, now, busy, inbox, admitted>>

-----------------------------------------------------------------------------
(* The clients, the TCP tasks and time.                                     *)

Arrive(p) ==
    /\ transport = "udp"
    /\ Len(inbox) < MaxQueue
    /\ inbox' = Append(inbox, p)
    /\ UNCHANGED <<transport, now, last_hb, busy, connections, counts, admitted>>

\* A frame on a TCP stream is handled under the locks of both tables.
HandlePacketTcp(p) ==
    /\ transport = "tcp"
    /\ connections' = AfterPacket(p)
    /\ counts' = Counts(p)
    /\ Admissions(p)
    /\ UNCHANGED <<transport, now, last_hb, busy, inbox>>

\* An interval is long for the loop, unless a native command holds it up.
Tick ==
    /\ now < MaxTime
    /\ transport = "tcp" \/ busy \/ (inbox = <<>> /\ ~ Due)
    /\ now' = now + 1
    /\ UNCHANGED <<transport, last_hb, busy, inbox, connections, counts, admitted>>

Next ==
    \/ LoopReceive \/ LoopReturn \/ LoopIdle \/ Tick
    \/ \E p \in Packet : Arrive(p) \/ HandlePacketTcp(p)

Spec == Init /\ [][Next]_vars

-----------------------------------------------------------------------------
(* Properties.                                                              *)

TypeOK ==
    /\ transport \in Transports
    /\ now \in Time /\ last_hb \in Time /\ busy \in BOOLEAN
    /\ inbox \in Seq(Packet) /\ Len(inbox) <= MaxQueue
    /\ connections \in [Conns -> [peer : Peers, last : Time] \cup {NoEntry}]
    /\ counts \in [Quotas -> [Ips -> [start : Time, count : Nat \ {0}] \cup {NoEntry}]]
    /\ admitted \in [Quotas -> [Ips -> [Time -> Nat]]]

\* How many packets of an IP had passed a quota before t, and passed it from t to u.
PassedBefore(q, ip, t) == IF t = 0 THEN 0 ELSE admitted[q][ip][t - 1]
Passed(q, ip, t, u) == admitted[q][ip][u] - PassedBefore(q, ip, t)

\* What the fixed windows do guarantee, however a client times its packets against
\* the windows, their restarts and gc(): no interval as long as a window lets more
\* than twice the limit of one limiter pass.  (UDP and TCP have a limiter each, so an
\* IP that uses both has this twice.)
BurstBounded ==
    \A q \in Quotas, ip \in Ips, t \in Time, u \in Time :
        t <= u /\ u <= t + RATE_WINDOW => Passed(q, ip, t, u) <= 2 * Limit(q)

\* What the comments on RateLimiter and docs/security.md say of it ("sliding window",
\* at most so many SYNs and commands of an IP in 60 seconds): no stretch of time
\* shorter than a window sees more than the limit pass.
QuotaHeld ==
    \A q \in Quotas, ip \in Ips, t \in Time, u \in Time :
        t <= u /\ u < t + RATE_WINDOW => Passed(q, ip, t, u) <= Limit(q)
=============================================================================
