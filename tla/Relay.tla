------------------------------- MODULE Relay --------------------------------
(***************************************************************************)
(* The TCP layer of the mesh (vpn/relay.rs): a connection pool, the client  *)
(* that sends through it, the relay manager that chooses the address, and   *)
(* the server that reads messages.  The pool has one lock, held through     *)
(* connect; a socket stays open while the pool or a sender has a handle.    *)
(* A server that read nothing for 30 s closes its end: the client's handle  *)
(* still has a peer address, and the next write is accepted and lost.       *)
(***************************************************************************)
EXTENDS Integers, Sequences, FiniteSets

CONSTANTS
    Senders, Remotes,
    Direct(_), NextHop,       \* the address of a remote, and of the relay
    NoRemote, NoSender,
    max_size,                 \* of the pool, per address
    UsizeMax,                 \* usize::MAX
    MaxSocks, MaxRelaySends   \* bounds: sockets opened, calls of send

ASSUME RelayAssumption == IsFiniteSet(Senders) /\ MaxSocks \in Nat

VARIABLES
    pool,                     \* the connections of an address; a Vec has them in the order of sock
    active_count,
    socks,                    \* the sockets: state and what is in flight to the server
    sender,                   \* where each thread is in send
    registered, relay_table,  \* the remotes with an address, with a relay
    table_lock,               \* who holds relay_table
    received, serving, relaySends,
    spoiled                   \* history: a connection broke or was thrown away in use

poolVars == <<pool, active_count>>
managerVars == <<registered, relay_table, table_lock>>
serverVars == <<received, serving>>
relayVars == <<poolVars, socks, sender, managerVars, serverVars, relaySends, spoiled>>

RelayAddrs == {Direct(r) : r \in Remotes} \cup {NextHop}
SenderFree == [pc |-> "free", target |-> NoRemote, addr |-> NextHop, sock |-> 0, type |-> "Data"]

RelayInit ==
    /\ pool = [a \in RelayAddrs |-> {}]
    /\ active_count = 0
    /\ socks = <<>>
    /\ sender = [t \in Senders |-> SenderFree]
    /\ registered = {} /\ relay_table = {}
    /\ table_lock = NoSender
    /\ received = <<>>
    /\ serving = FALSE
    /\ relaySends = 0
    /\ spoiled = FALSE

\* peer_addr().is_ok(): true until a write has been reset.
HasPeer(s) == socks[s].state # "reset"

\* The connections of an address that get_connection and return_connection look for;
\* they take the first, which was opened before the others.
IdleSlots(a) == {c \in pool[a] : ~c.in_use /\ HasPeer(c.sock)}
UsedSlots(a) == {c \in pool[a] : c.in_use /\ HasPeer(c.sock)}
FirstSlot(S) == CHOOSE c \in S : \A d \in S : c.sock <= d.sock

\* conn.in_use = b
Marked(a, c, b) == [pool EXCEPT ![a] = (@ \ {c}) \cup {[sock |-> c.sock, in_use |-> b]}]

\* fetch_sub wraps around.
Decremented(n) == IF n = 0 THEN UsizeMax ELSE n - 1

RelayRegister(r) ==
    /\ registered' = registered \cup {r}
    /\ UNCHANGED <<pool, active_count, socks, sender, relay_table, table_lock, received, serving, relaySends, spoiled>>

SetRelay(r) ==
    /\ table_lock = NoSender
    /\ relay_table' = relay_table \cup {r}
    /\ UNCHANGED <<pool, active_count, socks, sender, registered, table_lock, received, serving, relaySends, spoiled>>

\* RelayManager::send: directly if the remote is known; else through the relay, with
\* relay_table locked until the send is over, and only the target in the message;
\* else Unreachable.
RelaySend(t, r) ==
    /\ sender[t].pc = "free" /\ relaySends < MaxRelaySends
    /\ relaySends' = relaySends + 1
    /\ \/ /\ r \in registered
          /\ sender' = [sender EXCEPT ![t] = [@ EXCEPT !.pc = "connect", !.target = r, !.addr = Direct(r)]]
          /\ UNCHANGED table_lock
       \/ /\ r \notin registered /\ table_lock = NoSender
          /\ r \in relay_table
          /\ table_lock' = t
          /\ sender' = [sender EXCEPT ![t] = [@ EXCEPT !.pc = "connect", !.target = r, !.addr = NextHop, !.type = "Relay"]]
       \/ /\ r \notin registered /\ table_lock = NoSender
          /\ r \notin relay_table
          /\ UNCHANGED <<sender, table_lock>>
    /\ UNCHANGED <<pool, active_count, socks, registered, relay_table, received, serving, spoiled>>

\* The thread's send is over.
Released(t) ==
    /\ sender' = [sender EXCEPT ![t] = SenderFree]
    /\ table_lock' = IF table_lock = t THEN NoSender ELSE table_lock

\* get_connection: the first idle connection, ...
ReuseConnection(t) ==
    LET a == sender[t].addr
        c == FirstSlot(IdleSlots(a))
    IN  /\ sender[t].pc = "connect" /\ IdleSlots(a) # {}
        /\ pool' = Marked(a, c, TRUE)
        /\ active_count' = active_count + 1
        /\ sender' = [sender EXCEPT ![t].pc = "write", ![t].sock = c.sock]
        /\ UNCHANGED <<socks, registered, relay_table, table_lock, received, serving, relaySends, spoiled>>

\* ... whose handle may not be cloned: the slot stays in use; ...
CloneFails(t) ==
    LET a == sender[t].addr
    IN  /\ sender[t].pc = "connect" /\ IdleSlots(a) # {}
        /\ pool' = Marked(a, FirstSlot(IdleSlots(a)), TRUE)
        /\ active_count' = active_count + 1
        /\ Released(t)
        /\ spoiled' = TRUE
        /\ UNCHANGED <<socks, registered, relay_table, received, serving, relaySends>>

\* ... a new one if the pool has room; ...
OpenConnection(t) ==
    LET a == sender[t].addr
    IN  /\ sender[t].pc = "connect" /\ IdleSlots(a) = {} /\ Cardinality(pool[a]) < max_size
        /\ serving /\ Len(socks) < MaxSocks
        /\ socks' = Append(socks, [state |-> "open", flight |-> <<>>])
        /\ pool' = [pool EXCEPT ![a] = @ \cup {[sock |-> Len(socks) + 1, in_use |-> TRUE]}]
        /\ active_count' = active_count + 1
        /\ sender' = [sender EXCEPT ![t].pc = "write", ![t].sock = Len(socks) + 1]
        /\ UNCHANGED <<registered, relay_table, table_lock, received, serving, relaySends, spoiled>>

\* ... or an error: nobody listens, or PoolFull.
ConnectFails(t) ==
    /\ sender[t].pc = "connect" /\ IdleSlots(sender[t].addr) = {}
    /\ ~serving \/ Cardinality(pool[sender[t].addr]) >= max_size
    /\ Released(t)
    /\ UNCHANGED <<pool, active_count, socks, registered, relay_table, received, serving, relaySends, spoiled>>

\* The message: a relayed one carries its target and nothing else.
MessageOf(t) == [type |-> sender[t].type, target |-> sender[t].target]

\* TcpServer::send: into a connection that the server has closed, the write succeeds
\* and the answer is a reset.
WriteMessage(t) ==
    LET s == sender[t].sock
    IN  /\ sender[t].pc = "write"
        /\ socks' = CASE socks[s].state = "open" -> [socks EXCEPT ![s].flight = Append(@, MessageOf(t))]
                      [] OTHER -> [socks EXCEPT ![s].state = "reset"]
        /\ spoiled' = (spoiled \/ socks[s].state # "open")
        /\ sender' = [sender EXCEPT ![t].pc = "return"]
        /\ UNCHANGED <<pool, active_count, registered, relay_table, table_lock, received, serving, relaySends>>

\* Mutant of ReturnConnection: the early return after the slot was freed is missing.
ReturnConnectionTwice(t) ==
    LET a == sender[t].addr
    IN  /\ sender[t].pc = "return"
        /\ pool' = IF UsedSlots(a) = {} THEN pool ELSE Marked(a, FirstSlot(UsedSlots(a)), FALSE)
        /\ active_count' = IF UsedSlots(a) = {} THEN Decremented(active_count) ELSE Decremented(Decremented(active_count))
        /\ Released(t)
        /\ UNCHANGED <<socks, registered, relay_table, received, serving, relaySends, spoiled>>

\* return_connection: the first connection in use is free, whoever uses it; if there
\* is none the handle is dropped.
ReturnConnection(t) ==
    LET a == sender[t].addr
    IN  /\ sender[t].pc = "return"
        /\ pool' = IF UsedSlots(a) = {} THEN pool ELSE Marked(a, FirstSlot(UsedSlots(a)), FALSE)
        /\ active_count' = Decremented(active_count)
        /\ Released(t)
        /\ UNCHANGED <<socks, registered, relay_table, received, serving, relaySends, spoiled>>

\* cleanup_idle: which connections were idle for 60 s is up to the clock.
CleanupIdle ==
    /\ \E idle \in SUBSET {c \in UNION {pool[a] : a \in RelayAddrs} : ~c.in_use} :
          /\ idle # {}
          /\ pool' = [a \in RelayAddrs |-> pool[a] \ idle]
    /\ UNCHANGED <<active_count, socks, sender, registered, relay_table, table_lock, received, serving, relaySends, spoiled>>

\* clear
ClearPool ==
    /\ \E a \in RelayAddrs : pool[a] # {}
    /\ pool' = [a \in RelayAddrs |-> {}]
    /\ active_count' = 0
    /\ spoiled' = (spoiled \/ active_count # 0)
    /\ UNCHANGED <<socks, sender, registered, relay_table, table_lock, received, serving, relaySends>>

\* TcpServer::start and stop.
ServerStart ==
    /\ ~serving
    /\ serving' = TRUE
    /\ UNCHANGED <<pool, active_count, socks, sender, registered, relay_table, table_lock, received, relaySends, spoiled>>

ServerStop ==
    /\ serving
    /\ serving' = FALSE
    /\ UNCHANGED <<pool, active_count, socks, sender, registered, relay_table, table_lock, received, relaySends, spoiled>>

\* handle_connection reads one message; the sender it is filed under is a placeholder.
ReadMessage(s) ==
    /\ serving /\ socks[s].state = "open" /\ socks[s].flight # <<>>
    /\ received' = Append(received, Head(socks[s].flight))
    /\ socks' = [socks EXCEPT ![s].flight = Tail(@)]
    /\ UNCHANGED <<pool, active_count, sender, registered, relay_table, table_lock, serving, relaySends, spoiled>>

\* ... and ends when nothing came for 30 s, or when the server was stopped.
HandlerEnds(s) ==
    /\ socks[s].state = "open"
    /\ socks[s].flight = <<>> \/ ~serving
    /\ socks' = [socks EXCEPT ![s] = [state |-> "closed", flight |-> <<>>]]
    /\ UNCHANGED <<pool, active_count, sender, registered, relay_table, table_lock, received, serving, relaySends, spoiled>>

TakeReceived ==
    /\ received # <<>>
    /\ received' = <<>>
    /\ UNCHANGED <<pool, active_count, socks, sender, registered, relay_table, table_lock, serving, relaySends, spoiled>>

RelayNext ==
    \/ \E r \in Remotes : RelayRegister(r) \/ SetRelay(r)
    \/ \E t \in Senders, r \in Remotes : RelaySend(t, r)
    \/ \E t \in Senders :
          ReuseConnection(t) \/ CloneFails(t) \/ OpenConnection(t) \/ ConnectFails(t) \/ WriteMessage(t) \/ ReturnConnection(t)
    \/ CleanupIdle \/ ClearPool \/ ServerStart \/ ServerStop \/ TakeReceived
    \/ \E s \in DOMAIN socks : ReadMessage(s) \/ HandlerEnds(s)

\* As long as no connection broke or was thrown away in use, active_count, the slots
\* marked in use and the senders that have a connection are as many, although
\* return_connection frees a slot that may be another sender's, which cleanup_idle
\* may then drop while it is used.
PoolBalanced ==
    spoiled \/ LET holding == Cardinality({t \in Senders : sender[t].pc \in {"write", "return"}})
                   marked == Cardinality({x \in RelayAddrs \X [sock : 1..MaxSocks, in_use : {TRUE}] : x[2] \in pool[x[1]]})
               IN  active_count = holding /\ marked = holding
=============================================================================
