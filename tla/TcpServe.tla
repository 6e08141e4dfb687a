------------------------------ MODULE TcpServe ------------------------------
(***************************************************************************)
(* The locks behind the TCP side of the daemon (daemon/src/main.rs):        *)
(* handle_tcp_client reads a client's frames and handles them, tcp_send     *)
(* writes replies, also those of run_exec_task_tcp, and lan-linkctl         *)
(* connects, asks for one thing and waits for the outcome (ctl/src/main.rs, *)
(* Ctx).                                                                    *)
(*                                                                         *)
(* A stream is one mutex for both directions: its reader holds it while it  *)
(* waits for bytes.  tcp_send holds tcp_conns while it waits for a stream.  *)
(* The rate limiter and the connections are held while a frame is handled,  *)
(* replies included; they are taken together, as one lock here.  A lock     *)
(* whose holder waits for nothing more is taken and released in one step.   *)
(* Connection ids are random 64-bit numbers: every client has its own.      *)
(***************************************************************************)
EXTENDS Integers, Sequences

CONSTANTS
    Clients,
    Nobody,          \* holds a lock that is free
    MaxChunks        \* bound: chunks of output of an exec

VARIABLES
    tcp_client,      \* how far each client is
    frames,          \* per client: frames on their way to the daemon
    replies,         \* per client: what the daemon wrote, of the messages it waits for
    tcp_task,        \* the tasks of the daemon
    stream_lock,     \* per client: who holds the mutex of its stream
    tcp_conns_lock, tcp_conns,
    tables_lock,     \* rate_limiter and connections
    established      \* the clients in connections

tcpVars == <<tcp_client, frames, replies, tcp_task, stream_lock, tcp_conns_lock, tcp_conns,
             tables_lock, established>>

\* The tasks of a client: the one that reads, and the one of its exec.
Reader(c) == <<"reader", c>>
ExecTask(c) == <<"exec", c>>
Tasks == {"reader", "exec"} \X Clients
Owner(t) == t[2]

ASSUME NobodyAssumption == Nobody \notin Tasks

\* frame: what a reader has read and not yet handled; send: the messages that a
\* task has yet to pass to tcp_send; chunks: the output of an exec so far.
NoTask == [pc |-> "none", frame |-> "none", send |-> <<>>, chunks |-> 0]

\* The messages that get a client out of its wait.
Awaited == {"synack", "done", "ack"}

TcpInit ==
    /\ tcp_client = [c \in Clients |-> "off"]
    /\ frames = [c \in Clients |-> <<>>]
    /\ replies = [c \in Clients |-> {}]
    /\ tcp_task = [t \in Tasks |-> NoTask]
    /\ stream_lock = [c \in Clients |-> Nobody]
    /\ tcp_conns_lock = Nobody /\ tcp_conns = {}
    /\ tables_lock = Nobody
    /\ established = {}

TaskAt(t, pc) == tcp_task[t].pc = pc
TaskGoes(t, pc) == tcp_task' = [tcp_task EXCEPT ![t].pc = pc]

-----------------------------------------------------------------------------
(* lan-linkctl.                                                             *)

TcpWrite(c, frame) == frames' = [frames EXCEPT ![c] = Append(@, frame)]

\* Ctx::new, phase 2; the daemon accepts and starts a task.
TcpConnect(c) ==
    /\ tcp_client[c] = "off"
    /\ tcp_client' = [tcp_client EXCEPT ![c] = "syn"]
    /\ TcpWrite(c, "syn")
    /\ TaskGoes(Reader(c), "length")
    /\ UNCHANGED <<replies, stream_lock, tcp_conns_lock, tcp_conns, tables_lock, established>>

\* The SYN-ACK is read without a time-out.
TcpHello(c) ==
    /\ tcp_client[c] = "syn" /\ replies[c] # {}
    /\ tcp_client' = [tcp_client EXCEPT ![c] = "hello"]
    /\ replies' = [replies EXCEPT ![c] = {}]
    /\ TcpWrite(c, "hello")
    /\ UNCHANGED <<tcp_task, stream_lock, tcp_conns_lock, tcp_conns, tables_lock, established>>

\* The HelloAck, or five seconds without it.
TcpConnected(c) ==
    /\ tcp_client[c] = "hello"
    /\ tcp_client' = [tcp_client EXCEPT ![c] = "ready"]
    /\ UNCHANGED <<frames, replies, tcp_task, stream_lock, tcp_conns_lock, tcp_conns, tables_lock, established>>

TcpRequest(c, frame) ==
    /\ tcp_client[c] = "ready"
    /\ tcp_client' = [tcp_client EXCEPT ![c] = "drain"]
    /\ TcpWrite(c, frame)
    /\ UNCHANGED <<replies, tcp_task, stream_lock, tcp_conns_lock, tcp_conns, tables_lock, established>>

\* drain_exec, or the wait for an acknowledgement: the outcome ends it.
TcpDrain(c) ==
    /\ tcp_client[c] = "drain" /\ replies[c] # {}
    /\ tcp_client' = [tcp_client EXCEPT ![c] = "gone"]
    /\ replies' = [replies EXCEPT ![c] = {}]
    /\ UNCHANGED <<frames, tcp_task, stream_lock, tcp_conns_lock, tcp_conns, tables_lock, established>>

\* The deadline: the signals are sent and the process ends.
TcpGiveUp(c) ==
    /\ tcp_client[c] = "drain"
    /\ tcp_client' = [tcp_client EXCEPT ![c] = "gone"]
    /\ replies' = [replies EXCEPT ![c] = {}]
    /\ TcpWrite(c, "signal")
    /\ UNCHANGED <<tcp_task, stream_lock, tcp_conns_lock, tcp_conns, tables_lock, established>>

-----------------------------------------------------------------------------
(* handle_tcp_client.                                                       *)

\* The reader locks the stream, and waits for bytes with it.
LockStream(c) ==
    /\ TaskAt(Reader(c), "length")
    /\ stream_lock[c] = Nobody
    /\ stream_lock' = [stream_lock EXCEPT ![c] = Reader(c)]
    /\ TaskGoes(Reader(c), "read length")
    /\ UNCHANGED <<tcp_client, frames, replies, tcp_conns_lock, tcp_conns, tables_lock, established>>

ReadLength(c) ==
    /\ TaskAt(Reader(c), "read length")
    /\ frames[c] # <<>>
    /\ stream_lock' = [stream_lock EXCEPT ![c] = Nobody]
    /\ TaskGoes(Reader(c), "body")
    /\ UNCHANGED <<tcp_client, frames, replies, tcp_conns_lock, tcp_conns, tables_lock, established>>

\* read_exact fails when the client is gone and everything was read.
ReadFails(c) ==
    /\ TaskAt(Reader(c), "read length")
    /\ frames[c] = <<>> /\ tcp_client[c] = "gone"
    /\ stream_lock' = [stream_lock EXCEPT ![c] = Nobody]
    /\ TaskGoes(Reader(c), "cleanup")
    /\ UNCHANGED <<tcp_client, frames, replies, tcp_conns_lock, tcp_conns, tables_lock, established>>

FrameRead(c) == tcp_task' = [tcp_task EXCEPT ![Reader(c)].pc = "register", ![Reader(c)].frame = Head(frames[c])]

\* Mutant of ReadBody: the guard of the stream lives until the frame is handled.
ReadBodyHeld(c) ==
    /\ TaskAt(Reader(c), "body") /\ stream_lock[c] = Nobody
    /\ frames' = [frames EXCEPT ![c] = Tail(@)]
    /\ stream_lock' = [stream_lock EXCEPT ![c] = Reader(c)]
    /\ FrameRead(c)
    /\ UNCHANGED <<tcp_client, replies, tcp_conns_lock, tcp_conns, tables_lock, established>>

\* The stream is locked anew; the bytes follow the length at once.
ReadBody(c) ==
    /\ TaskAt(Reader(c), "body") /\ stream_lock[c] = Nobody
    /\ frames' = [frames EXCEPT ![c] = Tail(@)]
    /\ FrameRead(c)
    /\ UNCHANGED <<tcp_client, replies, stream_lock, tcp_conns_lock, tcp_conns, tables_lock, established>>

RegisterStream(c) ==
    /\ TaskAt(Reader(c), "register")
    /\ tcp_conns_lock = Nobody
    /\ tcp_conns' = tcp_conns \cup {c}
    /\ TaskGoes(Reader(c), "tables")
    /\ UNCHANGED <<tcp_client, frames, replies, stream_lock, tcp_conns_lock, tables_lock, established>>

CleanUp(c) ==
    /\ TaskAt(Reader(c), "cleanup")
    /\ tcp_conns_lock = Nobody
    /\ tcp_conns' = tcp_conns \ {c}
    /\ TaskGoes(Reader(c), "ended")
    /\ UNCHANGED <<tcp_client, frames, replies, stream_lock, tcp_conns_lock, tables_lock, established>>

-----------------------------------------------------------------------------
(* handle_packet_tcp and handle_control_tcp.                                *)

\* The rate limiter and the connections are locked and the frame is looked at.
Handles(c) == TaskAt(Reader(c), "tables") /\ tables_lock = Nobody

\* The reader goes on to send the messages with the tables locked; with none it
\* returns.
Answers(c, messages) ==
    /\ tcp_task' = [tcp_task EXCEPT ![Reader(c)] =
                       [NoTask EXCEPT !.pc = IF messages = <<>> THEN "length" ELSE "send", !.send = messages]]
    /\ tables_lock' = IF messages = <<>> THEN Nobody ELSE Reader(c)

\* A quota is used up, data comes before the connection, or there is no answer
\* (a signal).
HandleDropped(c) ==
    /\ Handles(c)
    /\ Answers(c, <<>>)
    /\ UNCHANGED <<tcp_client, frames, replies, stream_lock, tcp_conns_lock, tcp_conns, established>>

HandleSyn(c) ==
    /\ Handles(c) /\ tcp_task[Reader(c)].frame = "syn"
    /\ established' = established \cup {c}
    /\ Answers(c, <<"synack">>)
    /\ UNCHANGED <<tcp_client, frames, replies, stream_lock, tcp_conns_lock, tcp_conns>>

Controls(c, frame) ==
    Handles(c) /\ c \in established /\ tcp_task[Reader(c)].frame = frame

HandleHello(c) ==
    /\ Controls(c, "hello")
    /\ Answers(c, <<"helloack">>)
    /\ UNCHANGED <<tcp_client, frames, replies, stream_lock, tcp_conns_lock, tcp_conns, established>>

\* FilePush and FileChunk; without a file there is no acknowledgement
\* (HandleDropped).
HandleFile(c) ==
    /\ Controls(c, "file")
    /\ Answers(c, <<"ack">>)
    /\ UNCHANGED <<tcp_client, frames, replies, stream_lock, tcp_conns_lock, tcp_conns, established>>

\* Exec and NativeSpawn: the spawn fails, or a task is started for the output.
HandleExec(c) ==
    /\ Controls(c, "exec")
    /\ \/ Answers(c, <<"done">>)
       \/ /\ tcp_task' = [tcp_task EXCEPT ![Reader(c)] = [NoTask EXCEPT !.pc = "send", !.send = <<"started">>],
                                          ![ExecTask(c)].pc = "select"]
          /\ tables_lock' = Reader(c)
    /\ UNCHANGED <<tcp_client, frames, replies, stream_lock, tcp_conns_lock, tcp_conns, established>>

\* NativeCmd is awaited with the tables locked.
HandleNative(c) ==
    /\ Controls(c, "native")
    /\ TaskGoes(Reader(c), "native")
    /\ tables_lock' = Reader(c)
    /\ UNCHANGED <<tcp_client, frames, replies, stream_lock, tcp_conns_lock, tcp_conns, established>>

NativeReturns(c) ==
    /\ TaskAt(Reader(c), "native")
    /\ Answers(c, <<"chunk", "done">>)
    /\ UNCHANGED <<tcp_client, frames, replies, stream_lock, tcp_conns_lock, tcp_conns, established>>

\* run_exec_task_tcp: output, or the end of the child.
ExecOutput(c) ==
    LET t == ExecTask(c)
    IN  /\ TaskAt(t, "select")
        /\ \/ /\ tcp_task[t].chunks < MaxChunks
              /\ tcp_task' = [tcp_task EXCEPT ![t].pc = "send", ![t].send = <<"chunk">>, ![t].chunks = @ + 1]
           \/ tcp_task' = [tcp_task EXCEPT ![t].pc = "send", ![t].send = <<"done">>]
        /\ UNCHANGED <<tcp_client, frames, replies, stream_lock, tcp_conns_lock, tcp_conns, tables_lock, established>>

-----------------------------------------------------------------------------
(* tcp_send.                                                                *)

\* The message has been sent, or could not be.
AfterSend(t) ==
    LET rest == Tail(tcp_task[t].send)
        pc == IF rest # <<>> THEN "send"
              ELSE IF t = Reader(Owner(t)) THEN "length"
              ELSE IF tcp_task[t].send = <<"done">> THEN "ended" ELSE "select"
    IN  /\ tcp_task' = IF pc = "ended" THEN [tcp_task EXCEPT ![t] = [NoTask EXCEPT !.pc = pc]]
                       ELSE [tcp_task EXCEPT ![t].pc = pc, ![t].send = rest]
        /\ tables_lock' = IF pc = "length" THEN Nobody ELSE tables_lock

SendLocksConns(t) ==
    /\ TaskAt(t, "send")
    /\ tcp_conns_lock = Nobody
    /\ IF Owner(t) \in tcp_conns
       THEN tcp_conns_lock' = t /\ TaskGoes(t, "stream") /\ UNCHANGED tables_lock
       ELSE AfterSend(t) /\ UNCHANGED tcp_conns_lock
    /\ UNCHANGED <<tcp_client, frames, replies, stream_lock, tcp_conns, established>>

\* The stream is locked for the write; a write to a client that is gone fails.
SendWrites(t) ==
    /\ TaskAt(t, "stream")
    /\ stream_lock[Owner(t)] = Nobody
    /\ replies' = IF tcp_client[Owner(t)] = "gone" THEN replies
                  ELSE [replies EXCEPT ![Owner(t)] = @ \cup ({Head(tcp_task[t].send)} \cap Awaited)]
    /\ tcp_conns_lock' = Nobody
    /\ AfterSend(t)
    /\ UNCHANGED <<tcp_client, frames, stream_lock, tcp_conns, established>>

-----------------------------------------------------------------------------
TcpNext ==
    \/ \E c \in Clients :
        \/ TcpConnect(c) \/ TcpHello(c) \/ TcpConnected(c) \/ TcpDrain(c) \/ TcpGiveUp(c)
        \/ \E frame \in {"exec", "native", "file"} : TcpRequest(c, frame)
        \/ LockStream(c) \/ ReadLength(c) \/ ReadFails(c) \/ ReadBody(c)
        \/ RegisterStream(c) \/ CleanUp(c)
        \/ HandleDropped(c) \/ HandleSyn(c) \/ HandleHello(c) \/ HandleFile(c) \/ HandleExec(c)
        \/ HandleNative(c) \/ NativeReturns(c) \/ ExecOutput(c)
    \/ \E t \in Tasks : SendLocksConns(t) \/ SendWrites(t)

\* Who has the lock that a task waits for.
WaitsFor(t) ==
    CASE tcp_task[t].pc \in {"length", "body", "stream"} -> stream_lock[Owner(t)]
      [] tcp_task[t].pc \in {"register", "cleanup", "send"} -> tcp_conns_lock
      [] tcp_task[t].pc = "tables" -> tables_lock
      [] OTHER -> Nobody

\* A reader whose client waits without a deadline: for a SYN-ACK, or for its user.
Silent(t) ==
    /\ TaskAt(t, "read length") /\ frames[Owner(t)] = <<>>
    /\ tcp_client[Owner(t)] = "ready" \/ (tcp_client[Owner(t)] = "syn" /\ replies[Owner(t)] = {})

\* No task waits for a lock in vain, although a stream is locked while its reader
\* waits for bytes and tcp_conns while tcp_send waits for a stream: no tasks wait
\* for each other, and the one that all of them wait for can go on by itself or has
\* a client with a deadline, after which it sends a signal and lets them pass.
\* (Until then the replies to every other client wait too.)
NobodyStuck ==
    \A S \in SUBSET Tasks :
        (\A t \in S : WaitsFor(t) \in S \/ Silent(t)) => \A t \in S : WaitsFor(t) = Nobody
=============================================================================
