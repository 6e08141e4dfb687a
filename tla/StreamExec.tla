----------------------------- MODULE StreamExec -----------------------------
(***************************************************************************)
(* Streaming command execution: StreamingExec of crates/shell/src/lib.rs,   *)
(* the Exec handlers and run_exec_task of crates/daemon/src/main.rs, and    *)
(* drain_exec of crates/ctl/src/main.rs.                                    *)
(*                                                                         *)
(* Every exec has its own client, its child process, two reader threads, a  *)
(* wait thread, two forwarding threads and the task that selects among      *)
(* output, exit and commands.  The n-th chunk that the child writes on      *)
(* stream s (0 is stdout, 1 is stderr) is <<s, n>>.  exec_map has one entry *)
(* per correlation id; lan-linkctl gives the id 1 to every exec it starts.  *)
(***************************************************************************)
EXTENDS Naturals, Sequences, SequencesExt

CONSTANTS
    Execs,      \* the executions, each requested by a client of its own
    Ids,        \* correlation ids
    NoExec,     \* no entry in exec_map
    SpawnFails, \* TRUE: spawning a child may fail
    StdinCap,   \* writes that fit into the pipe to a child's stdin
    MaxOutput,  \* bound: chunks that the child of an exec writes on a stream
    MaxStdin    \* bound: ExecStdin commands of the client of an exec; 0: it is drain_exec

ASSUME NoExecAssumption == NoExec \notin Execs

Streams == {0, 1}

ASSUME ExecBoundAssumption ==
    /\ StdinCap \in Nat
    /\ MaxOutput \in [Execs -> [Streams -> Nat]]
    /\ MaxStdin \in [Execs -> Nat]

Codes == {"code", "none"}   \* an exit status, or None: killed or not spawned
OutChunk == Streams \X (Nat \ {0})
Started == <<"started">>
Done(c) == <<"done", c>>
Output(chunk) == <<"chunk", chunk>>
Message == {Started} \cup {Done(c) : c \in Codes} \cup ({"chunk"} \X OutChunk)

VARIABLES
    id,        \* the correlation id that the exec's client chose
    client,    \* where drain_exec of the exec's client is
    requests,  \* <<e, c>>: the command c of e's client is on its way
    inputs,    \* ExecStdin commands sent by the client
    serving,   \* the exec whose handler has yet to send ExecStarted
    exec_map,  \* id -> the exec that has its command sender there
    child,     \* "none", "running" or "exited"
    status,    \* the child's exit status
    made,      \* chunks the child wrote, per stream
    read,      \* chunks the reader threads took from the pipes
    chunks,    \* the channel from the reader threads
    fwd,       \* the task's channel of chunks
    waiter,    \* the wait thread: "start", "waiting" (with the lock), "ended"
    result,    \* where the exit status is: "no", "std", "task" (the oneshot)
    stdin,     \* writes in the stdin pipe
    open,      \* TRUE: the daemon's end of the stdin pipe is open
    task,      \* run_exec_task: its await or the call that it is blocked in
    cmds,      \* the commands queued for the task
    wire       \* what the daemon has sent for the exec, in order

clientVars == <<id, client, inputs>>
servingVars == <<serving, exec_map>>
childVars == <<child, status, made>>
threadVars == <<read, chunks, fwd, waiter, result>>
execVars == <<clientVars, requests, servingVars, childVars, threadVars,
          stdin, open, task, cmds, wire>>

ExecInit ==
    /\ id \in [Execs -> Ids]
    /\ client = [e \in Execs |-> "start"]
    /\ requests = {}
    /\ inputs = [e \in Execs |-> 0]
    /\ serving = NoExec
    /\ exec_map = [i \in Ids |-> NoExec]
    /\ child = [e \in Execs |-> "none"]
    /\ status = [e \in Execs |-> "none"]
    /\ made = [e \in Execs |-> [s \in Streams |-> 0]]
    /\ read = [e \in Execs |-> [s \in Streams |-> 0]]
    /\ chunks = [e \in Execs |-> <<>>]
    /\ fwd = [e \in Execs |-> <<>>]
    /\ waiter = [e \in Execs |-> "start"]
    /\ result = [e \in Execs |-> "no"]
    /\ stdin = [e \in Execs |-> 0]
    /\ open = [e \in Execs |-> FALSE]
    /\ task = [e \in Execs |-> "none"]
    /\ cmds = [e \in Execs |-> <<>>]
    /\ wire = [e \in Execs |-> <<>>]

SendMsg(e, m) == wire' = [wire EXCEPT ![e] = Append(@, m)]

-----------------------------------------------------------------------------
(* The client.                                                              *)

Request(e) ==
    /\ client[e] = "start"
    /\ client' = [client EXCEPT ![e] = "drain"]
    /\ requests' = requests \cup {<<e, "exec">>}
    /\ UNCHANGED <<id, inputs, servingVars, childVars, threadVars, stdin, open, task, cmds, wire>>

\* drain_exec_interactive passes a line, or the end of the input, on.
Input(e) ==
    /\ client[e] = "drain"
    /\ inputs[e] < MaxStdin[e]
    /\ inputs' = [inputs EXCEPT ![e] = @ + 1]
    /\ \E c \in {"stdin", "close"} : requests' = requests \cup {<<e, c>>}
    /\ UNCHANGED <<id, client, servingVars, childVars, threadVars, stdin, open, task, cmds, wire>>

\* The client returns with the first ExecDone for its id.
RecvDone(e) ==
    /\ client[e] = "drain"
    /\ \E c \in Codes : Contains(wire[e], Done(c))
    /\ client' = [client EXCEPT ![e] = "done"]
    /\ UNCHANGED <<id, inputs, requests, servingVars, childVars, threadVars, stdin, open, task, cmds, wire>>

\* drain_exec: the deadline passes: signal 15, half a second later signal 9, and return.
Deadline(e) ==
    /\ MaxStdin[e] = 0
    /\ client[e] \in {"drain", "term"}
    /\ client' = [client EXCEPT ![e] = IF @ = "drain" THEN "term" ELSE "timedout"]
    /\ requests' = requests \cup {<<e, IF client[e] = "drain" THEN "sig15" ELSE "sig9">>}
    /\ UNCHANGED <<id, inputs, servingVars, childVars, threadVars, stdin, open, task, cmds, wire>>

\* Mutant of DeadlineInteractive: the client waits for the answer to its signal.
DeadlineInteractiveStuck(e) ==
    /\ client[e] = "drain"
    /\ client' = [client EXCEPT ![e] = "term"]
    /\ requests' = requests \cup {<<e, "sig15">>}
    /\ UNCHANGED <<id, inputs, servingVars, childVars, threadVars, stdin, open, task, cmds, wire>>

\* drain_exec_interactive: signal 15 or, if select! saw the end of the sleep first, none.
DeadlineInteractive(e) ==
    /\ MaxStdin[e] # 0
    /\ client[e] = "drain"
    /\ client' = [client EXCEPT ![e] = "timedout"]
    /\ requests' \in {requests, requests \cup {<<e, "sig15">>}}
    /\ UNCHANGED <<id, inputs, servingVars, childVars, threadVars, stdin, open, task, cmds, wire>>

Client(e) == Request(e) \/ Input(e) \/ RecvDone(e) \/ Deadline(e) \/ DeadlineInteractive(e)

-----------------------------------------------------------------------------
(* The daemon's receive loop: one command after the other.                  *)

\* The child starts and the task with it; ExecStarted is sent afterwards.  The
\* sender that exec_map held for this id, if any, is dropped.
HandleExecRequest(e) ==
    /\ serving = NoExec
    /\ <<e, "exec">> \in requests
    /\ requests' = requests \ {<<e, "exec">>}
    /\ child' = [child EXCEPT ![e] = "running"]
    /\ open' = [open EXCEPT ![e] = TRUE]
    /\ exec_map' = [exec_map EXCEPT ![id[e]] = e]
    /\ task' = [task EXCEPT ![e] = "select"]
    /\ serving' = e
    /\ UNCHANGED <<clientVars, status, made, threadVars, stdin, cmds, wire>>

SpawnFailed(e) ==
    /\ SpawnFails
    /\ serving = NoExec
    /\ <<e, "exec">> \in requests
    /\ requests' = requests \ {<<e, "exec">>}
    /\ SendMsg(e, Done("none"))
    /\ UNCHANGED <<clientVars, servingVars, childVars, threadVars, stdin, open, task, cmds>>

SendStarted(e) ==
    /\ serving = e
    /\ serving' = NoExec
    /\ SendMsg(e, Started)
    /\ UNCHANGED <<clientVars, requests, exec_map, childVars, threadVars, stdin, open, task, cmds>>

\* What a command asks of the task: every signal number has the same effect.
CmdOf(c) == IF c \in {"sig15", "sig9"} THEN "signal" ELSE c

\* Mutant of Receiver: a command goes to any exec.
ReceiverAny(e) == CHOOSE x \in Execs : x # e

\* The exec whose sender exec_map holds under the id of the command.
Receiver(e) == exec_map[id[e]]

\* ExecStdin or ExecSignal: queued for the task registered under the id, unless
\* there is none or its receiver is gone.
HandleCommand(e, c) ==
    /\ serving = NoExec
    /\ <<e, c>> \in requests
    /\ requests' = requests \ {<<e, c>>}
    /\ cmds' = IF Receiver(e) = NoExec \/ task[Receiver(e)] = "ended"
               THEN cmds
               ELSE [cmds EXCEPT ![Receiver(e)] = Append(@, CmdOf(c))]
    /\ UNCHANGED <<clientVars, servingVars, childVars, threadVars, stdin, open, task, wire>>

Handler ==
    \E e \in Execs :
        \/ HandleExecRequest(e)
        \/ SpawnFailed(e)
        \/ SendStarted(e)
        \/ \E c \in {"stdin", "close", "sig15", "sig9"} : HandleCommand(e, c)

-----------------------------------------------------------------------------
(* The child process.                                                       *)

Write(e, s) ==
    /\ child[e] = "running"
    /\ made[e][s] < MaxOutput[e][s]
    /\ made' = [made EXCEPT ![e][s] = @ + 1]
    /\ UNCHANGED <<clientVars, requests, servingVars, child, status, threadVars,
                   stdin, open, task, cmds, wire>>

Consume(e) ==
    /\ child[e] = "running"
    /\ stdin[e] > 0
    /\ stdin' = [stdin EXCEPT ![e] = @ - 1]
    /\ UNCHANGED <<clientVars, requests, servingVars, childVars, threadVars, open, task, cmds, wire>>

Exit(e) ==
    /\ child[e] = "running"
    /\ child' = [child EXCEPT ![e] = "exited"]
    /\ status' = [status EXCEPT ![e] = "code"]
    /\ UNCHANGED <<clientVars, requests, servingVars, made, threadVars, stdin, open, task, cmds, wire>>

Child(e) == Consume(e) \/ Exit(e) \/ \E s \in Streams : Write(e, s)

-----------------------------------------------------------------------------
(* The threads of StreamingExec and the bridges to the task.                *)

\* A reader thread sends what it reads into the channel both share.
Read(e, s) ==
    /\ read[e][s] < made[e][s]
    /\ read' = [read EXCEPT ![e][s] = @ + 1]
    /\ chunks' = [chunks EXCEPT ![e] = Append(@, <<s, read[e][s] + 1>>)]
    /\ UNCHANGED <<clientVars, requests, servingVars, childVars, fwd, waiter, result,
                   stdin, open, task, cmds, wire>>

\* The wait thread locks the child, takes it out and waits with the lock held.
WaitLock(e) ==
    /\ child[e] # "none"
    /\ waiter[e] = "start"
    /\ waiter' = [waiter EXCEPT ![e] = "waiting"]
    /\ UNCHANGED <<clientVars, requests, servingVars, childVars, read, chunks, fwd, result,
                   stdin, open, task, cmds, wire>>

\* Mutant of WaitExit: the status is not sent on.
WaitExitSilent(e) ==
    /\ waiter[e] = "waiting"
    /\ child[e] = "exited"
    /\ waiter' = [waiter EXCEPT ![e] = "ended"]
    /\ UNCHANGED <<clientVars, requests, servingVars, childVars, read, chunks, fwd, result,
                   stdin, open, task, cmds, wire>>

WaitExit(e) ==
    /\ waiter[e] = "waiting"
    /\ child[e] = "exited"
    /\ waiter' = [waiter EXCEPT ![e] = "ended"]
    /\ result' = [result EXCEPT ![e] = "std"]
    /\ UNCHANGED <<clientVars, requests, servingVars, childVars, read, chunks, fwd,
                   stdin, open, task, cmds, wire>>

ForwardChunk(e) ==
    /\ chunks[e] # <<>>
    /\ chunks' = [chunks EXCEPT ![e] = Tail(@)]
    /\ fwd' = [fwd EXCEPT ![e] = IF task[e] = "ended" THEN @ ELSE Append(@, Head(chunks[e]))]
    /\ UNCHANGED <<clientVars, requests, servingVars, childVars, read, waiter, result,
                   stdin, open, task, cmds, wire>>

ForwardDone(e) ==
    /\ result[e] = "std"
    /\ result' = [result EXCEPT ![e] = "task"]
    /\ UNCHANGED <<clientVars, requests, servingVars, childVars, read, chunks, fwd, waiter,
                   stdin, open, task, cmds, wire>>

Threads(e) ==
    \/ WaitLock(e) \/ WaitExit(e) \/ ForwardChunk(e) \/ ForwardDone(e)
    \/ \E s \in Streams : Read(e, s)

-----------------------------------------------------------------------------
(* run_exec_task: select! takes any branch that is ready.                   *)

\* Mutant of SelectChunk: the chunk stays in the channel.
SelectChunkAgain(e) ==
    /\ task[e] = "select"
    /\ fwd[e] # <<>>
    /\ SendMsg(e, Output(Head(fwd[e])))
    /\ UNCHANGED <<clientVars, requests, servingVars, childVars, threadVars, stdin, open, task, cmds>>

SelectChunk(e) ==
    /\ task[e] = "select"
    /\ fwd[e] # <<>>
    /\ fwd' = [fwd EXCEPT ![e] = Tail(@)]
    /\ SendMsg(e, Output(Head(fwd[e])))
    /\ UNCHANGED <<clientVars, requests, servingVars, childVars, read, chunks, waiter, result,
                   stdin, open, task, cmds>>

\* The task is over: what its channels still hold is dropped, stdin is closed.
EndTask(e) ==
    /\ task' = [task EXCEPT ![e] = "ended"]
    /\ fwd' = [fwd EXCEPT ![e] = <<>>]
    /\ cmds' = [cmds EXCEPT ![e] = <<>>]
    /\ open' = [open EXCEPT ![e] = FALSE]

\* Mutant of SelectDone: the loop is not left.
SelectDoneStay(e) ==
    /\ task[e] = "select"
    /\ result[e] = "task"
    /\ result' = [result EXCEPT ![e] = "no"]
    /\ SendMsg(e, Done(status[e]))
    /\ UNCHANGED <<clientVars, requests, servingVars, childVars, read, chunks, fwd, waiter,
                   stdin, open, task, cmds>>

\* Mutant of SelectDone: the loop is left without a report.
SelectDoneSilent(e) ==
    /\ task[e] = "select"
    /\ result[e] = "task"
    /\ result' = [result EXCEPT ![e] = "no"]
    /\ EndTask(e)
    /\ UNCHANGED <<clientVars, requests, servingVars, childVars, read, chunks, waiter, stdin, wire>>

SelectDone(e) ==
    /\ task[e] = "select"
    /\ result[e] = "task"
    /\ result' = [result EXCEPT ![e] = "no"]
    /\ SendMsg(e, Done(status[e]))
    /\ EndTask(e)
    /\ UNCHANGED <<clientVars, requests, servingVars, childVars, read, chunks, waiter, stdin>>

\* A command: the task goes on to write_stdin or kill, which may block it.
SelectCommand(e) ==
    /\ task[e] = "select"
    /\ cmds[e] # <<>>
    /\ cmds' = [cmds EXCEPT ![e] = Tail(@)]
    /\ task' = [task EXCEPT ![e] = Head(cmds[e])]
    /\ UNCHANGED <<clientVars, requests, servingVars, childVars, threadVars, stdin, open, wire>>

\* recv() returns None once exec_map's sender was replaced and the queue is empty.
SelectClosed(e) ==
    /\ task[e] = "select"
    /\ cmds[e] = <<>>
    /\ exec_map[id[e]] # e
    /\ task' = [task EXCEPT ![e] = "abandon"]
    /\ UNCHANGED <<clientVars, requests, servingVars, childVars, threadVars, stdin, open, cmds, wire>>

\* write_stdin: blocks while the pipe is full and the child lives; an error or a
\* pipe that is closed already is ignored.
WriteStdin(e) ==
    /\ task[e] \in {"stdin", "close"}
    /\ IF task[e] = "stdin" /\ open[e] /\ child[e] = "running"
       THEN /\ stdin[e] < StdinCap
            /\ stdin' = [stdin EXCEPT ![e] = @ + 1]
       ELSE UNCHANGED stdin
    /\ open' = [open EXCEPT ![e] = @ /\ task[e] # "close"]
    /\ task' = [task EXCEPT ![e] = "select"]
    /\ UNCHANGED <<clientVars, requests, servingVars, childVars, threadVars, cmds, wire>>

\* kill() needs the lock.  Until the wait thread has it the child is still in
\* its slot and is killed; once the wait thread gives it back the slot is empty.
KillChild(e) ==
    /\ waiter[e] # "waiting"
    /\ IF waiter[e] = "start" /\ child[e] = "running"
       THEN /\ child' = [child EXCEPT ![e] = "exited"]
            /\ status' = [status EXCEPT ![e] = "none"]
       ELSE UNCHANGED <<child, status>>

Signal(e) ==
    /\ task[e] = "signal"
    /\ KillChild(e)
    /\ task' = [task EXCEPT ![e] = "select"]
    /\ UNCHANGED <<clientVars, requests, servingVars, made, threadVars, stdin, open, cmds, wire>>

\* The command channel is closed: kill and leave, without ExecDone.
Abandon(e) ==
    /\ task[e] = "abandon"
    /\ KillChild(e)
    /\ EndTask(e)
    /\ UNCHANGED <<clientVars, requests, servingVars, made, read, chunks, waiter, result, stdin, wire>>

Task(e) ==
    \/ SelectChunk(e) \/ SelectDone(e) \/ SelectCommand(e) \/ SelectClosed(e)
    \/ WriteStdin(e) \/ Signal(e) \/ Abandon(e)

ExecNext ==
    \/ Handler
    \/ \E e \in Execs : Client(e) \/ Child(e) \/ Threads(e) \/ Task(e)

ExecSpec == ExecInit /\ [][ExecNext]_execVars

\* Threads and tasks that can go on do so.  Nothing is assumed of the child, and
\* of the client only that its deadline passes.
FairExecSpec ==
    /\ ExecSpec
    /\ WF_execVars(Handler)
    /\ \A e \in Execs :
        /\ WF_execVars(Threads(e))
        /\ WF_execVars(Task(e))
        /\ WF_execVars(Request(e) \/ RecvDone(e) \/ Deadline(e) \/ DeadlineInteractive(e))

-----------------------------------------------------------------------------
(* Properties.                                                              *)

ExecTypeOK ==
    /\ client \in [Execs -> {"start", "drain", "term", "timedout", "done"}]
    /\ requests \subseteq Execs \X {"exec", "stdin", "close", "sig15", "sig9"}
    /\ id \in [Execs -> Ids]
    /\ inputs \in [Execs -> Nat]
    /\ serving \in Execs \cup {NoExec}
    /\ exec_map \in [Ids -> Execs \cup {NoExec}]
    /\ child \in [Execs -> {"none", "running", "exited"}]
    /\ status \in [Execs -> Codes]
    /\ made \in [Execs -> [Streams -> Nat]]
    /\ read \in [Execs -> [Streams -> Nat]]
    /\ chunks \in [Execs -> Seq(OutChunk)]
    /\ fwd \in [Execs -> Seq(OutChunk)]
    /\ waiter \in [Execs -> {"start", "waiting", "ended"}]
    /\ result \in [Execs -> {"no", "std", "task"}]
    /\ stdin \in [Execs -> 0..StdinCap]
    /\ open \in [Execs -> BOOLEAN]
    /\ task \in [Execs -> {"none", "select", "stdin", "close", "signal", "abandon", "ended"}]
    /\ cmds \in [Execs -> Seq({"stdin", "close", "signal"})]
    /\ wire \in [Execs -> Seq(Message)]

Reported(e) == \E c \in Codes : Contains(wire[e], Done(c))

\* Each stream's chunks reach the wire in the order the child wrote them, none
\* skipped and none twice, though two reader threads share one channel, a bridge
\* thread copies it and select! interleaves the chunks with everything else: every
\* chunk comes once, and after the one before it.
StreamsInOrder ==
    \A e \in Execs : \A i \in DOMAIN wire[e] : wire[e][i][1] = "chunk" =>
        LET s == wire[e][i][2][1]
            n == wire[e][i][2][2]
        IN  /\ n = 1 \/ \E j \in 1..i-1 : wire[e][j] = Output(<<s, n - 1>>)
            /\ \A j \in 1..i-1 : wire[e][j] # wire[e][i]

\* At most one ExecDone is sent for an exec, no output follows it, and it tells
\* the truth: a child that was spawned has exited, with the status reported.
DoneIsFinal ==
    \A e \in Execs : \A i \in DOMAIN wire[e] : \A c \in Codes :
        wire[e][i] = Done(c) =>
            /\ \A j \in i+1..Len(wire[e]) : wire[e][j] = Started
            /\ child[e] \in {"none", "exited"}
            /\ status[e] = c

\* A later exec with the same id took e's entry in exec_map.
Replaced(e) == child[e] # "none" /\ exec_map[id[e]] # e

\* A child dies of a signal only if a client that uses its id gave up, or a
\* later exec took its entry: exec_map is keyed by the id alone, not by the
\* connection, and nothing else leads from one exec to another.
KilledForCause ==
    \A e \in Execs :
        child[e] = "exited" /\ status[e] = "none" =>
            \/ Replaced(e)
            \/ \E f \in Execs : id[f] = id[e] /\ client[f] \in {"term", "timedout"}

\* A task ends without ExecDone only if a later exec took its entry in exec_map.
AbandonedOnlyIfReplaced ==
    \A e \in Execs : task[e] = "ended" => Reported(e) \/ Replaced(e)

\* However the threads, a blocked kill or write_stdin and the commands
\* interleave, a child's exit is eventually reported to the client, unless a
\* later exec took its entry.
ExitReported ==
    \A e \in Execs : child[e] = "exited" ~> Reported(e) \/ Replaced(e)

\* drain_exec and drain_exec_interactive return.
ClientReturns == \A e \in Execs : client[e] \in {"drain", "term"} ~> client[e] \in {"done", "timedout"}

-----------------------------------------------------------------------------
(* What the documentation says and the code does not keep.                  *)

\* frame.rs:177, "Signal the running exec (signal number, e.g. 15=SIGTERM,
\* 9=SIGKILL)": a task that takes a signal off its queue gets the child stopped.
SignalStops == \A e \in Execs : task[e] = "signal" ~> child[e] # "running"
=============================================================================
