-------------------------- MODULE StreamExecProofs --------------------------
(***************************************************************************)
(* What holds of streaming execution for any number of executions, clients, *)
(* correlation ids, chunks and commands.                                    *)
(***************************************************************************)
EXTENDS StreamExec, TLAPS

Commands == {"exec", "stdin", "close", "sig15", "sig9"}
Queued == {"stdin", "close", "signal"}

LEMMA Messages ==
    /\ Started \in Message /\ Started[1] = "started"
    /\ \A c \in Codes : Done(c) \in Message /\ Done(c)[1] = "done" /\ Done(c)[2] = c
    /\ \A k \in OutChunk : Output(k) \in Message /\ Output(k)[1] = "chunk" /\ Output(k)[2] = k
BY DEF Started, Done, Output, Message

LEMMA StreamTypesInit == ExecInit => ExecTypeOK
<1> SUFFICES ASSUME ExecInit PROVE ExecTypeOK
  OBVIOUS
<1>1. /\ client \in [Execs -> {"start", "drain", "term", "timedout", "done"}]
      /\ requests \subseteq Execs \X Commands
      /\ id \in [Execs -> Ids] /\ inputs \in [Execs -> Nat]
      /\ serving \in Execs \cup {NoExec} /\ exec_map \in [Ids -> Execs \cup {NoExec}]
  BY DEF ExecInit
<1>2. /\ child \in [Execs -> {"none", "running", "exited"}] /\ status \in [Execs -> Codes]
      /\ made \in [Execs -> [Streams -> Nat]] /\ read \in [Execs -> [Streams -> Nat]]
      /\ waiter \in [Execs -> {"start", "waiting", "ended"}] /\ result \in [Execs -> {"no", "std", "task"}]
      /\ stdin \in [Execs -> 0..StdinCap]
      /\ task \in [Execs -> {"none", "select", "stdin", "close", "signal", "abandon", "ended"}]
  BY ExecBoundAssumption DEF ExecInit, Codes
<1>3. open \in [Execs -> BOOLEAN]
  BY DEF ExecInit
<1>4. /\ chunks \in [Execs -> Seq(OutChunk)] /\ fwd \in [Execs -> Seq(OutChunk)]
      /\ cmds \in [Execs -> Seq(Queued)] /\ wire \in [Execs -> Seq(Message)]
  BY DEF ExecInit
<1>5. QED
  BY <1>1, <1>2, <1>3, <1>4 DEF ExecTypeOK, Commands, Queued

LEMMA StreamTypes == ExecSpec => []ExecTypeOK
<1>1. ExecInit => ExecTypeOK
  BY StreamTypesInit
<1>2. ExecTypeOK /\ [ExecNext]_execVars => ExecTypeOK'
  <2> SUFFICES ASSUME ExecTypeOK, [ExecNext]_execVars PROVE ExecTypeOK'
    OBVIOUS
  <2> USE DEF clientVars, servingVars, childVars, threadVars
  <2>1. ASSUME NEW e \in Execs, Client(e) PROVE ExecTypeOK'
    <3>1. CASE Request(e)
      <4>1. requests' \subseteq Execs \X Commands
        BY <3>1 DEF Request, ExecTypeOK, Commands
      <4>2. QED
        BY <3>1, <4>1 DEF Request, ExecTypeOK, Commands
    <3>2. CASE Input(e)
      <4>1. requests' \subseteq Execs \X Commands
        BY <3>2 DEF Input, ExecTypeOK, Commands
      <4>2. QED
        BY <3>2, <4>1 DEF Input, ExecTypeOK, Commands
    <3>3. CASE RecvDone(e)
      BY <3>3 DEF RecvDone, ExecTypeOK
    <3>4. CASE Deadline(e) \/ DeadlineInteractive(e)
      <4>1. requests' \subseteq Execs \X Commands
        BY <3>4 DEF Deadline, DeadlineInteractive, ExecTypeOK, Commands
      <4>2. QED
        BY <3>4, <4>1 DEF Deadline, DeadlineInteractive, ExecTypeOK, Commands
    <3>5. QED
      BY <2>1, <3>1, <3>2, <3>3, <3>4 DEF Client
  <2>2. ASSUME NEW e \in Execs, HandleExecRequest(e) PROVE ExecTypeOK'
    <3>1. open' \in [Execs -> BOOLEAN]
      BY <2>2 DEF HandleExecRequest, ExecTypeOK
    <3>2. exec_map' \in [Ids -> Execs \cup {NoExec}]
      BY <2>2 DEF HandleExecRequest, ExecTypeOK
    <3>3. QED
      BY <2>2, <3>1, <3>2 DEF HandleExecRequest, ExecTypeOK
  <2>3. ASSUME NEW e \in Execs, SpawnFailed(e) \/ SendStarted(e) PROVE ExecTypeOK'
    <3>1. PICK m \in Message : wire' = [wire EXCEPT ![e] = Append(@, m)]
      BY <2>3, Messages DEF SpawnFailed, SendStarted, SendMsg, Codes
    <3>2. wire' \in [Execs -> Seq(Message)]
      BY <3>1 DEF ExecTypeOK
    <3>3. QED
      BY <2>3, <3>2 DEF SpawnFailed, SendStarted, ExecTypeOK
  <2>4. ASSUME NEW e \in Execs, NEW c \in {"stdin", "close", "sig15", "sig9"}, HandleCommand(e, c) PROVE ExecTypeOK'
    <3>1. Receiver(e) \in Execs \cup {NoExec} /\ CmdOf(c) \in Queued
      BY DEF Receiver, CmdOf, Queued, ExecTypeOK
    <3>2. cmds' \in [Execs -> Seq(Queued)]
      BY <2>4, <3>1 DEF HandleCommand, ExecTypeOK, Queued
    <3>3. QED
      BY <2>4, <3>2 DEF HandleCommand, ExecTypeOK, Queued
  <2>5. ASSUME NEW e \in Execs, Child(e) PROVE ExecTypeOK'
    <3>1. CASE Consume(e)
      BY <3>1, ExecBoundAssumption DEF Consume, ExecTypeOK
    <3>2. CASE Exit(e)
      BY <3>2 DEF Exit, ExecTypeOK, Codes
    <3>3. ASSUME NEW s \in Streams, Write(e, s) PROVE ExecTypeOK'
      <4>1. made' \in [Execs -> [Streams -> Nat]]
        BY <3>3 DEF Write, ExecTypeOK
      <4>2. QED
        BY <3>3, <4>1 DEF Write, ExecTypeOK
    <3>4. QED
      BY <2>5, <3>1, <3>2, <3>3 DEF Child
  <2>6. ASSUME NEW e \in Execs, Threads(e) PROVE ExecTypeOK'
    <3>1. CASE WaitLock(e) \/ WaitExit(e) \/ ForwardDone(e)
      BY <3>1 DEF WaitLock, WaitExit, ForwardDone, ExecTypeOK
    <3>2. CASE ForwardChunk(e)
      <4>1. chunks[e] \in Seq(OutChunk) /\ chunks[e] # <<>> /\ fwd[e] \in Seq(OutChunk)
        BY <3>2 DEF ForwardChunk, ExecTypeOK
      <4>2. Head(chunks[e]) \in OutChunk /\ Tail(chunks[e]) \in Seq(OutChunk)
        BY <4>1
      <4>3. chunks' \in [Execs -> Seq(OutChunk)] /\ fwd' \in [Execs -> Seq(OutChunk)]
        BY <3>2, <4>1, <4>2 DEF ForwardChunk, ExecTypeOK
      <4>4. QED
        BY <3>2, <4>3 DEF ForwardChunk, ExecTypeOK
    <3>3. ASSUME NEW s \in Streams, Read(e, s) PROVE ExecTypeOK'
      <4>0. read[e][s] \in Nat /\ <<s, read[e][s] + 1>> \in OutChunk
        BY DEF ExecTypeOK, OutChunk
      <4>1. read' \in [Execs -> [Streams -> Nat]]
        <5>1. read' = [read EXCEPT ![e] = [read[e] EXCEPT ![s] = read[e][s] + 1]]
          BY <3>3 DEF Read
        <5>2. [read[e] EXCEPT ![s] = read[e][s] + 1] \in [Streams -> Nat]
          BY <4>0 DEF ExecTypeOK
        <5>3. QED
          BY <5>1, <5>2 DEF ExecTypeOK
      <4>2. chunks' \in [Execs -> Seq(OutChunk)]
        BY <3>3, <4>0 DEF Read, ExecTypeOK
      <4>3. QED
        BY <3>3, <4>1, <4>2 DEF Read, ExecTypeOK
    <3>4. QED
      BY <2>6, <3>1, <3>2, <3>3 DEF Threads
  <2>7. ASSUME NEW e \in Execs, Task(e) PROVE ExecTypeOK'
    <3>1. CASE SelectChunk(e)
      <4>1. fwd[e] \in Seq(OutChunk) /\ fwd[e] # <<>>
        BY <3>1 DEF SelectChunk, ExecTypeOK
      <4>2. Tail(fwd[e]) \in Seq(OutChunk) /\ Output(Head(fwd[e])) \in Message
        BY <4>1, Messages
      <4>3. fwd' \in [Execs -> Seq(OutChunk)] /\ wire' \in [Execs -> Seq(Message)]
        BY <3>1, <4>2 DEF SelectChunk, SendMsg, ExecTypeOK
      <4>4. QED
        BY <3>1, <4>3 DEF SelectChunk, ExecTypeOK
    <3>2. CASE SelectDone(e)
      <4>1. wire' \in [Execs -> Seq(Message)]
        BY <3>2, Messages DEF SelectDone, SendMsg, ExecTypeOK
      <4>2. /\ fwd' \in [Execs -> Seq(OutChunk)] /\ cmds' \in [Execs -> Seq(Queued)]
            /\ task' \in [Execs -> {"none", "select", "stdin", "close", "signal", "abandon", "ended"}]
        BY <3>2 DEF SelectDone, EndTask, ExecTypeOK, Queued
      <4>3. open' \in [Execs -> BOOLEAN]
        BY <3>2 DEF SelectDone, EndTask, ExecTypeOK
      <4>4. QED
        BY <3>2, <4>1, <4>2, <4>3 DEF SelectDone, ExecTypeOK, Queued
    <3>3. CASE SelectCommand(e)
      <4>1. cmds[e] \in Seq(Queued) /\ cmds[e] # <<>>
        BY <3>3 DEF SelectCommand, ExecTypeOK, Queued
      <4>2. Head(cmds[e]) \in Queued /\ Tail(cmds[e]) \in Seq(Queued)
        BY <4>1
      <4>3. /\ task' \in [Execs -> {"none", "select", "stdin", "close", "signal", "abandon", "ended"}]
            /\ cmds' \in [Execs -> Seq(Queued)]
        BY <3>3, <4>2 DEF SelectCommand, ExecTypeOK, Queued
      <4>4. QED
        BY <3>3, <4>3 DEF SelectCommand, ExecTypeOK, Queued
    <3>4. CASE SelectClosed(e)
      BY <3>4 DEF SelectClosed, ExecTypeOK
    <3>5. CASE WriteStdin(e)
      <4>1. open' \in [Execs -> BOOLEAN]
        <5>1. open[e] \in BOOLEAN /\ (open[e] /\ task[e] # "close") \in BOOLEAN
          BY DEF ExecTypeOK
        <5>2. QED
          BY <3>5, <5>1 DEF WriteStdin, ExecTypeOK
      <4>2. stdin' \in [Execs -> 0..StdinCap]
        <5>1. CASE task[e] = "stdin" /\ open[e] /\ child[e] = "running"
          <6>1. stdin[e] < StdinCap /\ stdin' = [stdin EXCEPT ![e] = @ + 1]
            BY <3>5, <5>1 DEF WriteStdin
          <6>2. QED
            BY <6>1, ExecBoundAssumption DEF ExecTypeOK
        <5>2. CASE ~ (task[e] = "stdin" /\ open[e] /\ child[e] = "running")
          BY <3>5, <5>2 DEF WriteStdin, ExecTypeOK
        <5>3. QED
          BY <5>1, <5>2
      <4>3. QED
        BY <3>5, <4>1, <4>2 DEF WriteStdin, ExecTypeOK
    <3>6. CASE Signal(e)
      BY <3>6 DEF Signal, KillChild, ExecTypeOK, Codes
    <3>7. CASE Abandon(e)
      <4>1. /\ fwd' \in [Execs -> Seq(OutChunk)] /\ cmds' \in [Execs -> Seq(Queued)]
            /\ task' \in [Execs -> {"none", "select", "stdin", "close", "signal", "abandon", "ended"}]
        BY <3>7 DEF Abandon, EndTask, ExecTypeOK, Queued
      <4>2. open' \in [Execs -> BOOLEAN]
        BY <3>7 DEF Abandon, EndTask, ExecTypeOK
      <4>3. child' \in [Execs -> {"none", "running", "exited"}] /\ status' \in [Execs -> Codes]
        BY <3>7 DEF Abandon, KillChild, ExecTypeOK, Codes
      <4>4. QED
        BY <3>7, <4>1, <4>2, <4>3 DEF Abandon, ExecTypeOK, Queued
    <3>8. QED
      BY <2>7, <3>1, <3>2, <3>3, <3>4, <3>5, <3>6, <3>7 DEF Task
  <2>8. CASE UNCHANGED execVars
    BY <2>8 DEF execVars, ExecTypeOK
  <2>9. QED
    BY <2>1, <2>2, <2>3, <2>4, <2>5, <2>6, <2>7, <2>8 DEF ExecNext, Handler
<1>3. QED
  BY <1>1, <1>2, PTL DEF ExecSpec

-----------------------------------------------------------------------------
(* How an exec ends. *)

GaveUp(e) == \E f \in Execs : id[f] = id[e] /\ client[f] \in {"term", "timedout"}

\* What is known of one exec: it is requested once; its task, its child and its reports
\* go together; signals on their way to it were sent by a client of its id that gave up;
\* it is abandoned only when it was replaced.
Sound(e) ==
    /\ client[e] = "start" => <<e, "exec">> \notin requests
    /\ client[e] = "start" \/ <<e, "exec">> \in requests => child[e] = "none" /\ ~ Reported(e)
    /\ task[e] = "none" <=> child[e] = "none"
    /\ child[e] = "none" => status[e] = "none"
    /\ result[e] # "no" => child[e] = "exited"
    /\ Reported(e) => task[e] \in {"none", "ended"} /\ child[e] \in {"none", "exited"}
    /\ \A c \in {"sig15", "sig9"} : <<e, c>> \in requests => client[e] \in {"term", "timedout"}
    /\ task[e] = "signal" => GaveUp(e)
    /\ \A i \in DOMAIN cmds[e] : cmds[e][i] = "signal" => GaveUp(e)
    /\ task[e] = "abandon" => Replaced(e)
    /\ task[e] = "ended" => Reported(e) \/ Replaced(e)
    /\ child[e] = "exited" /\ status[e] = "none" => Replaced(e) \/ GaveUp(e)
    /\ \A i \in DOMAIN wire[e], c \in Codes :
          wire[e][i] = Done(c) => status[e] = c /\ \A j \in i+1..Len(wire[e]) : wire[e][j] = Started

StreamInv ==
    /\ ExecTypeOK
    /\ \A i \in Ids : exec_map[i] \in Execs => id[exec_map[i]] = i
    /\ \A e \in Execs : Sound(e)

\* A client that gave up stays so, an exec that was replaced too.
LEMMA Forward ==
    ASSUME StreamInv, ExecNext
    PROVE  /\ id' = id
           /\ \A f \in Execs : (GaveUp(f) => GaveUp(f)') /\ (Replaced(f) => Replaced(f)')
           /\ \A i \in Ids : exec_map'[i] \in Execs => id[exec_map'[i]] = i
<1> USE DEF clientVars, servingVars, childVars, threadVars
<1>1. id' = id
  BY DEF ExecNext, Handler, HandleExecRequest, SpawnFailed, SendStarted, HandleCommand, Client, Request, Input, RecvDone, Deadline, DeadlineInteractive,
         Child, Consume, Exit, Write, Threads, WaitLock, WaitExit, ForwardChunk, ForwardDone, Read, Task, SelectChunk,
         SelectDone, SelectCommand, SelectClosed, WriteStdin, Signal, Abandon
<1>2. ASSUME NEW f \in Execs, client[f] \in {"term", "timedout"} PROVE client'[f] \in {"term", "timedout"}
  <2>1. CASE UNCHANGED client
    BY <1>2, <2>1
  <2>2. CASE \E e \in Execs : Client(e)
    BY <1>2, <2>2 DEF Client, Request, Input, RecvDone, Deadline, DeadlineInteractive, StreamInv, ExecTypeOK
  <2>3. QED
    BY <2>1, <2>2 DEF ExecNext, Handler, HandleExecRequest, SpawnFailed, SendStarted, HandleCommand,
         Child, Consume, Exit, Write, Threads, WaitLock, WaitExit, ForwardChunk, ForwardDone, Read, Task, SelectChunk,
         SelectDone, SelectCommand, SelectClosed, WriteStdin, Signal, Abandon
<1>3. ASSUME NEW f \in Execs, child[f] # "none" PROVE child'[f] # "none"
  <2>1. CASE UNCHANGED child
    BY <1>3, <2>1
  <2>2. CASE \E e \in Execs : HandleExecRequest(e) \/ Exit(e) \/ Signal(e) \/ Abandon(e)
    BY <1>3, <2>2 DEF HandleExecRequest, Exit, Signal, Abandon, KillChild, StreamInv, ExecTypeOK
  <2>3. QED
    BY <2>1, <2>2 DEF ExecNext, Handler, SpawnFailed, SendStarted, HandleCommand, Client, Request, Input, RecvDone, Deadline, DeadlineInteractive,
         Child, Consume, Write, Threads, WaitLock, WaitExit, ForwardChunk, ForwardDone, Read, Task, SelectChunk,
         SelectDone, SelectCommand, SelectClosed, WriteStdin
<1>4. UNCHANGED exec_map \/ \E e \in Execs : HandleExecRequest(e)
  BY DEF ExecNext, Handler, SpawnFailed, SendStarted, HandleCommand, Client, Request, Input, RecvDone, Deadline, DeadlineInteractive,
         Child, Consume, Exit, Write, Threads, WaitLock, WaitExit, ForwardChunk, ForwardDone, Read, Task, SelectChunk,
         SelectDone, SelectCommand, SelectClosed, WriteStdin, Signal, Abandon
<1>5. ASSUME NEW f \in Execs, Replaced(f) PROVE Replaced(f)'
  <2>1. child[f] # "none" /\ exec_map[id[f]] # f
    BY <1>5 DEF Replaced
  <2>2. exec_map'[id[f]] # f
    <3>1. CASE UNCHANGED exec_map
      BY <2>1, <3>1
    <3>2. ASSUME NEW e \in Execs, HandleExecRequest(e) PROVE exec_map'[id[f]] # f
      <4>1. e # f
        BY <2>1, <3>2 DEF HandleExecRequest, StreamInv, Sound
      <4>2. QED
        BY <2>1, <3>2, <4>1 DEF HandleExecRequest, StreamInv, ExecTypeOK
    <3>3. QED
      BY <1>4, <3>1, <3>2
  <2>3. QED
    BY <1>1, <1>3, <2>1, <2>2 DEF Replaced
<1>6. ASSUME NEW i \in Ids, exec_map'[i] \in Execs PROVE id[exec_map'[i]] = i
  <2>1. CASE UNCHANGED exec_map
    BY <1>6, <2>1 DEF StreamInv
  <2>2. ASSUME NEW e \in Execs, HandleExecRequest(e) PROVE id[exec_map'[i]] = i
    <3>1. exec_map' = [exec_map EXCEPT ![id[e]] = e] /\ exec_map \in [Ids -> Execs \cup {NoExec}]
      BY <2>2 DEF HandleExecRequest, StreamInv, ExecTypeOK
    <3>2. exec_map'[i] = IF i = id[e] THEN e ELSE exec_map[i]
      BY <3>1
    <3>3. QED
      BY <1>6, <3>2 DEF StreamInv
  <2>3. QED
    BY <1>4, <2>1, <2>2
<1>7. \A f \in Execs : GaveUp(f) => GaveUp(f)'
  BY <1>1, <1>2 DEF GaveUp
<1>8. QED
  BY <1>1, <1>5, <1>6, <1>7

\* An exec that a step does not touch.
LEMMA SoundKept ==
    ASSUME NEW f \in Execs, Sound(f), id' = id, GaveUp(f) => GaveUp(f)', Replaced(f) => Replaced(f)',
           \A c \in Commands : <<f, c>> \in requests' => <<f, c>> \in requests,
           client'[f] = client[f], child'[f] = child[f], status'[f] = status[f], result'[f] = result[f],
           task'[f] = task[f], cmds'[f] = cmds[f], wire'[f] = wire[f]
    PROVE  Sound(f)'
<1>1. Reported(f)' <=> Reported(f)
  BY DEF Reported, Contains
<1> HIDE DEF Reported, GaveUp, Replaced
<1>2. QED
  BY <1>1 DEF Sound, Commands

\* A message is sent.
LEMMA ReportedSent ==
    ASSUME NEW e \in Execs, wire[e] \in Seq(Message), NEW m \in Message, wire'[e] = Append(wire[e], m)
    PROVE  /\ Reported(e)' <=> (Reported(e) \/ \E c \in Codes : m = Done(c))
           /\ Len(wire'[e]) = Len(wire[e]) + 1 /\ wire'[e][Len(wire[e]) + 1] = m
           /\ \A i \in DOMAIN wire[e] : wire'[e][i] = wire[e][i]
           /\ DOMAIN wire'[e] = 1..Len(wire[e]) + 1 /\ Len(wire[e]) \in Nat /\ DOMAIN wire[e] = 1..Len(wire[e])
<1>1. /\ Len(wire'[e]) = Len(wire[e]) + 1 /\ wire'[e][Len(wire[e]) + 1] = m
      /\ \A i \in 1..Len(wire[e]) : wire'[e][i] = wire[e][i]
  OBVIOUS
<1>2. DOMAIN wire'[e] = 1..Len(wire[e]) + 1 /\ DOMAIN wire[e] = 1..Len(wire[e]) /\ Len(wire[e]) \in Nat
  OBVIOUS
<1>3. Reported(e)' <=> \E c \in Codes : \E i \in 1..Len(wire'[e]) : wire'[e][i] = Done(c)
  BY DEF Reported, Contains
<1>4. Reported(e) <=> \E c \in Codes : \E i \in 1..Len(wire[e]) : wire[e][i] = Done(c)
  BY DEF Reported, Contains
<1>5. QED
  BY <1>1, <1>2, <1>3, <1>4

LEMMA SoundStep ==
    ASSUME StreamInv, ExecTypeOK', ExecNext
    PROVE  StreamInv'
<1> USE DEF clientVars, servingVars, childVars, threadVars
<1>0. /\ ExecTypeOK /\ id' = id
      /\ \A f \in Execs : Sound(f) /\ (GaveUp(f) => GaveUp(f)') /\ (Replaced(f) => Replaced(f)')
  BY Forward DEF StreamInv
<1>a. \A f \in Execs : wire[f] \in Seq(Message)
  BY DEF StreamInv, ExecTypeOK
<1> SUFFICES \A f \in Execs : Sound(f)'
  BY Forward DEF StreamInv
<1>1. ASSUME NEW e \in Execs, Request(e) PROVE \A f \in Execs : Sound(f)'
  <2>1. /\ requests' = requests \cup {<<e, "exec">>} /\ client[e] = "start" /\ client'[e] = "drain"
        /\ \A f \in Execs \ {e} : client'[f] = client[f]
        /\ UNCHANGED <<child, status, result, task, cmds, wire>>
    BY <1>0, <1>1 DEF Request, ExecTypeOK
  <2>2. ASSUME NEW f \in Execs \ {e} PROVE Sound(f)'
    BY <1>0, <2>1, SoundKept
  <2>3. Sound(e)'
    <3>1. Reported(e)' <=> Reported(e)
      BY <2>1 DEF Reported, Contains
    <3>2. <<e, "sig15">> \notin requests' /\ <<e, "sig9">> \notin requests'
      BY <1>0, <2>1 DEF Sound
    <3>3. QED
      BY <1>0, <2>1, <3>1, <3>2 DEF Sound
  <2>4. QED
    BY <2>2, <2>3
<1>2. ASSUME NEW e \in Execs, Input(e) PROVE \A f \in Execs : Sound(f)'
  <2>1. PICK c \in {"stdin", "close"} : requests' = requests \cup {<<e, c>>}
    BY <1>2 DEF Input
  <2>2. UNCHANGED <<client, child, status, result, task, cmds, wire>>
    BY <1>2 DEF Input
  <2>3. ASSUME NEW f \in Execs PROVE Sound(f)'
    <3>1. Reported(f)' <=> Reported(f)
      BY <2>2 DEF Reported, Contains
    <3>2. \A d \in {"exec", "sig15", "sig9"} : <<f, d>> \in requests' => <<f, d>> \in requests
      BY <2>1
    <3>3. QED
      BY <1>0, <2>2, <3>1, <3>2 DEF Sound
  <2>4. QED
    BY <2>3
<1>3. ASSUME NEW e \in Execs, RecvDone(e) PROVE \A f \in Execs : Sound(f)'
  <2>1. /\ client[e] = "drain" /\ client'[e] = "done"
        /\ \A f \in Execs \ {e} : client'[f] = client[f]
        /\ UNCHANGED <<requests, child, status, result, task, cmds, wire>>
    BY <1>0, <1>3 DEF RecvDone, ExecTypeOK
  <2>2. ASSUME NEW f \in Execs \ {e} PROVE Sound(f)'
    BY <1>0, <2>1, SoundKept
  <2>3. Sound(e)'
    <3>1. Reported(e)' <=> Reported(e)
      BY <2>1 DEF Reported, Contains
    <3>2. QED
      BY <1>0, <2>1, <3>1 DEF Sound
  <2>4. QED
    BY <2>2, <2>3
<1>4. ASSUME NEW e \in Execs, Deadline(e) \/ DeadlineInteractive(e) PROVE \A f \in Execs : Sound(f)'
  <2>1. PICK C \in SUBSET {"sig15", "sig9"} : requests' = requests \cup {<<e, c>> : c \in C}
    <3>1. \/ requests' = requests
          \/ \E c \in {"sig15", "sig9"} : requests' = requests \cup {<<e, c>>}
      BY <1>4 DEF Deadline, DeadlineInteractive
    <3>2. CASE requests' = requests
      <4>1. requests' = requests \cup {<<e, c>> : c \in {}}
        BY <3>2
      <4> QED BY <4>1
    <3>3. ASSUME NEW c \in {"sig15", "sig9"}, requests' = requests \cup {<<e, c>>}
          PROVE  \E C \in SUBSET {"sig15", "sig9"} : requests' = requests \cup {<<e, x>> : x \in C}
      <4>1. requests' = requests \cup {<<e, x>> : x \in {c}}
        BY <3>3
      <4> QED BY <4>1
    <3> QED BY <3>1, <3>2, <3>3
  <2>2. /\ client[e] \in {"drain", "term"} /\ client'[e] \in {"term", "timedout"}
        /\ \A f \in Execs \ {e} : client'[f] = client[f]
        /\ UNCHANGED <<child, status, result, task, cmds, wire>>
    BY <1>0, <1>4 DEF Deadline, DeadlineInteractive, ExecTypeOK
  <2>3. ASSUME NEW f \in Execs \ {e} PROVE Sound(f)'
    BY <1>0, <2>1, <2>2, SoundKept
  <2>4. Sound(e)'
    <3>1. Reported(e)' <=> Reported(e)
      BY <2>2 DEF Reported, Contains
    <3>2. <<e, "exec">> \in requests' => <<e, "exec">> \in requests
      BY <2>1
    <3>3. QED
      BY <1>0, <2>2, <3>1, <3>2 DEF Sound
  <2>5. QED
    BY <2>3, <2>4
<1>5. ASSUME NEW e \in Execs, HandleExecRequest(e) PROVE \A f \in Execs : Sound(f)'
  <2>1. /\ <<e, "exec">> \in requests /\ requests' = requests \ {<<e, "exec">>}
        /\ child'[e] = "running" /\ task'[e] = "select"
        /\ \A f \in Execs \ {e} : child'[f] = child[f] /\ task'[f] = task[f]
        /\ UNCHANGED <<client, status, result, cmds, wire>>
    BY <1>0, <1>5 DEF HandleExecRequest, ExecTypeOK
  <2>2. ASSUME NEW f \in Execs \ {e} PROVE Sound(f)'
    BY <1>0, <2>1, SoundKept
  <2>3. Sound(e)'
    <3>1. Reported(e)' <=> Reported(e)
      BY <2>1 DEF Reported, Contains
    <3>2. ~ Reported(e) /\ client[e] # "start" /\ child[e] = "none"
      BY <1>0, <2>1 DEF Sound
    <3>3. QED
      BY <1>0, <2>1, <3>1, <3>2 DEF Sound
  <2>4. QED
    BY <2>2, <2>3
<1>6. ASSUME NEW e \in Execs, SpawnFailed(e) PROVE \A f \in Execs : Sound(f)'
  <2>1. /\ <<e, "exec">> \in requests /\ requests' = requests \ {<<e, "exec">>}
        /\ wire'[e] = Append(wire[e], Done("none"))
        /\ \A f \in Execs \ {e} : wire'[f] = wire[f]
        /\ UNCHANGED <<client, child, status, result, task, cmds>>
    BY <1>0, <1>6 DEF SpawnFailed, SendMsg, ExecTypeOK
  <2>2. ASSUME NEW f \in Execs \ {e} PROVE Sound(f)'
    BY <1>0, <2>1, SoundKept
  <2>3. Sound(e)'
    <3>1. ~ Reported(e) /\ client[e] # "start" /\ child[e] = "none" /\ status[e] = "none" /\ task[e] = "none"
      BY <1>0, <2>1 DEF Sound
    <3>a. Done("none") \in Message /\ "none" \in Codes
      BY Messages DEF Codes
    <3>2. /\ Reported(e)' /\ Len(wire'[e]) = Len(wire[e]) + 1 /\ wire'[e][Len(wire[e]) + 1] = Done("none")
          /\ \A i \in DOMAIN wire[e] : wire'[e][i] = wire[e][i]
          /\ DOMAIN wire'[e] = 1..Len(wire[e]) + 1 /\ Len(wire[e]) \in Nat /\ DOMAIN wire[e] = 1..Len(wire[e])
      BY <1>a, <2>1, <3>a, ReportedSent
    <3>3. \A i \in DOMAIN wire[e], c \in Codes : wire[e][i] # Done(c)
      BY <1>0, <3>1 DEF Reported, Contains, ExecTypeOK
    <3>4. ASSUME NEW i \in DOMAIN wire'[e], NEW c \in Codes, wire'[e][i] = Done(c)
          PROVE  c = "none" /\ i = Len(wire[e]) + 1
      BY <3>2, <3>3, <3>4, Messages DEF Codes
    <3>5. QED
      BY <1>0, <2>1, <3>1, <3>2, <3>4 DEF Sound
  <2>4. QED
    BY <2>2, <2>3
<1>7. ASSUME NEW e \in Execs, SendStarted(e) PROVE \A f \in Execs : Sound(f)'
  <2>1. /\ wire'[e] = Append(wire[e], Started)
        /\ \A f \in Execs \ {e} : wire'[f] = wire[f]
        /\ UNCHANGED <<requests, client, child, status, result, task, cmds>>
    BY <1>0, <1>7 DEF SendStarted, SendMsg, ExecTypeOK
  <2>2. ASSUME NEW f \in Execs \ {e} PROVE Sound(f)'
    BY <1>0, <2>1, SoundKept
  <2>3. Sound(e)'
    <3>2. Started \in Message /\ \A c \in Codes : Started # Done(c)
      BY Messages
    <3>1. /\ Reported(e)' <=> Reported(e)
          /\ Len(wire'[e]) = Len(wire[e]) + 1 /\ wire'[e][Len(wire[e]) + 1] = Started
          /\ \A i \in DOMAIN wire[e] : wire'[e][i] = wire[e][i]
          /\ DOMAIN wire'[e] = 1..Len(wire[e]) + 1 /\ Len(wire[e]) \in Nat /\ DOMAIN wire[e] = 1..Len(wire[e])
      BY <1>a, <2>1, <3>2, ReportedSent
    <3>3. ASSUME NEW i \in DOMAIN wire'[e], NEW c \in Codes, wire'[e][i] = Done(c)
          PROVE  status[e] = c /\ \A j \in i+1..Len(wire'[e]) : wire'[e][j] = Started
      <4>1. i \in DOMAIN wire[e] /\ wire[e][i] = Done(c)
        BY <3>1, <3>2, <3>3
      <4>2. status[e] = c /\ \A j \in i+1..Len(wire[e]) : wire[e][j] = Started
        BY <1>0, <4>1 DEF Sound
      <4>3. QED
        BY <3>1, <4>1, <4>2
    <3>4. QED
      BY <1>0, <2>1, <3>1, <3>3 DEF Sound
  <2>4. QED
    BY <2>2, <2>3
<1>8. ASSUME NEW e \in Execs, NEW c \in {"stdin", "close", "sig15", "sig9"}, HandleCommand(e, c)
      PROVE  \A f \in Execs : Sound(f)'
  <2>1. /\ <<e, c>> \in requests /\ requests' \subseteq requests
        /\ UNCHANGED <<client, child, status, result, task, wire>>
    BY <1>8 DEF HandleCommand
  <2>2. ASSUME NEW f \in Execs, cmds'[f] = cmds[f] PROVE Sound(f)'
    BY <1>0, <2>1, <2>2, SoundKept
  <2>3. ASSUME NEW f \in Execs, cmds'[f] # cmds[f] PROVE Sound(f)'
    <3>1. f = Receiver(e) /\ cmds'[f] = Append(cmds[f], CmdOf(c))
      BY <1>0, <1>8, <2>3 DEF HandleCommand, ExecTypeOK
    <3>2. id[f] = id[e]
      BY <1>0, <3>1 DEF Receiver, StreamInv, ExecTypeOK
    <3>3. ASSUME CmdOf(c) = "signal" PROVE GaveUp(f)
      <4>1. c \in {"sig15", "sig9"}
        BY <3>3 DEF CmdOf
      <4>2. client[e] \in {"term", "timedout"}
        BY <1>0, <2>1, <4>1 DEF Sound
      <4>3. QED
        BY <3>2, <4>2 DEF GaveUp
    <3>4. cmds[f] \in Seq(Queued)
      BY <1>0 DEF ExecTypeOK, Queued
    <3>5. \A i \in DOMAIN cmds'[f] : (i \in DOMAIN cmds[f] /\ cmds'[f][i] = cmds[f][i]) \/ cmds'[f][i] = CmdOf(c)
      BY <3>1, <3>4
    <3>6. Reported(f)' <=> Reported(f)
      BY <2>1 DEF Reported, Contains
    <3>7. QED
      BY <1>0, <2>1, <3>3, <3>5, <3>6 DEF Sound
  <2>4. QED
    BY <2>2, <2>3
<1>9. ASSUME UNCHANGED <<client, requests, child, status, result, task, cmds, wire>> PROVE \A f \in Execs : Sound(f)'
  BY <1>0, <1>9, SoundKept
<1>10. ASSUME NEW e \in Execs, Exit(e) PROVE \A f \in Execs : Sound(f)'
  <2>1. /\ child[e] = "running" /\ child'[e] = "exited" /\ status'[e] = "code"
        /\ \A f \in Execs \ {e} : child'[f] = child[f] /\ status'[f] = status[f]
        /\ UNCHANGED <<client, requests, result, task, cmds, wire>>
    BY <1>0, <1>10 DEF Exit, ExecTypeOK
  <2>2. ASSUME NEW f \in Execs \ {e} PROVE Sound(f)'
    BY <1>0, <2>1, SoundKept
  <2>3. Sound(e)'
    <3>1. (Reported(e)' <=> Reported(e)) /\ ~ Reported(e)
      BY <1>0, <2>1 DEF Reported, Contains, Sound
    <3>2. \A i \in DOMAIN wire[e], c \in Codes : wire[e][i] # Done(c)
      BY <1>0, <3>1 DEF Reported, Contains, ExecTypeOK
    <3>3. QED
      BY <1>0, <2>1, <3>1, <3>2 DEF Sound
  <2>4. QED
    BY <2>2, <2>3
<1>11. ASSUME NEW e \in Execs, WaitExit(e) \/ ForwardDone(e) PROVE \A f \in Execs : Sound(f)'
  <2>1. /\ child[e] = "exited" /\ \A f \in Execs \ {e} : result'[f] = result[f]
        /\ UNCHANGED <<client, requests, child, status, task, cmds, wire>>
    <3>1. CASE WaitExit(e)
      BY <1>0, <3>1 DEF WaitExit, ExecTypeOK
    <3>2. CASE ForwardDone(e)
      <4>1. Sound(e) /\ result[e] = "std"
        BY <1>0, <3>2 DEF ForwardDone
      <4>2. child[e] = "exited"
        BY <4>1 DEF Sound
      <4>3. QED
        BY <1>0, <3>2, <4>2 DEF ForwardDone, ExecTypeOK
    <3>3. QED
      BY <1>11, <3>1, <3>2
  <2>2. ASSUME NEW f \in Execs \ {e} PROVE Sound(f)'
    BY <1>0, <2>1, SoundKept
  <2>3. Sound(e)'
    <3>1. Reported(e)' <=> Reported(e)
      BY <2>1 DEF Reported, Contains
    <3>2. QED
      BY <1>0, <2>1, <3>1 DEF Sound
  <2>4. QED
    BY <2>2, <2>3
<1>12. ASSUME NEW e \in Execs, SelectChunk(e) PROVE \A f \in Execs : Sound(f)'
  <2> DEFINE m == Output(Head(fwd[e]))
  <2>1. /\ task[e] = "select" /\ wire'[e] = Append(wire[e], m)
        /\ \A f \in Execs \ {e} : wire'[f] = wire[f]
        /\ UNCHANGED <<client, requests, child, status, result, task, cmds>>
    BY <1>0, <1>12 DEF SelectChunk, SendMsg, ExecTypeOK
  <2>2. ASSUME NEW f \in Execs \ {e} PROVE Sound(f)'
    BY <1>0, <2>1, SoundKept
  <2>3. Head(fwd[e]) \in OutChunk
    BY <1>0, <1>12 DEF SelectChunk, ExecTypeOK
  <2>4. m \in Message /\ m[1] = "chunk"
    BY <2>3, Messages
  <2> HIDE DEF m
  <2>5. Sound(e)'
    <3>1. \A c \in Codes : m # Done(c)
      BY <2>4, Messages
    <3>2. ~ Reported(e)
      BY <1>0, <2>1 DEF Sound
    <3>3. ~ Reported(e)'
      BY <1>a, <2>1, <2>4, <3>1, <3>2, ReportedSent
    <3>4. \A i \in DOMAIN wire'[e], c \in Codes : wire'[e][i] # Done(c)
      <4>1. wire'[e] \in Seq(Message)
        BY DEF ExecTypeOK
      <4>2. QED
        BY <3>3, <4>1 DEF Reported, Contains
    <3>5. QED
      BY <1>0, <2>1, <3>2, <3>3, <3>4 DEF Sound
  <2>6. QED
    BY <2>2, <2>5
<1>13. ASSUME NEW e \in Execs, SelectDone(e) PROVE \A f \in Execs : Sound(f)'
  <2> DEFINE m == Done(status[e])
  <2>1. /\ task[e] = "select" /\ result[e] = "task" /\ result'[e] = "no" /\ task'[e] = "ended" /\ cmds'[e] = <<>>
        /\ wire'[e] = Append(wire[e], m)
        /\ \A f \in Execs \ {e} : wire'[f] = wire[f] /\ result'[f] = result[f] /\ task'[f] = task[f] /\ cmds'[f] = cmds[f]
        /\ UNCHANGED <<client, requests, child, status>>
    BY <1>0, <1>13 DEF SelectDone, EndTask, SendMsg, ExecTypeOK
  <2>2. ASSUME NEW f \in Execs \ {e} PROVE Sound(f)'
    BY <1>0, <2>1, SoundKept
  <2>3. status[e] \in Codes /\ m \in Message
    BY <1>0, Messages DEF ExecTypeOK
  <2>4. Sound(e)'
    <3>1. ~ Reported(e) /\ child[e] = "exited"
      BY <1>0, <2>1 DEF Sound
    <3>2. /\ Reported(e)' /\ Len(wire'[e]) = Len(wire[e]) + 1 /\ wire'[e][Len(wire[e]) + 1] = m
          /\ \A i \in DOMAIN wire[e] : wire'[e][i] = wire[e][i]
          /\ DOMAIN wire'[e] = 1..Len(wire[e]) + 1 /\ Len(wire[e]) \in Nat /\ DOMAIN wire[e] = 1..Len(wire[e])
      BY <1>a, <2>1, <2>3, ReportedSent
    <3>3. \A i \in DOMAIN wire[e], c \in Codes : wire[e][i] # Done(c)
      BY <1>0, <3>1 DEF Reported, Contains, ExecTypeOK
    <3>4. ASSUME NEW i \in DOMAIN wire'[e], NEW c \in Codes, wire'[e][i] = Done(c)
          PROVE  status[e] = c /\ i = Len(wire[e]) + 1
      <4>1. i = Len(wire[e]) + 1
        BY <3>2, <3>3, <3>4
      <4>2. Done(status[e]) = Done(c)
        BY <3>2, <3>4, <4>1
      <4>3. QED
        BY <2>3, <4>1, <4>2, Messages
    <3>5. client[e] # "start" /\ <<e, "exec">> \notin requests
      BY <1>0, <3>1 DEF Sound
    <3>6. QED
      BY <1>0, <2>1, <3>1, <3>2, <3>4, <3>5 DEF Sound
  <2>5. QED
    BY <2>2, <2>4
<1>14. ASSUME NEW e \in Execs, SelectCommand(e) PROVE \A f \in Execs : Sound(f)'
  <2>1. /\ task[e] = "select" /\ task'[e] = Head(cmds[e]) /\ cmds[e] # <<>> /\ cmds'[e] = Tail(cmds[e])
        /\ \A f \in Execs \ {e} : task'[f] = task[f] /\ cmds'[f] = cmds[f]
        /\ UNCHANGED <<client, requests, child, status, result, wire>>
    BY <1>0, <1>14 DEF SelectCommand, ExecTypeOK
  <2>2. ASSUME NEW f \in Execs \ {e} PROVE Sound(f)'
    BY <1>0, <2>1, SoundKept
  <2>3. cmds[e] \in Seq(Queued)
    BY <1>0 DEF ExecTypeOK, Queued
  <2>4. /\ Head(cmds[e]) \in Queued /\ Head(cmds[e]) = cmds[e][1] /\ 1 \in DOMAIN cmds[e]
        /\ \A i \in DOMAIN Tail(cmds[e]) : i + 1 \in DOMAIN cmds[e] /\ Tail(cmds[e])[i] = cmds[e][i + 1]
    BY <2>1, <2>3
  <2>5. Sound(e)'
    <3>1. Reported(e)' <=> Reported(e)
      BY <2>1 DEF Reported, Contains
    <3>2. \A i \in DOMAIN cmds[e] : cmds[e][i] = "signal" => GaveUp(e)'
      BY <1>0 DEF Sound
    <3>3. task'[e] \in Queued /\ (task'[e] = "signal" => GaveUp(e)')
      BY <2>1, <2>4, <3>2
    <3>4. \A i \in DOMAIN cmds'[e] : cmds'[e][i] = "signal" => GaveUp(e)'
      BY <2>1, <2>4, <3>2
    <3>5. QED
      BY <1>0, <2>1, <3>1, <3>3, <3>4 DEF Sound, Queued
  <2>6. QED
    BY <2>2, <2>5
<1>15. ASSUME NEW e \in Execs, SelectClosed(e) PROVE \A f \in Execs : Sound(f)'
  <2>1. /\ task[e] = "select" /\ task'[e] = "abandon" /\ exec_map[id[e]] # e
        /\ \A f \in Execs \ {e} : task'[f] = task[f]
        /\ UNCHANGED <<client, requests, child, status, result, cmds, wire>>
    BY <1>0, <1>15 DEF SelectClosed, ExecTypeOK
  <2>2. ASSUME NEW f \in Execs \ {e} PROVE Sound(f)'
    BY <1>0, <2>1, SoundKept
  <2>3. Sound(e)'
    <3>1. Reported(e)' <=> Reported(e)
      BY <2>1 DEF Reported, Contains
    <3>2. Replaced(e)
      BY <1>0, <2>1 DEF Replaced, Sound
    <3>3. QED
      BY <1>0, <2>1, <3>1, <3>2 DEF Sound
  <2>4. QED
    BY <2>2, <2>3
<1>16. ASSUME NEW e \in Execs, WriteStdin(e) PROVE \A f \in Execs : Sound(f)'
  <2>1. /\ task[e] \in {"stdin", "close"} /\ task'[e] = "select"
        /\ \A f \in Execs \ {e} : task'[f] = task[f]
        /\ UNCHANGED <<client, requests, child, status, result, cmds, wire>>
    BY <1>0, <1>16 DEF WriteStdin, ExecTypeOK
  <2>2. ASSUME NEW f \in Execs \ {e} PROVE Sound(f)'
    BY <1>0, <2>1, SoundKept
  <2>3. Sound(e)'
    <3>1. Reported(e)' <=> Reported(e)
      BY <2>1 DEF Reported, Contains
    <3>2. QED
      BY <1>0, <2>1, <3>1 DEF Sound
  <2>4. QED
    BY <2>2, <2>3
<1>17. ASSUME NEW e \in Execs, Signal(e) \/ Abandon(e) PROVE \A f \in Execs : Sound(f)'
  <2>1. /\ \/ task[e] = "signal" /\ task'[e] = "select" /\ cmds'[e] = cmds[e]
           \/ task[e] = "abandon" /\ task'[e] = "ended" /\ cmds'[e] = <<>>
        /\ \/ child'[e] = child[e] /\ status'[e] = status[e]
           \/ child[e] = "running" /\ child'[e] = "exited" /\ status'[e] = "none"
        /\ \A f \in Execs \ {e} : task'[f] = task[f] /\ cmds'[f] = cmds[f] /\ child'[f] = child[f] /\ status'[f] = status[f]
        /\ UNCHANGED <<client, requests, result, wire>>
    BY <1>0, <1>17 DEF Signal, Abandon, KillChild, EndTask, ExecTypeOK
  <2>2. ASSUME NEW f \in Execs \ {e} PROVE Sound(f)'
    BY <1>0, <2>1, SoundKept
  <2>3. Sound(e)'
    <3>1. (Reported(e)' <=> Reported(e)) /\ ~ Reported(e)
      BY <1>0, <2>1 DEF Reported, Contains, Sound
    <3>2. (task[e] = "signal" => GaveUp(e)') /\ (task[e] = "abandon" => Replaced(e)')
      BY <1>0 DEF Sound
    <3>3. \A i \in DOMAIN wire[e], c \in Codes : wire[e][i] # Done(c)
      BY <1>0, <3>1 DEF Reported, Contains, ExecTypeOK
    <3>4. \A i \in DOMAIN cmds'[e] : cmds'[e][i] = "signal" => GaveUp(e)'
      <4>1. \A i \in DOMAIN cmds[e] : cmds[e][i] = "signal" => GaveUp(e)'
        BY <1>0 DEF Sound
      <4>2. cmds'[e] = cmds[e] \/ cmds'[e] = <<>>
        BY <2>1
      <4>3. QED
        BY <4>1, <4>2
    <3>5. QED
      BY <1>0, <2>1, <3>1, <3>2, <3>3, <3>4 DEF Sound
  <2>4. QED
    BY <2>2, <2>3
<1>18. ASSUME NEW e \in Execs, Consume(e) \/ WaitLock(e) \/ ForwardChunk(e) PROVE \A f \in Execs : Sound(f)'
  BY <1>9, <1>18 DEF Consume, WaitLock, ForwardChunk
<1>19. ASSUME NEW e \in Execs, NEW s \in Streams, Write(e, s) \/ Read(e, s) PROVE \A f \in Execs : Sound(f)'
  BY <1>9, <1>19 DEF Write, Read
<1>20. QED
  BY <1>1, <1>2, <1>3, <1>4, <1>5, <1>6, <1>7, <1>8, <1>10, <1>11, <1>12, <1>13, <1>14, <1>15, <1>16, <1>17, <1>18,
     <1>19 DEF ExecNext, Handler, Client, Child, Threads, Task

LEMMA StreamInvHolds == ExecSpec => []StreamInv
<1>1. ExecInit => StreamInv
  <2> SUFFICES ASSUME ExecInit, ExecTypeOK PROVE StreamInv
    BY StreamTypesInit
  <2>1. ASSUME NEW e \in Execs PROVE Sound(e)
    <3>1. /\ client[e] = "start" /\ requests = {} /\ child[e] = "none" /\ status[e] = "none" /\ result[e] = "no"
          /\ task[e] = "none" /\ cmds[e] = <<>> /\ wire[e] = <<>>
      BY DEF ExecInit
    <3>2. ~ Reported(e)
      BY <3>1 DEF Reported, Contains
    <3>3. QED
      BY <3>1, <3>2 DEF Sound
  <2>2. QED
    BY <2>1, NoExecAssumption DEF ExecInit, StreamInv
<1>2. StreamInv /\ ExecTypeOK' /\ [ExecNext]_execVars => StreamInv'
  <2>1. ASSUME StreamInv, ExecTypeOK', UNCHANGED execVars PROVE StreamInv'
    <3>1. /\ UNCHANGED <<id, client, requests, exec_map, child, status, result, task, cmds, wire>>
      BY <2>1 DEF execVars, clientVars, servingVars, childVars, threadVars
    <3>2. \A f \in Execs : (GaveUp(f) => GaveUp(f)') /\ (Replaced(f) => Replaced(f)')
      BY <3>1 DEF GaveUp, Replaced
    <3>3. \A f \in Execs : Sound(f)'
      BY <2>1, <3>1, <3>2, SoundKept DEF StreamInv
    <3>4. QED
      BY <2>1, <3>1, <3>3 DEF StreamInv
  <2>2. QED
    BY <2>1, SoundStep
<1>3. QED
  BY <1>1, <1>2, StreamTypes, PTL DEF ExecSpec

\* At most one ExecDone is sent for an exec, nothing but a late ExecStarted follows it,
\* and it has the exit status of a child that has exited, or of one that was not spawned
\* (main.rs, run_exec_task; shell/lib.rs, spawn_streaming).
THEOREM DoneStaysFinal == ExecSpec => []DoneIsFinal
<1>1. StreamInv => DoneIsFinal
  <2> SUFFICES ASSUME StreamInv, NEW e \in Execs, NEW i \in DOMAIN wire[e], NEW c \in Codes, wire[e][i] = Done(c)
               PROVE  /\ \A j \in i+1..Len(wire[e]) : wire[e][j] = Started
                      /\ child[e] \in {"none", "exited"}
                      /\ status[e] = c
    BY DEF DoneIsFinal
  <2>1. Sound(e) /\ wire[e] \in Seq(Message)
    BY DEF StreamInv, ExecTypeOK
  <2>2. Reported(e)
    BY <2>1 DEF Reported, Contains
  <2>3. QED
    BY <2>1, <2>2 DEF Sound
<1>2. QED
  BY <1>1, StreamInvHolds, PTL

\* A child dies of a signal only if a client that uses its id gave up or a later exec took
\* its entry in exec_map, for any number of clients and ids (main.rs, exec_map, ExecSignal).
THEOREM KillsHaveCause == ExecSpec => []KilledForCause
<1>1. StreamInv => KilledForCause
  BY DEF StreamInv, Sound, KilledForCause, GaveUp
<1>2. QED
  BY <1>1, StreamInvHolds, PTL

\* A task ends without ExecDone only if a later exec took its entry in exec_map (main.rs,
\* run_exec_task).
THEOREM AbandonsHaveCause == ExecSpec => []AbandonedOnlyIfReplaced
<1>1. StreamInv => AbandonedOnlyIfReplaced
  BY DEF StreamInv, Sound, AbandonedOnlyIfReplaced
<1>2. QED
  BY <1>1, StreamInvHolds, PTL

-----------------------------------------------------------------------------
(* The order of the output. *)

\* The chunks of stream s in q are lo + 1 .. hi, in this order, among others.
Consecutive(q, s, lo, hi) ==
    /\ lo <= hi
    /\ \A i \in DOMAIN q : q[i][1] = s => lo < q[i][2] /\ q[i][2] <= hi
    /\ \A i, j \in DOMAIN q : i < j /\ q[i][1] = s /\ q[j][1] = s => q[i][2] < q[j][2]
    /\ \A n \in Nat : lo < n /\ n <= hi => \E i \in DOMAIN q : q[i] = <<s, n>>

\* The same of the messages on the wire, from 1.
SentUpTo(q, s, hi) ==
    /\ \A i \in DOMAIN q : q[i][1] = "chunk" /\ q[i][2][1] = s => q[i][2][2] <= hi
    /\ \A i, j \in DOMAIN q : i < j /\ q[i][1] = "chunk" /\ q[j][1] = "chunk" /\ q[i][2][1] = s /\ q[j][2][1] = s =>
          q[i][2][2] < q[j][2][2]
    /\ \A n \in Nat : 0 < n /\ n <= hi => \E i \in DOMAIN q : q[i] = Output(<<s, n>>)

LEMMA ConsecutiveAppend ==
    ASSUME NEW q \in Seq(OutChunk), NEW s \in Streams, NEW lo \in Nat, NEW hi \in Nat, Consecutive(q, s, lo, hi),
           NEW k \in OutChunk
    PROVE  /\ k[1] # s => Consecutive(Append(q, k), s, lo, hi)
           /\ k = <<s, hi + 1>> => Consecutive(Append(q, k), s, lo, hi + 1)
<1> DEFINE p == Append(q, k)
<1>1. /\ DOMAIN p = 1..Len(q) + 1 /\ DOMAIN q = 1..Len(q) /\ Len(q) \in Nat
      /\ p[Len(q) + 1] = k /\ \A i \in DOMAIN q : p[i] = q[i]
  OBVIOUS
<1>2. \A i \in DOMAIN q : q[i] \in OutChunk
  OBVIOUS
<1> HIDE DEF p
<1>3. ASSUME k[1] # s PROVE Consecutive(p, s, lo, hi)
  <2>1. \A i \in DOMAIN p : p[i][1] = s => i \in DOMAIN q /\ p[i] = q[i]
    BY <1>1, <1>3
  <2>2. \A i \in DOMAIN q : i \in DOMAIN p /\ p[i] = q[i]
    BY <1>1
  <2>3. QED
    BY <2>1, <2>2 DEF Consecutive
<1>4. ASSUME k = <<s, hi + 1>> PROVE Consecutive(p, s, lo, hi + 1)
  <2>1. lo <= hi + 1
    BY DEF Consecutive
  <2>2. ASSUME NEW i \in DOMAIN p, p[i][1] = s PROVE lo < p[i][2] /\ p[i][2] <= hi + 1
    BY <1>1, <1>2, <1>4, <2>2 DEF Consecutive, OutChunk
  <2>3. ASSUME NEW i \in DOMAIN p, NEW j \in DOMAIN p, i < j, p[i][1] = s, p[j][1] = s PROVE p[i][2] < p[j][2]
    <3>1. i \in DOMAIN q /\ p[i] = q[i] /\ q[i][2] \in Nat /\ q[i][2] <= hi
      BY <1>1, <1>2, <2>3 DEF Consecutive, OutChunk
    <3>2. CASE j \in DOMAIN q
      BY <1>1, <2>3, <3>1, <3>2 DEF Consecutive
    <3>3. CASE j = Len(q) + 1
      <4>1. p[j][2] = hi + 1
        BY <1>1, <1>4, <3>3
      <4>2. QED
        BY <3>1, <4>1
    <3>4. QED
      BY <1>1, <3>2, <3>3
  <2>4. ASSUME NEW n \in Nat, lo < n, n <= hi + 1 PROVE \E i \in DOMAIN p : p[i] = <<s, n>>
    <3>1. CASE n = hi + 1
      BY <1>1, <1>4, <3>1
    <3>2. CASE n <= hi
      <4>1. PICK i \in DOMAIN q : q[i] = <<s, n>>
        BY <2>4, <3>2 DEF Consecutive
      <4>2. QED
        BY <1>1, <4>1
    <3>3. QED
      BY <2>4, <3>1, <3>2
  <2>5. QED
    BY <2>1, <2>2, <2>3, <2>4 DEF Consecutive
<1>5. QED
  BY <1>3, <1>4 DEF p

LEMMA ConsecutiveTail ==
    ASSUME NEW q \in Seq(OutChunk), q # <<>>, NEW s \in Streams, NEW lo \in Nat, NEW hi \in Nat, Consecutive(q, s, lo, hi)
    PROVE  /\ Head(q)[1] # s => Consecutive(Tail(q), s, lo, hi)
           /\ Head(q)[1] = s => Head(q) = <<s, lo + 1>> /\ Consecutive(Tail(q), s, lo + 1, hi)
<1> DEFINE p == Tail(q)
           h == Head(q)
<1>1. /\ Len(q) \in Nat /\ Len(q) > 0 /\ DOMAIN q = 1..Len(q) /\ DOMAIN p = 1..Len(q) - 1
      /\ h = q[1] /\ \A i \in DOMAIN p : p[i] = q[i + 1]
  OBVIOUS
<1>2. \A i \in DOMAIN q : q[i] \in OutChunk
  OBVIOUS
<1> HIDE DEF p, h
<1>3. \A i \in DOMAIN q : i = 1 \/ (i - 1 \in DOMAIN p /\ p[i - 1] = q[i])
  BY <1>1
<1>4. \A i \in DOMAIN p : i + 1 \in DOMAIN q /\ i + 1 > 1 /\ p[i] = q[i + 1]
  BY <1>1
<1>5. \A i, j \in DOMAIN p : i < j /\ p[i][1] = s /\ p[j][1] = s => p[i][2] < p[j][2]
  BY <1>1, <1>4 DEF Consecutive
<1>6. ASSUME h[1] # s PROVE Consecutive(p, s, lo, hi)
  <2>1. \A n \in Nat : lo < n /\ n <= hi => \E i \in DOMAIN p : p[i] = <<s, n>>
    <3> SUFFICES ASSUME NEW n \in Nat, lo < n, n <= hi PROVE \E i \in DOMAIN p : p[i] = <<s, n>>
      OBVIOUS
    <3>1. PICK i \in DOMAIN q : q[i] = <<s, n>>
      BY DEF Consecutive
    <3>2. i # 1
      BY <1>1, <1>6, <3>1
    <3>3. QED
      BY <1>3, <3>1, <3>2
  <2>2. \A i \in DOMAIN p : p[i][1] = s => lo < p[i][2] /\ p[i][2] <= hi
    BY <1>4 DEF Consecutive
  <2>3. QED
    BY <1>5, <2>1, <2>2 DEF Consecutive
<1>7. ASSUME h[1] = s PROVE h = <<s, lo + 1>> /\ Consecutive(p, s, lo + 1, hi)
  <2>1. h \in OutChunk /\ h[2] \in Nat /\ lo < h[2] /\ h[2] <= hi
    BY <1>1, <1>2, <1>7 DEF Consecutive, OutChunk
  <2>2. PICK i \in DOMAIN q : q[i] = <<s, lo + 1>>
    BY <2>1 DEF Consecutive
  <2>3. i = 1
    <3>1. ASSUME i # 1 PROVE FALSE
      <4>1. 1 < i /\ 1 \in DOMAIN q /\ q[1][1] = s /\ q[i][1] = s /\ q[i][2] = lo + 1
        BY <1>1, <1>7, <2>2, <3>1
      <4>2. q[1][2] < q[i][2]
        BY <2>2, <4>1 DEF Consecutive
      <4>3. QED
        BY <1>1, <2>1, <4>1, <4>2
    <3>2. QED
      BY <3>1
  <2>4. h = <<s, lo + 1>>
    BY <1>1, <2>2, <2>3
  <2>5. ASSUME NEW j \in DOMAIN p, p[j][1] = s PROVE lo + 1 < p[j][2] /\ p[j][2] <= hi
    <3>1. 1 < j + 1 /\ j + 1 \in DOMAIN q /\ 1 \in DOMAIN q /\ p[j] = q[j + 1]
      BY <1>1, <1>4
    <3>2. q[1][2] < q[j + 1][2] /\ q[j + 1][2] <= hi
      BY <1>1, <1>7, <2>5, <3>1 DEF Consecutive
    <3>3. QED
      BY <1>1, <2>4, <3>1, <3>2
  <2>6. ASSUME NEW n \in Nat, lo + 1 < n, n <= hi PROVE \E j \in DOMAIN p : p[j] = <<s, n>>
    <3>1. PICK j \in DOMAIN q : q[j] = <<s, n>>
      BY <2>6 DEF Consecutive
    <3>2. j # 1
      <4>1. q[j][2] = n /\ q[1][2] = lo + 1
        BY <1>1, <2>4, <3>1
      <4>2. QED
        BY <2>6, <4>1
    <3>3. QED
      BY <1>3, <3>1, <3>2
  <2>7. lo + 1 <= hi
    BY <2>1
  <2>8. Consecutive(p, s, lo + 1, hi)
    BY <1>5, <2>5, <2>6, <2>7 DEF Consecutive
  <2>9. QED
    BY <2>4, <2>8
<1>8. QED
  BY <1>6, <1>7 DEF p, h

LEMMA SentAppend ==
    ASSUME NEW q \in Seq(Message), NEW s \in Streams, NEW hi \in Nat, SentUpTo(q, s, hi), NEW m \in Message
    PROVE  /\ m[1] # "chunk" => SentUpTo(Append(q, m), s, hi)
           /\ \A k \in OutChunk : k[1] # s /\ m = Output(k) => SentUpTo(Append(q, m), s, hi)
           /\ m = Output(<<s, hi + 1>>) => SentUpTo(Append(q, m), s, hi + 1)
<1> DEFINE p == Append(q, m)
<1>1. /\ DOMAIN p = 1..Len(q) + 1 /\ DOMAIN q = 1..Len(q) /\ Len(q) \in Nat
      /\ p[Len(q) + 1] = m /\ \A i \in DOMAIN q : p[i] = q[i]
  OBVIOUS
<1>2. \A i \in DOMAIN q : q[i][1] = "chunk" => q[i][2] \in OutChunk
  <2>1. \A i \in DOMAIN q : q[i] \in Message
    OBVIOUS
  <2>2. \A x \in Message : x[1] = "chunk" => x[2] \in OutChunk
    BY DEF Message, Started, Done
  <2>3. QED
    BY <2>1, <2>2
<1> HIDE DEF p
<1>3. ASSUME m[1] # "chunk" \/ m[2][1] # s PROVE SentUpTo(p, s, hi)
  BY <1>1, <1>3 DEF SentUpTo
<1>4. ASSUME m = Output(<<s, hi + 1>>) PROVE SentUpTo(p, s, hi + 1)
  <2>0. m[1] = "chunk" /\ m[2][1] = s /\ m[2][2] = hi + 1
    BY <1>4 DEF Output
  <2>1. ASSUME NEW i \in DOMAIN p, p[i][1] = "chunk", p[i][2][1] = s
        PROVE  p[i][2][2] <= hi + 1 /\ (i \in DOMAIN q => p[i][2][2] < hi + 1)
    BY <1>1, <1>2, <2>0, <2>1 DEF SentUpTo, OutChunk
  <2>2. ASSUME NEW i \in DOMAIN p, NEW j \in DOMAIN p, i < j, p[i][1] = "chunk", p[j][1] = "chunk",
               p[i][2][1] = s, p[j][2][1] = s
        PROVE  p[i][2][2] < p[j][2][2]
    <3>1. i \in DOMAIN q
      BY <1>1, <2>2
    <3>2. CASE j \in DOMAIN q
      BY <1>1, <2>2, <3>1, <3>2 DEF SentUpTo
    <3>3. CASE j = Len(q) + 1
      BY <1>1, <2>0, <2>1, <2>2, <3>1, <3>3
    <3>4. QED
      BY <1>1, <2>2, <3>2, <3>3
  <2>3. ASSUME NEW n \in Nat, 0 < n, n <= hi + 1 PROVE \E i \in DOMAIN p : p[i] = Output(<<s, n>>)
    <3>1. CASE n = hi + 1
      BY <1>1, <1>4, <3>1
    <3>2. CASE n <= hi
      <4>1. PICK i \in DOMAIN q : q[i] = Output(<<s, n>>)
        BY <2>3, <3>2 DEF SentUpTo
      <4>2. QED
        BY <1>1, <4>1
    <3>3. QED
      BY <2>3, <3>1, <3>2
  <2>4. QED
    BY <2>1, <2>2, <2>3 DEF SentUpTo
<1>5. ASSUME NEW k \in OutChunk, k[1] # s, m = Output(k) PROVE m[2][1] # s
  BY <1>5, Messages
<1>6. QED
  BY <1>3, <1>4, <1>5 DEF p

\* On its way from the reader thread through both channels to the wire, a stream stays
\* in order; an ended task only loses what was not sent.
Ordered(e, s) ==
    \E w, f \in Nat :
        /\ SentUpTo(wire[e], s, w)
        /\ task[e] # "ended" => Consecutive(fwd[e], s, w, f) /\ Consecutive(chunks[e], s, f, read[e][s])

LEMMA OrderKept ==
    ASSUME NEW e \in Execs, NEW s \in Streams, Ordered(e, s), wire'[e] = wire[e],
           task'[e] # "ended" => /\ task[e] # "ended" /\ fwd'[e] = fwd[e]
                                 /\ chunks'[e] = chunks[e] /\ read'[e][s] = read[e][s]
    PROVE  Ordered(e, s)'
BY DEF Ordered

LEMMA OrderStep ==
    ASSUME StreamInv, \A x \in Execs, y \in Streams : Ordered(x, y), ExecNext, NEW e \in Execs, NEW s \in Streams
    PROVE  Ordered(e, s)'
<1> USE DEF clientVars, servingVars, childVars, threadVars
<1>1. /\ wire \in [Execs -> Seq(Message)] /\ fwd \in [Execs -> Seq(OutChunk)] /\ chunks \in [Execs -> Seq(OutChunk)]
      /\ read \in [Execs -> [Streams -> Nat]]
      /\ task \in [Execs -> {"none", "select", "stdin", "close", "signal", "abandon", "ended"}]
      /\ status \in [Execs -> Codes]
  BY DEF StreamInv, ExecTypeOK
<1>2. PICK w, f \in Nat :
        /\ SentUpTo(wire[e], s, w)
        /\ task[e] # "ended" => Consecutive(fwd[e], s, w, f) /\ Consecutive(chunks[e], s, f, read[e][s])
  BY DEF Ordered
<1>3. CASE UNCHANGED <<wire, task, fwd, chunks, read>>
  BY <1>3, OrderKept
<1>4. ASSUME NEW x \in Execs, HandleExecRequest(x) PROVE Ordered(e, s)'
  <2>1. UNCHANGED <<wire, fwd, chunks, read>>
    BY <1>4 DEF HandleExecRequest
  <2>2. CASE x # e
    <3>1. task'[e] = task[e]
      BY <1>1, <1>4, <2>2 DEF HandleExecRequest
    <3>2. QED
      BY <2>1, <3>1, OrderKept
  <2>3. CASE x = e
    <3>1. task[e] = "none"
      BY <1>4, <2>3 DEF HandleExecRequest, StreamInv, Sound
    <3>2. QED
      BY <2>1, <3>1, OrderKept
  <2>4. QED
    BY <2>2, <2>3
<1>5. ASSUME NEW x \in Execs, NEW m \in Message, m[1] # "chunk", wire' = [wire EXCEPT ![x] = Append(@, m)],
             UNCHANGED <<chunks, read>>,
             UNCHANGED <<task, fwd>> \/ EndTask(x)
      PROVE  Ordered(e, s)'
  <2>1. CASE x # e
    <3>1. wire'[e] = wire[e] /\ task'[e] = task[e] /\ fwd'[e] = fwd[e]
      BY <1>1, <1>5, <2>1 DEF EndTask
    <3>2. QED
      BY <1>5, <3>1, OrderKept
  <2>2. CASE x = e
    <3>1. wire'[e] = Append(wire[e], m) /\ (task'[e] = "ended" \/ (task'[e] = task[e] /\ fwd'[e] = fwd[e]))
      BY <1>1, <1>5, <2>2 DEF EndTask
    <3>2. SentUpTo(wire'[e], s, w)
      BY <1>1, <1>2, <1>5, <3>1, SentAppend
    <3>3. QED
      BY <1>2, <1>5, <3>1, <3>2 DEF Ordered
  <2>3. QED
    BY <2>1, <2>2
<1>6. ASSUME NEW x \in Execs, SpawnFailed(x) PROVE Ordered(e, s)'
  BY <1>5, <1>6, Messages DEF SpawnFailed, SendMsg, Codes
<1>7. ASSUME NEW x \in Execs, SendStarted(x) PROVE Ordered(e, s)'
  BY <1>5, <1>7, Messages DEF SendStarted, SendMsg
<1>8. ASSUME NEW x \in Execs, SelectDone(x) PROVE Ordered(e, s)'
  <2>1. Done(status[x]) \in Message /\ Done(status[x])[1] # "chunk"
    BY <1>1, Messages
  <2>2. QED
    BY <1>5, <1>8, <2>1 DEF SelectDone, SendMsg
<1>9. ASSUME NEW x \in Execs, NEW r \in Streams, Read(x, r) PROVE Ordered(e, s)'
  <2>1. UNCHANGED <<wire, task, fwd>>
    BY <1>9 DEF Read
  <2>2. CASE x # e
    <3>1. chunks'[e] = chunks[e] /\ read'[e] = read[e]
      BY <1>1, <1>9, <2>2 DEF Read
    <3>2. QED
      BY <2>1, <3>1, OrderKept
  <2>3. CASE x = e
    <3> DEFINE n == read[e][r] + 1
    <3>1. n \in Nat /\ <<r, n>> \in OutChunk /\ <<r, n>>[1] = r
      BY <1>1 DEF OutChunk
    <3>2. chunks'[e] = Append(chunks[e], <<r, n>>)
      BY <1>1, <1>9, <2>3 DEF Read
    <3>3. read'[e][r] = n /\ \A q \in Streams \ {r} : read'[e][q] = read[e][q]
      <4>1. read' = [read EXCEPT ![e] = [read[e] EXCEPT ![r] = n]] /\ read[e] \in [Streams -> Nat]
        BY <1>1, <1>9, <2>3 DEF Read
      <4>2. read'[e] = [read[e] EXCEPT ![r] = n]
        BY <1>1, <4>1
      <4> HIDE DEF n
      <4>3. QED
        BY <4>1, <4>2
    <3>4. chunks[e] \in Seq(OutChunk) /\ read[e][s] \in Nat
      BY <1>1
    <3>5. ASSUME task[e] # "ended" PROVE Consecutive(chunks'[e], s, f, read'[e][s])
      <4>1. Consecutive(chunks[e], s, f, read[e][s])
        BY <1>2, <3>5
      <4>2. CASE r = s
        BY <3>1, <3>2, <3>3, <3>4, <4>1, <4>2, ConsecutiveAppend
      <4>3. CASE r # s
        <5> DEFINE k == <<r, n>>
        <5>1. k \in OutChunk /\ k[1] # s /\ chunks'[e] = Append(chunks[e], k) /\ read'[e][s] = read[e][s]
          BY <3>1, <3>2, <3>3, <4>3
        <5> HIDE DEF k
        <5>2. QED
          BY <3>4, <4>1, <5>1, ConsecutiveAppend
      <4>4. QED
        BY <4>2, <4>3
    <3>6. QED
      BY <1>2, <2>1, <3>5 DEF Ordered
  <2>4. QED
    BY <2>2, <2>3
<1>10. ASSUME NEW x \in Execs, ForwardChunk(x) PROVE Ordered(e, s)'
  <2>1. UNCHANGED <<wire, task, read>>
    BY <1>10 DEF ForwardChunk
  <2>2. CASE x # e \/ task[e] = "ended"
    <3>1. task[e] = "ended" \/ (chunks'[e] = chunks[e] /\ fwd'[e] = fwd[e])
      BY <1>1, <1>10, <2>2 DEF ForwardChunk
    <3>2. QED
      BY <2>1, <3>1, OrderKept
  <2>3. CASE x = e /\ task[e] # "ended"
    <3> DEFINE h == Head(chunks[e])
               t == Tail(chunks[e])
    <3>1. /\ chunks[e] \in Seq(OutChunk) /\ chunks[e] # <<>> /\ chunks'[e] = t /\ fwd'[e] = Append(fwd[e], h)
          /\ fwd[e] \in Seq(OutChunk) /\ read[e][s] \in Nat
      BY <1>1, <1>10, <2>3 DEF ForwardChunk
    <3>2. h \in OutChunk
      BY <3>1
    <3>3. Consecutive(fwd[e], s, w, f) /\ Consecutive(chunks[e], s, f, read[e][s])
      BY <1>2, <2>3
    <3>4. /\ h[1] # s => Consecutive(t, s, f, read[e][s])
          /\ h[1] = s => h = <<s, f + 1>> /\ Consecutive(t, s, f + 1, read[e][s])
      BY <3>1, <3>3, ConsecutiveTail
    <3> HIDE DEF h, t
    <3>5. CASE h[1] # s
      <4>1. Consecutive(fwd'[e], s, w, f)
        BY <3>1, <3>2, <3>3, <3>5, ConsecutiveAppend
      <4>2. QED
        BY <1>2, <2>1, <3>1, <3>4, <3>5, <4>1 DEF Ordered
    <3>6. CASE h[1] = s
      <4>1. Consecutive(fwd'[e], s, w, f + 1)
        BY <3>1, <3>2, <3>3, <3>4, <3>6, ConsecutiveAppend
      <4>2. Consecutive(chunks'[e], s, f + 1, read'[e][s]) /\ f + 1 \in Nat
        BY <2>1, <3>1, <3>4, <3>6
      <4>3. QED
        BY <1>2, <2>1, <4>1, <4>2 DEF Ordered
    <3>7. QED
      BY <3>5, <3>6
  <2>4. QED
    BY <2>2, <2>3
<1>11. ASSUME NEW x \in Execs, SelectChunk(x) PROVE Ordered(e, s)'
  <2>1. UNCHANGED <<task, chunks, read>>
    BY <1>11 DEF SelectChunk
  <2>2. CASE x # e
    <3>1. wire'[e] = wire[e] /\ fwd'[e] = fwd[e]
      BY <1>1, <1>11, <2>2 DEF SelectChunk, SendMsg
    <3>2. QED
      BY <2>1, <3>1, OrderKept
  <2>3. CASE x = e
    <3> DEFINE h == Head(fwd[e])
               t == Tail(fwd[e])
    <3>1. /\ fwd[e] \in Seq(OutChunk) /\ fwd[e] # <<>> /\ fwd'[e] = t /\ wire'[e] = Append(wire[e], Output(h))
          /\ wire[e] \in Seq(Message) /\ task[e] # "ended"
      BY <1>1, <1>11, <2>3 DEF SelectChunk, SendMsg
    <3>2. h \in OutChunk /\ Output(h) \in Message
      BY <3>1, Messages
    <3>3. Consecutive(fwd[e], s, w, f) /\ Consecutive(chunks[e], s, f, read[e][s]) /\ SentUpTo(wire[e], s, w)
      BY <1>2, <3>1
    <3>4. /\ h[1] # s => Consecutive(t, s, w, f)
          /\ h[1] = s => h = <<s, w + 1>> /\ Consecutive(t, s, w + 1, f)
      BY <3>1, <3>3, ConsecutiveTail
    <3> HIDE DEF h, t
    <3>5. CASE h[1] # s
      <4>1. SentUpTo(wire'[e], s, w)
        BY <3>1, <3>2, <3>3, <3>5, SentAppend
      <4>2. QED
        BY <2>1, <3>1, <3>3, <3>4, <3>5, <4>1 DEF Ordered
    <3>6. CASE h[1] = s
      <4>1. SentUpTo(wire'[e], s, w + 1)
        BY <3>1, <3>2, <3>3, <3>4, <3>6, SentAppend
      <4>2. w + 1 \in Nat /\ Consecutive(fwd'[e], s, w + 1, f)
        BY <3>1, <3>4, <3>6
      <4>3. QED
        BY <2>1, <3>3, <4>1, <4>2 DEF Ordered
    <3>7. QED
      BY <3>5, <3>6
  <2>4. QED
    BY <2>2, <2>3
<1>12. ASSUME NEW x \in Execs, SelectCommand(x) \/ SelectClosed(x) \/ WriteStdin(x) \/ Signal(x) PROVE Ordered(e, s)'
  <2>1. UNCHANGED <<wire, fwd, chunks, read>> /\ task[x] # "ended" /\ \A y \in Execs \ {x} : task'[y] = task[y]
    BY <1>1, <1>12 DEF SelectCommand, SelectClosed, WriteStdin, Signal
  <2>2. QED
    BY <2>1, OrderKept
<1>13. ASSUME NEW x \in Execs, Abandon(x) PROVE Ordered(e, s)'
  <2>1. /\ UNCHANGED <<wire, chunks, read>> /\ task'[x] = "ended"
        /\ \A y \in Execs \ {x} : task'[y] = task[y] /\ fwd'[y] = fwd[y]
    BY <1>1, <1>13 DEF Abandon, EndTask
  <2>2. QED
    BY <2>1, OrderKept
<1>14. ASSUME NEW x \in Execs,
              Client(x) \/ Child(x) \/ WaitLock(x) \/ WaitExit(x) \/ ForwardDone(x)
              \/ \E c \in {"stdin", "close", "sig15", "sig9"} : HandleCommand(x, c)
       PROVE  UNCHANGED <<wire, task, fwd, chunks, read>>
  BY <1>14 DEF Client, Request, Input, RecvDone, Deadline, DeadlineInteractive, Child, Consume, Exit, Write, WaitLock, WaitExit, ForwardDone,
               HandleCommand
<1>15. QED
  BY <1>3, <1>4, <1>6, <1>7, <1>8, <1>9, <1>10, <1>11, <1>12, <1>13, <1>14 DEF ExecNext, Handler, Threads, Task

\* Each stream's chunks reach the wire in the order the child wrote them, none skipped
\* and none twice, for any number of execs and chunks (shell/lib.rs, the reader threads;
\* main.rs, run_exec_task).
THEOREM OutputInOrder == ExecSpec => []StreamsInOrder
<1> DEFINE AllOrdered == \A e \in Execs, s \in Streams : Ordered(e, s)
<1>1. ExecInit => AllOrdered
  <2> SUFFICES ASSUME ExecInit, NEW e \in Execs, NEW s \in Streams PROVE Ordered(e, s)
    OBVIOUS
  <2>1. wire[e] = <<>> /\ fwd[e] = <<>> /\ chunks[e] = <<>> /\ read[e][s] = 0
    BY DEF ExecInit
  <2>2. SentUpTo(wire[e], s, 0)
    BY <2>1 DEF SentUpTo
  <2>3. Consecutive(fwd[e], s, 0, 0) /\ Consecutive(chunks[e], s, 0, read[e][s])
    BY <2>1 DEF Consecutive
  <2>4. QED
    BY <2>2, <2>3 DEF Ordered
<1>2. StreamInv /\ AllOrdered /\ [ExecNext]_execVars => AllOrdered'
  <2> SUFFICES ASSUME StreamInv, AllOrdered, [ExecNext]_execVars, NEW e \in Execs, NEW s \in Streams PROVE Ordered(e, s)'
    OBVIOUS
  <2>1. CASE ExecNext
    BY <2>1, OrderStep
  <2>2. CASE UNCHANGED execVars
    BY <2>2, OrderKept DEF execVars, threadVars
  <2>3. QED
    BY <2>1, <2>2
<1>3. StreamInv /\ AllOrdered => StreamsInOrder
  <2> SUFFICES ASSUME StreamInv, AllOrdered, NEW e \in Execs, NEW i \in DOMAIN wire[e], wire[e][i][1] = "chunk"
               PROVE  LET s == wire[e][i][2][1]
                          n == wire[e][i][2][2]
                      IN  /\ n = 1 \/ \E j \in 1..i-1 : wire[e][j] = Output(<<s, n - 1>>)
                          /\ \A j \in 1..i-1 : wire[e][j] # wire[e][i]
    BY DEF StreamsInOrder
  <2> DEFINE q == wire[e]
             s == q[i][2][1]
             n == q[i][2][2]
  <2>1. q \in Seq(Message)
    BY DEF StreamInv, ExecTypeOK
  <2>2. DOMAIN q = 1..Len(q) /\ Len(q) \in Nat /\ i \in DOMAIN q /\ q[i] \in Message /\ q[i][1] = "chunk"
    BY <2>1
  <2> HIDE DEF q
  <2>3. s \in Streams /\ n \in Nat /\ n > 0
    BY <2>2 DEF Message, Started, Done, OutChunk
  <2>4. PICK w \in Nat : SentUpTo(q, s, w)
    BY <2>3 DEF Ordered, q
  <2> HIDE DEF s, n
  <2>5. n <= w
    BY <2>2, <2>4 DEF SentUpTo, q, s, n
  <2>6. ASSUME n # 1 PROVE \E j \in 1..i-1 : q[j] = Output(<<s, n - 1>>)
    <3>1. PICK j \in DOMAIN q : q[j] = Output(<<s, n - 1>>)
      BY <2>3, <2>4, <2>5, <2>6 DEF SentUpTo
    <3>2. q[j][1] = "chunk" /\ q[j][2][1] = s /\ q[j][2][2] = n - 1
      BY <3>1 DEF Output
    <3>3. j < i
      <4>1. i \in DOMAIN q /\ q[i][2][1] = s /\ q[i][2][2] = n
        BY DEF q, s, n
      <4>2. ~ (i < j)
        BY <2>2, <2>3, <2>4, <3>2, <4>1 DEF SentUpTo
      <4>3. i # j
        BY <2>3, <3>2, <4>1
      <4>4. QED
        BY <2>2, <4>1, <4>2, <4>3
    <3>4. j \in 1..i-1
      BY <2>2, <3>3
    <3>5. QED
      BY <3>1, <3>4
  <2>7. ASSUME NEW j \in 1..i-1 PROVE q[j] # q[i]
    <3>1. i \in DOMAIN q /\ j \in DOMAIN q /\ j < i
      BY <2>2 DEF q
    <3>2. q[j] = q[i] => q[j][2][2] < q[i][2][2]
      BY <2>2, <2>4, <3>1 DEF SentUpTo, s
    <3>3. QED
      BY <2>3, <3>2 DEF n
  <2>8. QED
    BY <2>6, <2>7 DEF q, s, n
<1>4. QED
  BY <1>1, <1>2, <1>3, StreamInvHolds, PTL DEF ExecSpec
=============================================================================
