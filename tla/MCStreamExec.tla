---------------------------- MODULE MCStreamExec ----------------------------
(* StreamExec for TLC.  Either e1 runs alone, with output and input, or e1   *)
(* and e2, a drain_exec, run at once without either and may share an id.    *)
EXTENDS StreamExec

CONSTANTS e1, e2

\* Two chunks on stdout and one on stderr.
SomeOutput == [e \in Execs |-> [s \in Streams |-> IF e = e1 THEN 2 - s ELSE 0]]
SomeInput == [e \in Execs |-> IF e = e1 THEN 2 ELSE 0]

VARIABLE running

runningVars == <<running, execVars>>

\* The ids are interchangeable: only e2, when it runs, has one that may differ.
RunningInit ==
    /\ running \in {{e1}, {e1, e2}} /\ ExecInit
    /\ id[e1] = 1 /\ (e2 \notin running => id[e2] = 1)

RunningNext ==
    /\ ExecNext /\ UNCHANGED running
    /\ IF e2 \in running THEN UNCHANGED <<made, inputs>> ELSE client'[e2] = client[e2]

\* The fairness of FairExecSpec.
RunningSpec ==
    /\ RunningInit /\ [][RunningNext]_runningVars
    /\ WF_runningVars(Handler /\ UNCHANGED running)
    /\ \A e \in Execs :
        /\ WF_runningVars(Threads(e) /\ UNCHANGED running)
        /\ WF_runningVars(Task(e) /\ UNCHANGED running)
        /\ WF_runningVars(/\ e \in running /\ UNCHANGED running
                          /\ Request(e) \/ RecvDone(e) \/ Deadline(e) \/ DeadlineInteractive(e))
=============================================================================
