------------------------------ MODULE MCDaemon ------------------------------
(* The daemon and its protocol for TLC: connections and quotas (Daemon),    *)
(* the push of a file (FilePush) and the reliable stream (ReliableStream).  *)
(* They share no state here, so layer says which of them a behaviour is     *)
(* about.                                                                   *)
EXTENDS Daemon, FilePush, ReliableStream

CONSTANTS p1, p2, c1, c2, a1, k1, k2

\* p1 and p2 are two ports of one address.
SameIp == [p \in Peers |-> a1]

VARIABLE layer

layerVars == <<layer, daemonVars, pushVars, streamVars>>

LayersInit ==
    /\ layer \in {"daemon", "push", "stream"}
    /\ DaemonInit /\ PushInit /\ StreamStart
    /\ layer # "daemon" => part = "tables" /\ transport = "udp"

\* What rests when one layer takes a step.
ButDaemon == <<layer, pushVars, streamVars>>
ButPush == <<layer, daemonVars, streamVars>>
ButStream == <<layer, daemonVars, pushVars>>

LayersNext ==
    \/ layer = "daemon" /\ DaemonNext /\ UNCHANGED ButDaemon
    \/ layer = "push" /\ PushNext /\ UNCHANGED ButPush
    \/ layer = "stream" /\ StreamNext /\ UNCHANGED ButStream

\* The fairness of FairPushSpec.
LayersSpec ==
    /\ LayersInit /\ [][LayersNext]_layerVars
    /\ WF_layerVars(layer = "push" /\ PushClient /\ UNCHANGED ButPush)
    /\ WF_layerVars(layer = "push" /\ PushDaemon /\ UNCHANGED ButPush)
=============================================================================
