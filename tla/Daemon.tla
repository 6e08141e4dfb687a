------------------------------- MODULE Daemon -------------------------------
(***************************************************************************)
(* The daemon's connection handling as one specification: what packets do   *)
(* to the tables (DaemonConn), and how the TCP tasks get at tables and      *)
(* streams (TcpServe).  What a frame does to the tables is one step in      *)
(* either view, so part says which of the two a behaviour is about.         *)
(***************************************************************************)
EXTENDS DaemonConn, TcpServe

VARIABLE part

daemonVars == <<part, vars, tcpVars>>

DaemonInit ==
    /\ part \in {"tables", "serving"}
    /\ Init /\ TcpInit
    /\ part = "serving" => transport = "tcp"

DaemonNext ==
    \/ part = "tables" /\ Next /\ UNCHANGED <<part, tcpVars>>
    \/ part = "serving" /\ TcpNext /\ UNCHANGED <<part, vars>>

DaemonSpec == DaemonInit /\ [][DaemonNext]_daemonVars
=============================================================================
