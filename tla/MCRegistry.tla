----------------------------- MODULE MCRegistry -----------------------------
(* The registry for TLC: the election of its node (MCElection) and the      *)
(* centre's store (RegistryStore).  The two share no state, so part says    *)
(* which of them a behaviour is about.                                      *)
EXTENDS MCElection, RegistryStore

CONSTANTS a, b, i, j

\* Node i has the name a, and perhaps b; a goes over to j.
FewRequests ==
    {<<"register", a, i>>, <<"register", b, i>>, <<"upsert", a, j>>,
     <<"heartbeat", a, i>>}

VARIABLE part

registryVars == <<part, vars, storeVars>>

RegistryInit == part \in {"election", "store"} /\ Init /\ StoreInit

RegistryNext ==
    \/ part = "election" /\ Next /\ UNCHANGED <<part, storeVars>>
    \/ part = "store" /\ StoreNext /\ UNCHANGED <<part, vars>>

\* A thread of the store that can go on does so.
RegistrySpec ==
    /\ RegistryInit /\ [][RegistryNext]_registryVars
    /\ \A t \in Threads : WF_registryVars(part = "store" /\ Go(t) /\ UNCHANGED <<part, vars>>)
=============================================================================
