----------------------------- MODULE MCElection -----------------------------
(* Instances of Election for TLC.                                           *)
EXTENDS Election

CONSTANTS n1, n2, n3

MCNode == {n1, n2, n3}

\* Every node knows the others.
KnownOthers == [n \in MCNode |-> MCNode \ {n}]

\* Every node knows the others; n1 is also in its own table, so that its
\* RegistryChange is broadcast.
KnownMixed == [n \in MCNode |-> IF n = n1 THEN MCNode ELSE MCNode \ {n}]

\* Every voter would grant every candidate.
PreferAll == MCNode \X (1..MaxTerm) \X MCNode

\* n2 and n3 refuse each other in the first term, so that elections split.
PreferSplit == PreferAll \ {<<n2, 1, n3>>, <<n3, 1, n2>>}

\* The owner of n1, a registry that was cut off, asks n2 for its data.
SyncN1ToN2 == {<<n1, n2>>}

=============================================================================
