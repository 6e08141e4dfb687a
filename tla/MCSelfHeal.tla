----------------------------- MODULE MCSelfHeal -----------------------------
(* An instance of SelfHeal for TLC.                                         *)
EXTENDS SelfHeal

CONSTANTS a, b, c

\* a and b are neighbours, c is reached through them.
Distances == (a :> <<a, b, c>>) @@ (b :> <<b, a, c>>) @@ (c :> <<c, a, b>>)

\* The DHT knows nobody, one neighbour or both.
Tables == {{}, {a}, {a, b}}
=============================================================================
