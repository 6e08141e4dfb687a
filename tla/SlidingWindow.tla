--------------------------- MODULE SlidingWindow ----------------------------
(***************************************************************************)
(* What a reliable stream promises to its two users, without packets: the   *)
(* payloads accepted from the sender are handed to the receiver's           *)
(* application in order and once each, and the sender forgets a payload     *)
(* only after it was handed over, keeping at most Size of them.             *)
(***************************************************************************)
EXTENDS Naturals, Sequences

CONSTANT Size

VARIABLES
    accepted, \* payloads accepted from the sender
    released, \* payloads that the sender has forgotten
    handed    \* payloads handed to the application, in order

Init == accepted = 0 /\ released = 0 /\ handed = <<>>

Accept ==
    /\ accepted - released < Size
    /\ accepted' = accepted + 1
    /\ UNCHANGED <<released, handed>>

Hand ==
    /\ \E n \in Len(handed) + 1..accepted : handed' = [i \in 1..n |-> i]
    /\ UNCHANGED <<accepted, released>>

Release ==
    /\ \E n \in released + 1..Len(handed) : released' = n
    /\ UNCHANGED <<accepted, handed>>

Next == Accept \/ Hand \/ Release

Spec == Init /\ [][Next]_<<accepted, released, handed>>
=============================================================================
