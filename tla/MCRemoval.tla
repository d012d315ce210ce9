----------------------------- MODULE MCRemoval ------------------------------
(* Instances of Removal for TLC.                                           *)
EXTENDS Removal, TLC

CONSTANTS c1, c2, r1

\* One connection to a Stream and one to the notifs.
OneEach == (c1 :> r1) @@ (c2 :> Notifs)

\* Two of one river: a survey may miss one of them only.
TwoNotifs == (c1 :> Notifs) @@ (c2 :> Notifs)

Symmetric == Permutations(Deleter) \cup Permutations(Conn)
=============================================================================
