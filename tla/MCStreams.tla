----------------------------- MODULE MCStreams ------------------------------
(* Instances of Streams for TLC.                                           *)
EXTENDS Streams, TLC

CONSTANTS ann, bob, c1, c2, c3

Members(U) == [readers |-> U, writers |-> U]

\* The owner alone, or with a second member.
OneOrTwo == {Members({ann}), Members({ann, bob})}

\* Two connections of one user and one of the other.
ThreeConns == (c1 :> ann) @@ (c2 :> ann) @@ (c3 :> bob)
=============================================================================
