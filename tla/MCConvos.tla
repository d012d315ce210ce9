------------------------------ MODULE MCConvos ------------------------------
(* Instances of Convos for TLC.                                            *)
EXTENDS Convos, TLC

CONSTANTS ann, bob, c1, c2, m1, m2, e1, e2

\* The owner alone, or with a second member.
OneOrTwo == {[readers |-> U, writers |-> U] : U \in {{ann}, {ann, bob}}}
OnlyTwo  == {[readers |-> {ann, bob}, writers |-> {ann, bob}]}

TwoConns == (c1 :> ann) @@ (c2 :> bob)
OneConn  == (c2 :> bob)

\* No message, one, and two of different seconds.
NoMessage   == [m \in {} |-> 0]
OneMessage  == (m1 :> 1)
TwoMessages == (m1 :> 1) @@ (m2 :> 2)
=============================================================================
