----------------------------- MODULE MCMessages -----------------------------
(* Instances of Messages for TLC. *)
EXTENDS Messages

Seconds  == 1..6
UpToFive == 0..5
=============================================================================
