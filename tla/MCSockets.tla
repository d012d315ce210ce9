----------------------------- MODULE MCSockets ------------------------------
(* Instances of Sockets for TLC.                                           *)
EXTENDS Sockets

AllKinds == {"stream", "convo", "notif"}
=============================================================================
