----------------------------- MODULE MCAccounts -----------------------------
(* Instances of Accounts for TLC.                                          *)
EXTENDS Accounts, TLC

Symmetric == Permutations(User) \cup Permutations(Ticket)
                \cup Permutations(Token) \cup Permutations(Req)
=============================================================================
