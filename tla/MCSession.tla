----------------------------- MODULE MCSession -----------------------------
(* Small instances of Session.                                             *)
EXTENDS Session, TLC

Perms == Permutations(Clients) \cup Permutations(Writes)
=============================================================================
