------------------------------ MODULE MCSearch ------------------------------
(***************************************************************************)
(* Searches for Search: one thing to ask for, in pages, with two scopes.   *)
(***************************************************************************)
EXTENDS Search

CONSTANTS people, sub, base

One == {people}
Two == {sub, base}
=============================================================================
