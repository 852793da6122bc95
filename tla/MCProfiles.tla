----------------------------- MODULE MCProfiles -----------------------------
(* Profiles with names that are interchangeable, and so are their hosts.   *)
EXTENDS Profiles, TLC

CONSTANTS a, b, c, x, y, none

ThreeNames == {a, b, c}
TwoHosts == {x, y}
Symmetry == Permutations(ThreeNames) \cup Permutations(TwoHosts)
=============================================================================
