--------------------------- MODULE MCSearchLists ---------------------------
(* Three searches, one label and a bookmark of another one to begin with.  *)
EXTENDS SearchLists

CONSTANTS k1, k2, k3

ThreeKeys == {k1, k2, k3}
TwoKeys == {k1, k2}
OneLabel == {"p"}
OneDefault == <<Saved("q", k1)>>
=============================================================================
