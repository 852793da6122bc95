---------------------------- MODULE MCEntryCache ----------------------------
(* Small instances of EntryCache.                                          *)
EXTENDS EntryCache, TLC

Perms == Permutations(DN) \cup Permutations(Readers) \cup Permutations(Writers)
=============================================================================
