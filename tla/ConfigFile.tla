----------------------------- MODULE ConfigFile -----------------------------
(***************************************************************************)
(* A file of the configuration directory (internal/store/connections.go):  *)
(* a YAML list that is read at the start and written as a whole after each *)
(* change.  os.WriteFile empties the file and then writes it, so a write   *)
(* that fails, or in which the program is killed, leaves what was there, a *)
(* beginning of the list or something that is no YAML.                     *)
(***************************************************************************)
EXTENDS Naturals, Sequences, SequencesExt

Absent     == [state |-> "absent", items |-> <<>>]
Unreadable == [state |-> "unreadable", items |-> <<>>]
Holds(s)   == [state |-> "list", items |-> s]

\* What a Save that fails leaves of a file, items being what it should hold.
AfterFailure(file, items) == {file, Unreadable} \cup {Holds(p) : p \in Prefixes(items)}

Files(S) == {Absent, Unreadable} \cup {Holds(s) : s \in S}
=============================================================================
