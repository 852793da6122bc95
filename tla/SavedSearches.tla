--------------------------- MODULE SavedSearches ---------------------------
(***************************************************************************)
(* The operations of a list of saved searches (store.SearchList in         *)
(* internal/store/connections.go), the history and the bookmarks.  Of a    *)
(* search only its name, empty in the history, and its key are told apart. *)
(***************************************************************************)
EXTENDS Naturals, Sequences

Unnamed == ""
Saved(name, key) == [name |-> name, key |-> key]

\* What is kept of the list when s is pushed: any other search, and the same
\* search under another name when both have one.
Kept(it, s) ==
    \/ it.key # s.key
    \/ s.name # Unnamed /\ it.name # Unnamed /\ it.name # s.name

\* The loop of Push over the items: what stays of the list, in its order.
Rest(items, s) ==
    LET From[i \in 0 .. Len(items)] ==
          IF i = 0 THEN <<>>
          ELSE IF Kept(items[i], s) THEN Append(From[i - 1], items[i]) ELSE From[i - 1]
    IN  From[Len(items)]

\* Mutant of Push: the list is not trimmed.
PushUntrimmed(items, s, max) == <<s>> \o Rest(items, s)

\* Push: s goes to the front; max = 0 is a list without a bound.
Push(items, s, max) ==
    LET out == <<s>> \o Rest(items, s)
    IN  IF max > 0 /\ Len(out) > max THEN SubSeq(out, 1, max) ELSE out

\* Remove: the item at i, counted from 1; nothing happens outside of the list.
RemoveItem(items, i) ==
    IF i \in DOMAIN items THEN SubSeq(items, 1, i - 1) \o SubSeq(items, i + 1, Len(items))
    ELSE items
=============================================================================
