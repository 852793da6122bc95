---------------------------- MODULE SearchLists ----------------------------
(***************************************************************************)
(* The history and the bookmarks with their files (store.SearchList and    *)
(* its uses in tui/app.go, search.go and actions.go).  A list whose file   *)
(* cannot be read is not there for the session; the bookmarks are filled   *)
(* when the list is fresh.  Fresh is a field of the list like any other,   *)
(* written to the file and read from it, after the items.  Most writes     *)
(* that fail are not noticed.                                              *)
(***************************************************************************)
EXTENDS Integers, Sequences, FiniteSets, SavedSearches, ConfigFile

CONSTANTS Keys,          \* base, scope and filter of a search
          Labels,        \* names of bookmarks
          Defaults,      \* DefaultBookmarks, a sequence of bookmarks
          HistoryMax,    \* the length of the history
          MaxBookmarks   \* bound: the list of bookmarks itself has none

ASSUME LabelsAssumption == Unnamed \notin Labels /\ HistoryMax \in Nat \ {0}
ASSUME DefaultsAssumption ==
    /\ Defaults \in Seq({Defaults[i] : i \in DOMAIN Defaults})
    /\ \A i, j \in DOMAIN Defaults : Defaults[i] = Defaults[j] => i = j

VARIABLES
    on,         \* the program runs
    history,    \* shared.history, NoList when its file could not be read
    bookmarks,  \* shared.bookmarks, likewise
    hfile,      \* history.yaml
    bfile,      \* bookmarks.yaml
    fresh,      \* shared.bookmarks.Fresh
    ffresh,     \* fresh: in bookmarks.yaml
    unsaved     \* the files whose last write failed

vars == <<on, history, bookmarks, hfile, bfile, fresh, ffresh, unsaved>>

NoList == [list |-> FALSE, items |-> <<>>]
List(s) == [list |-> TRUE, items |-> s]
Items(s) == {s[i] : i \in DOMAIN s}

-----------------------------------------------------------------------------
(* Loading and saving.                                                     *)

\* LoadSearchList: an unreadable file gives no list, one that is not there an
\* empty one.
Loaded(f) == IF f = Unreadable THEN NoList ELSE List(f.items)
LoadedFresh(f, mark) == f = Absent \/ mark

SaveHistory ==
    \/ hfile' = Holds(history'.items) /\ unsaved' = unsaved \ {"history"}
    \/ hfile' \in AfterFailure(hfile, history'.items) /\ unsaved' = unsaved \cup {"history"}

\* A file that is cut off has lost its last line, the one with fresh.
SaveBookmarks ==
    \/ /\ bfile' = Holds(bookmarks'.items) /\ ffresh' = fresh'
       /\ unsaved' = unsaved \ {"bookmarks"}
    \/ /\ bfile' \in AfterFailure(bfile, bookmarks'.items)
       /\ \/ bfile' = bfile /\ ffresh' = ffresh
          \/ ffresh' = FALSE
       /\ unsaved' = unsaved \cup {"bookmarks"}

Init ==
    /\ on = FALSE
    /\ history = NoList /\ bookmarks = NoList
    /\ hfile = Absent /\ bfile = Absent
    /\ fresh = FALSE /\ ffresh = FALSE
    /\ unsaved = {}

\* Mutant of Start: the bookmarks that are put in are not written.
StartUnsaved ==
    /\ ~on /\ on' = TRUE
    /\ history' = Loaded(hfile)
    /\ fresh' = LoadedFresh(bfile, ffresh)
    /\ bookmarks' = IF fresh' THEN List(Defaults) ELSE Loaded(bfile)
    /\ UNCHANGED <<hfile, bfile, ffresh, unsaved>>

\* NewApp: the lists are read, and the bookmarks filled when fresh.
Start ==
    /\ ~on /\ on' = TRUE
    /\ history' = Loaded(hfile)
    /\ fresh' = LoadedFresh(bfile, ffresh)
    /\ IF fresh'
       THEN bookmarks' = List(Defaults) /\ SaveBookmarks
       ELSE bookmarks' = Loaded(bfile) /\ UNCHANGED <<bfile, ffresh, unsaved>>
    /\ UNCHANGED hfile

\* The program is ended or killed.
Stop ==
    /\ on /\ on' = FALSE
    /\ history' = NoList /\ bookmarks' = NoList /\ fresh' = FALSE
    /\ unsaved' = {}
    /\ UNCHANGED <<hfile, bfile, ffresh>>

-----------------------------------------------------------------------------
(* What the program does with the lists.                                   *)

\* Mutant of Remember: a history without its file is written all the same.
RememberBlind(k) ==
    /\ on
    /\ history' = List(Push(history.items, Saved(Unnamed, k), HistoryMax))
    /\ SaveHistory
    /\ UNCHANGED <<on, bookmarks, bfile, fresh, ffresh>>

\* searchDoneMsg: the first page of a search has come.
Remember(k) ==
    /\ on /\ history.list
    /\ history' = List(Push(history.items, Saved(Unnamed, k), HistoryMax))
    /\ SaveHistory
    /\ UNCHANGED <<on, bookmarks, bfile, fresh, ffresh>>

\* :clear history reports that it is cleared in either case.
ClearHistory ==
    /\ on
    /\ IF history.list THEN history' = List(<<>>) /\ SaveHistory
       ELSE UNCHANGED <<history, hfile, unsaved>>
    /\ UNCHANGED <<on, bookmarks, bfile, fresh, ffresh>>

\* saveBookmarkMsg.
SaveBookmark(n, k) ==
    /\ on /\ bookmarks.list
    /\ bookmarks' = List(Push(bookmarks.items, Saved(n, k), 0))
    /\ Len(bookmarks'.items) <= MaxBookmarks
    /\ UNCHANGED <<on, history, hfile, fresh>>
    /\ SaveBookmarks

\* The first bookmark like s, 0 if there is none.
Position(s) ==
    LET like == {i \in DOMAIN bookmarks.items : bookmarks.items[i] = s}
    IN  IF like = {} THEN 0 ELSE CHOOSE i \in like : \A j \in like : i <= j

\* d in the picker, which shows the list as it was opened; the write is not
\* looked at.
DeleteBookmark(s) ==
    /\ on /\ bookmarks.list
    /\ bookmarks' = List(RemoveItem(bookmarks.items, Position(s)))
    /\ UNCHANGED <<on, history, hfile, fresh>>
    /\ SaveBookmarks

Bookmarks == {Saved(n, k) : n \in Labels, k \in Keys} \cup Items(Defaults)

Next ==
    \/ Start \/ Stop
    \/ \E k \in Keys : Remember(k) \/ \E n \in Labels : SaveBookmark(n, k)
    \/ ClearHistory
    \/ \E s \in Bookmarks : DeleteBookmark(s)

Spec == Init /\ [][Next]_vars

-----------------------------------------------------------------------------
(* Properties.                                                             *)

HistoryItems == {Saved(Unnamed, k) : k \in Keys}

\* Every variable is in its domain and the history within its bound, in memory
\* and in the file (connections.go:162, 221; app.go:105).
TypeOK ==
    /\ on \in BOOLEAN
    /\ \A l \in {history, bookmarks} : l \in {NoList, List(l.items)}
    /\ history.items \in Seq(HistoryItems) /\ hfile.items \in Seq(HistoryItems)
    /\ bookmarks.items \in Seq(Bookmarks) /\ bfile.items \in Seq(Bookmarks)
    /\ \A f \in {hfile, bfile} : f \in {Absent, Unreadable, Holds(f.items)}
    /\ Len(history.items) <= HistoryMax /\ Len(hfile.items) <= HistoryMax
    /\ unsaved \subseteq {"history", "bookmarks"}
    /\ {fresh, ffresh} \subseteq BOOLEAN

Unique(s) == \A i, j \in DOMAIN s : s[i] = s[j] => i = j

\* No search is in the history twice and no bookmark is there twice, whatever
\* is pushed, deleted, lost and read again (connections.go:208-224).
ItemsUnique ==
    \A s \in {history.items, bookmarks.items, hfile.items, bfile.items} : Unique(s)

Follows(l, f) == f \notin {Absent, Unreadable} /\ f.items = l.items

\* A list that was read or filled is what the next start reads, unless its
\* last write failed (connections.go:196; app.go:107).
FilesFollow ==
    on => /\ history.list /\ "history" \notin unsaved => hfile.items = history.items
          /\ bookmarks.list /\ "bookmarks" \notin unsaved => Follows(bookmarks, bfile)

\* The lists are sound in memory and in the files, and the same in both.
ListsSound == ItemsUnique /\ FilesFollow

\* A list that could not be read is not written over (search.go:331, 368;
\* actions.go:974).
UnreadableKept ==
    [][on /\ on' => /\ ~history.list => hfile' = hfile
                    /\ ~bookmarks.list => bfile' = bfile]_vars

\* "seeded on first run" (connections.go:233) and "Fresh is true when the
\* backing file did not exist at load time" (connections.go:164): the bookmarks
\* of a file that can be read are the ones of the session.
SeededOnce ==
    [][~on /\ on' /\ bfile.state = "list" => bookmarks' = List(bfile.items)]_vars
=============================================================================
