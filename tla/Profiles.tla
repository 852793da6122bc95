------------------------------ MODULE Profiles ------------------------------
(***************************************************************************)
(* The saved connection profiles: store.Store, its file, and the screen    *)
(* that edits them (internal/store/connections.go, tui/connections.go).    *)
(* The list in memory is changed first and the file is written after it,   *)
(* so the two part when a write fails; the program can be killed at any    *)
(* point and reads the file again when it is started.                      *)
(***************************************************************************)
EXTENDS Integers, Sequences, FiniteSets, ConfigFile

CONSTANTS Names,  \* names of profiles
          Hosts   \* what a profile says besides its name

CONSTANTS NoName,     \* the original name of a form that edits no profile
          MaxDone,    \* bound: ends of a form on their way
          MaxDeletes  \* bound: deletes asked for and not done

ASSUME NamesAssumption == NoName \notin Names
ASSUME ProfileBounds == MaxDone \in Nat /\ MaxDeletes \in Nat

VARIABLES
    running,    \* the program runs
    conns,      \* Store.Connections
    file,       \* connections.yaml
    cursor,     \* connectionsModel.cursor, from 1
    form,       \* connectionsModel.form: whether there is one and the profile it edits
    done,       \* connFormDoneMsg on their way; formCancelMsg is that of NoName
    deletes,    \* deletes: the confirmation asked for or in front, deleteConnMsg on its way
    unwritten   \* the last Save failed

profileVars == <<running, conns, file, cursor, form, done, deletes, unwritten>>

Profiles == [name : Names, host : Hosts]
Deletes == [name : Names, at : {"asked", "shown", "confirmed"}]

\* A form; fresh, which is not in the code, says that it has not been saved and
\* its profile not been deleted since it was opened.
NoForm == [open |-> FALSE, orig |-> NoName, fresh |-> FALSE]
FormOn(orig) == [open |-> TRUE, orig |-> orig, fresh |-> TRUE]

ProfilesInit ==
    /\ running = TRUE
    /\ conns = <<>> /\ file = Absent
    /\ cursor = 1
    /\ form = NoForm /\ done = {} /\ deletes = {}
    /\ unwritten = FALSE

-----------------------------------------------------------------------------
(* The list.                                                               *)

Named(s, n) == {i \in DOMAIN s : s[i].name = n}
First(S) == CHOOSE i \in S : \A j \in S : i <= j

Upsert(s, c) ==
    IF Named(s, c.name) = {} THEN Append(s, c)
    ELSE [s EXCEPT ![First(Named(s, c.name))] = c]

Delete(s, n) ==
    IF Named(s, n) = {} THEN s
    ELSE LET i == First(Named(s, n)) IN SubSeq(s, 1, i - 1) \o SubSeq(s, i + 1, Len(s))

\* Save, of what is in memory now.
SaveWorks == file' = Holds(conns') /\ unwritten' = FALSE
SaveFails == file' \in AfterFailure(file, conns') /\ unwritten' = TRUE

-----------------------------------------------------------------------------
(* The screen.  A confirmation in front takes the keys, not the messages.  *)

Selected == cursor \in DOMAIN conns
Asking == \E d \in deletes : d.at = "shown"
OnList == running /\ ~Asking /\ ~form.open
InForm == running /\ ~Asking /\ form.open

MoveCursor ==
    /\ OnList
    /\ \/ cursor < Len(conns) /\ cursor' = cursor + 1
       \/ cursor > 1 /\ cursor' = cursor - 1
    /\ UNCHANGED <<running, conns, file, form, done, deletes, unwritten>>

\* n and D; a referral opens a form whatever the screen shows.
OpenNew ==
    /\ running
    /\ form' = FormOn(NoName)
    /\ UNCHANGED <<running, conns, file, cursor, done, deletes, unwritten>>

\* e
OpenEdit ==
    /\ OnList /\ Selected
    /\ form' = FormOn(conns[cursor].name)
    /\ UNCHANGED <<running, conns, file, cursor, done, deletes, unwritten>>

\* Mutant of Stored: a profile that is renamed stays under its old name.
StoredKeepsOld(c) == Upsert(conns, c)

\* What submit makes of the list.
Stored(c) ==
    Upsert(IF form.orig \notin {NoName, c.name} THEN Delete(conns, form.orig) ELSE conns, c)

Submit(c) ==
    /\ InForm /\ Cardinality(done) < MaxDone
    /\ conns' = Stored(c)
    /\ form' = [form EXCEPT !.fresh = FALSE]
    /\ \/ SaveWorks /\ done' = done \cup {c.name}
       \/ SaveFails /\ done' = done
    /\ UNCHANGED <<running, cursor, deletes>>

\* esc
Cancel ==
    /\ InForm /\ Cardinality(done) < MaxDone
    /\ done' = done \cup {NoName}
    /\ UNCHANGED <<running, conns, file, cursor, form, deletes, unwritten>>

\* connFormDoneMsg: the form is closed, whichever it is by now.
FormDone(n) ==
    /\ running /\ n \in done \ {NoName}
    /\ done' = done \ {n}
    /\ form' = NoForm
    /\ cursor' = IF Named(conns, n) = {} THEN cursor
                 ELSE CHOOSE i \in Named(conns, n) : \A j \in Named(conns, n) : j <= i
    /\ UNCHANGED <<running, conns, file, deletes, unwritten>>

\* formCancelMsg, which is lost when another screen is in front by now.
FormCancelled ==
    /\ running /\ NoName \in done
    /\ done' = done \ {NoName}
    /\ form' \in {form, NoForm}
    /\ UNCHANGED <<running, conns, file, cursor, deletes, unwritten>>

\* d: the confirmation of a delete, which has the name, is on its way.
AskDelete ==
    /\ OnList /\ Selected /\ Cardinality(deletes) < MaxDeletes
    /\ deletes' = deletes \cup {[name |-> conns[cursor].name, at |-> "asked"]}
    /\ UNCHANGED <<running, conns, file, cursor, form, done, unwritten>>

\* openOverlayMsg: it is in front, in place of the one that was.
ShowDelete(d) ==
    /\ running /\ d \in deletes /\ d.at = "asked"
    /\ deletes' = {e \in deletes \ {d} : e.at # "shown"} \cup {[d EXCEPT !.at = "shown"]}
    /\ UNCHANGED <<running, conns, file, cursor, form, done, unwritten>>

\* y, or n and esc
AnswerDelete(d) ==
    /\ running /\ d \in deletes /\ d.at = "shown"
    /\ \E yes \in BOOLEAN :
         deletes' = (deletes \ {d}) \cup (IF yes THEN {[d EXCEPT !.at = "confirmed"]} ELSE {})
    /\ UNCHANGED <<running, conns, file, cursor, form, done, unwritten>>

\* Mutant of CursorAfter: the cursor stays.
CursorStays(len) == cursor

CursorAfter(len) == IF cursor > len /\ cursor > 1 THEN cursor - 1 ELSE cursor

\* Mutant of DeleteConn: the file is not written.
DeleteUnsaved(d) ==
    /\ running /\ d \in deletes /\ d.at = "confirmed"
    /\ deletes' = deletes \ {d}
    /\ conns' = Delete(conns, d.name)
    /\ cursor' = CursorAfter(Len(conns'))
    /\ form' = IF form.orig = d.name THEN [form EXCEPT !.fresh = FALSE] ELSE form
    /\ UNCHANGED <<running, file, done, unwritten>>

\* deleteConnMsg, whatever is in front by now; whether the file could be
\* written is not looked at.
DeleteConn(d) ==
    /\ running /\ d \in deletes /\ d.at = "confirmed"
    /\ deletes' = deletes \ {d}
    /\ conns' = Delete(conns, d.name)
    /\ SaveWorks \/ SaveFails
    /\ cursor' = CursorAfter(Len(conns'))
    /\ form' = IF form.orig = d.name THEN [form EXCEPT !.fresh = FALSE] ELSE form
    /\ UNCHANGED <<running, done>>

-----------------------------------------------------------------------------
(* The program is ended or killed, and started again.                      *)

Quit ==
    /\ running
    /\ running' = FALSE
    /\ conns' = <<>> /\ cursor' = 1 /\ form' = NoForm /\ done' = {} /\ deletes' = {}
    /\ unwritten' = FALSE
    /\ UNCHANGED file

\* main: the program does not start when the file cannot be read.
Launch ==
    /\ ~running /\ file # Unreadable
    /\ running' = TRUE
    /\ conns' = file.items
    /\ UNCHANGED <<file, cursor, form, done, deletes, unwritten>>

\* The user removes a file the program does not start with.
Removed ==
    /\ ~running /\ file = Unreadable
    /\ file' = Absent
    /\ UNCHANGED <<running, conns, cursor, form, done, deletes, unwritten>>

ProfilesNext ==
    \/ MoveCursor \/ OpenNew \/ OpenEdit \/ Cancel \/ FormCancelled
    \/ \E c \in Profiles : Submit(c)
    \/ \E n \in Names : FormDone(n)
    \/ AskDelete
    \/ \E d \in deletes : ShowDelete(d) \/ AnswerDelete(d) \/ DeleteConn(d)
    \/ Quit \/ Launch \/ Removed

ProfilesSpec == ProfilesInit /\ [][ProfilesNext]_profileVars

-----------------------------------------------------------------------------
(* Properties.                                                             *)

\* Every variable is in its domain.
Types ==
    /\ running \in BOOLEAN /\ unwritten \in BOOLEAN
    /\ conns \in Seq(Profiles)
    /\ file \in {Absent, Unreadable, Holds(file.items)} /\ file.items \in Seq(Profiles)
    /\ cursor \in Nat \ {0}
    /\ form \in [open : BOOLEAN, orig : Names \cup {NoName}, fresh : BOOLEAN]
    /\ done \subseteq Names \cup {NoName} /\ deletes \subseteq Deletes

\* The cursor is on a profile or on the place behind the last one, from where
\* k goes back.
CursorNear == cursor <= Len(conns) + 1

\* Every variable is in its domain (connections.go:76, tui/connections.go:31),
\* and the cursor never further off than behind the last profile, in any order of
\* deletes, renames onto another profile and the messages of both.
ProfilesTypeOK == Types /\ CursorNear

Distinct(s) == \A i, j \in DOMAIN s : s[i].name = s[j].name => i = j

\* A name stands for one profile, in memory and in the file, also after
\* renames, duplicates and writes that failed (connections.go:126-145).
NamesDistinct == Distinct(conns) /\ Distinct(file.items)

\* Unless the last write failed, what is in memory is what the next start
\* reads (connections.go:112, tui/connections.go:149, 171).
FileFollows == running /\ ~unwritten => file # Unreadable /\ file.items = conns

\* The list and the file say the same, and each of a name one thing.
ListAndFile == NamesDistinct /\ FileFollows

ProfilesIn(s) == {s[i] : i \in DOMAIN s}

\* Saving a form and deleting touch no profile but the one the form was opened
\* on, the one of the name that was given, and the ones that were confirmed.
OthersKept ==
    [][running /\ running' => \A c \in ProfilesIn(conns) \ ProfilesIn(conns') :
         \/ form.open /\ c.name = form.orig
         \/ form.open /\ \E d \in ProfilesIn(conns') : d.name = c.name
         \/ \E d \in deletes \ deletes' : d.name = c.name /\ d.at = "confirmed"]_profileVars

\* Saving the form of a profile for the first time leaves one profile for it,
\* unless that one has been deleted since: there is none more than before.
EditAddsNone ==
    [][running /\ running' /\ form.orig # NoName /\ form.fresh => Len(conns') <= Len(conns)]_profileVars

\* Saving and deleting do what was meant and nothing else.
OnlyMeant == OthersKept /\ EditAddsNone

=============================================================================
