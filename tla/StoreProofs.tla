------------------------------ MODULE StoreProofs ------------------------------
(***************************************************************************)
(* Theorems about the lists that are kept in files (Profiles, SearchLists) *)
(* for every set of names, hosts and searches, and lists of every length.  *)
(***************************************************************************)
EXTENDS Profiles, SearchLists, ListLemmas

-----------------------------------------------------------------------------
(* The list of profiles.  Without doubles the first profile of a name is   *)
(* the only one.                                                           *)

LEMMA NamedFacts ==
    ASSUME NEW s \in Seq(Profiles), Distinct(s), NEW n, Named(s, n) # {}
    PROVE  /\ First(Named(s, n)) \in 1 .. Len(s) /\ s[First(Named(s, n))].name = n
           /\ \A i \in 1 .. Len(s) : s[i].name = n => i = First(Named(s, n))
<1>1. PICK i \in 1 .. Len(s) : s[i].name = n
  BY DEF Named
<1>2. Named(s, n) = {i}
  BY <1>1 DEF Named, Distinct
<1>3. First(Named(s, n)) = i
  BY <1>2 DEF First
<1> QED
  BY <1>1, <1>3 DEF Distinct

LEMMA DeleteFacts ==
    ASSUME NEW s \in Seq(Profiles), Distinct(s), NEW n
    PROVE  /\ Delete(s, n) \in Seq(Profiles) /\ Distinct(Delete(s, n))
           /\ \A c \in ProfilesIn(s) : c.name # n => c \in ProfilesIn(Delete(s, n))
           /\ Len(Delete(s, n)) = IF Named(s, n) = {} THEN Len(s) ELSE Len(s) - 1
           /\ Named(Delete(s, n), n) = {}
           /\ \A c \in ProfilesIn(Delete(s, n)) : c \in ProfilesIn(s)
<1>1. CASE Named(s, n) = {}
  BY <1>1 DEF Delete
<1>2. CASE Named(s, n) # {}
  <2> DEFINE i == First(Named(s, n))
             t == Delete(s, n)
  <2>1. i \in 1 .. Len(s) /\ s[i].name = n /\ DOMAIN s = 1 .. Len(s) /\ Len(s) \in Nat
    BY <1>2, NamedFacts
  <2>2. t = Cut(s, i) /\ i \in DOMAIN s
    BY <1>2, <2>1 DEF Delete, Cut
  <2> HIDE DEF i, t
  <2>3. t \in Seq(Profiles) /\ Len(t) = Len(s) - 1
    BY <2>2, CutFacts
  <2>4. /\ \A x \in DOMAIN s \ {i} : \E j \in DOMAIN t : t[j] = s[x]
        /\ \A j, k \in DOMAIN t :
             j # k => \E x, y \in DOMAIN s : x # y /\ t[j] = s[x] /\ t[k] = s[y]
    BY <2>2, CutElements
  <2>5. Distinct(t)
    <3> SUFFICES ASSUME NEW j \in DOMAIN t, NEW k \in DOMAIN t, t[j].name = t[k].name, j # k
                 PROVE  FALSE
      BY DEF Distinct
    <3>1. PICK x \in DOMAIN s, y \in DOMAIN s : x # y /\ t[j] = s[x] /\ t[k] = s[y]
      BY <2>4
    <3> QED
      BY <3>1 DEF Distinct
  <2>6. ASSUME NEW c \in ProfilesIn(s), c.name # n PROVE c \in ProfilesIn(t)
    BY <2>1, <2>4, <2>6 DEF ProfilesIn
  <2>7. /\ \A j \in 1 .. i - 1 : t[j] = s[j]
        /\ \A j \in i .. Len(s) - 1 : t[j] = s[j + 1]
    BY <2>2, CutFacts
  <2>8. ASSUME NEW j \in DOMAIN t PROVE \E x \in DOMAIN s \ {i} : t[j] = s[x]
    <3>1. j \in 1 .. Len(s) - 1
      BY <2>3
    <3>2. CASE j < i
      BY <2>1, <2>7, <3>1, <3>2
    <3>3. CASE j >= i
      BY <2>1, <2>7, <3>1, <3>3
    <3> QED
      BY <2>1, <3>1, <3>2, <3>3
  <2>9. Named(t, n) = {}
    BY <2>1, <2>8 DEF Named, Distinct
  <2>10. \A c \in ProfilesIn(t) : c \in ProfilesIn(s)
    BY <2>8 DEF ProfilesIn
  <2> QED
    BY <1>2, <2>3, <2>5, <2>6, <2>9, <2>10 DEF t
<1> QED
  BY <1>1, <1>2

LEMMA UpsertFacts ==
    ASSUME NEW s \in Seq(Profiles), Distinct(s), NEW c \in Profiles
    PROVE  /\ Upsert(s, c) \in Seq(Profiles) /\ Distinct(Upsert(s, c))
           /\ c \in ProfilesIn(Upsert(s, c))
           /\ \A d \in ProfilesIn(s) : d.name # c.name => d \in ProfilesIn(Upsert(s, c))
           /\ Len(Upsert(s, c)) = IF Named(s, c.name) = {} THEN Len(s) + 1 ELSE Len(s)
           /\ \A d \in ProfilesIn(Upsert(s, c)) : d = c \/ d \in ProfilesIn(s)
<1> DEFINE t == Upsert(s, c)
<1>1. CASE Named(s, c.name) = {}
  <2>1. t = Append(s, c)
    BY <1>1 DEF Upsert
  <2>2. t \in Seq(Profiles) /\ Len(t) = Len(s) + 1 /\ t[Len(s) + 1] = c
        /\ \A j \in 1 .. Len(s) : t[j] = s[j] /\ s[j].name # c.name
    BY <1>1, <2>1 DEF Named
  <2> HIDE DEF t
  <2>3. Distinct(t)
    BY <2>2 DEF Distinct
  <2>4. /\ c \in ProfilesIn(t) /\ \A d \in ProfilesIn(s) : d \in ProfilesIn(t)
        /\ \A d \in ProfilesIn(t) : d = c \/ d \in ProfilesIn(s)
    BY <2>2 DEF ProfilesIn
  <2> QED
    BY <1>1, <2>2, <2>3, <2>4 DEF t
<1>2. CASE Named(s, c.name) # {}
  <2> DEFINE i == First(Named(s, c.name))
  <2>1. /\ i \in 1 .. Len(s) /\ s[i].name = c.name
        /\ \A j \in 1 .. Len(s) : s[j].name = c.name => j = i
    BY <1>2, NamedFacts
  <2>2. t = [s EXCEPT ![i] = c]
    BY <1>2 DEF Upsert
  <2> HIDE DEF t, i
  <2>3. t \in Seq(Profiles) /\ Len(t) = Len(s) /\ t[i] = c /\ \A j \in 1 .. Len(s) \ {i} : t[j] = s[j]
    BY <2>1, <2>2
  <2>4. Distinct(t)
    BY <2>1, <2>3 DEF Distinct
  <2>5. /\ c \in ProfilesIn(t) /\ \A d \in ProfilesIn(s) : d.name # c.name => d \in ProfilesIn(t)
        /\ \A d \in ProfilesIn(t) : d = c \/ d \in ProfilesIn(s)
    BY <2>1, <2>3 DEF ProfilesIn
  <2> QED
    BY <1>2, <2>3, <2>4, <2>5 DEF t
<1> QED
  BY <1>1, <1>2

-----------------------------------------------------------------------------
(* The invariant.  While the form of a profile that is in the list is open  *)
(* the cursor is on the list, so a rename onto another profile takes it no *)
(* further than behind the last one; and the profile of a fresh form is in *)
(* the list.                                                               *)

CursorInv == form.open /\ Named(conns, form.orig) # {} => cursor <= Len(conns)
FormInv ==
    /\ form.open \/ form = NoForm
    /\ form.orig # NoName /\ form.fresh => Named(conns, form.orig) # {}
Off == ~running => /\ ~unwritten /\ conns = <<>> /\ cursor = 1 /\ form = NoForm
                   /\ done = {} /\ deletes = {}
ListInv == Types /\ ListAndFile /\ CursorNear /\ CursorInv /\ FormInv /\ Off

LEMMA InitInv == ProfilesInit => ListInv
<1> SUFFICES ASSUME ProfilesInit PROVE ListInv
  OBVIOUS
<1>1. Distinct(<<>>) /\ <<>> \in Seq(Profiles)
  BY DEF Distinct
<1>2. Types
  <2>1. file.items = <<>> /\ file = Absent
    BY DEF ProfilesInit, Absent
  <2>2. form \in [open : BOOLEAN, orig : Names \cup {NoName}, fresh : BOOLEAN]
    BY DEF ProfilesInit, NoForm
  <2>3. running \in BOOLEAN /\ unwritten \in BOOLEAN /\ conns = <<>>
    BY Zenon DEF ProfilesInit
  <2>4. cursor \in Nat \ {0} /\ done \subseteq Names \cup {NoName} /\ deletes \subseteq Deletes
    BY DEF ProfilesInit
  <2> QED
    BY <1>1, <2>1, <2>2, <2>3, <2>4 DEF Types
<1>3. ListAndFile
  BY <1>1 DEF ProfilesInit, ListAndFile, NamesDistinct, FileFollows, Absent, Unreadable
<1> QED
  BY <1>2, <1>3 DEF ProfilesInit, ListInv, CursorNear, CursorInv, FormInv, Off, NoForm

\* What a Save leaves.
LEMMA SaveFacts ==
    ASSUME Types, Distinct(file.items), conns' \in Seq(Profiles), Distinct(conns)',
           SaveWorks \/ SaveFails
    PROVE  /\ file' \in {Absent, Unreadable, Holds(file'.items)}
           /\ file'.items \in Seq(Profiles) /\ Distinct(file'.items)
           /\ unwritten' \in BOOLEAN /\ (~unwritten' => file' = Holds(conns'))
<1>1. CASE SaveWorks
  BY <1>1 DEF SaveWorks, Holds
<1>2. CASE SaveFails
  <2>1. unwritten' = TRUE /\ file' \in AfterFailure(file, conns')
    BY <1>2 DEF SaveFails
  <2>2. CASE file' = file
    BY <2>1, <2>2 DEF Types
  <2>3. CASE file' = Unreadable
    BY <2>1, <2>3 DEF Unreadable, Distinct
  <2>4. ASSUME NEW n \in 0 .. Len(conns'), file' = Holds(SubSeq(conns', 1, n))
        PROVE  /\ file' = Holds(file'.items) /\ file'.items \in Seq(Profiles)
               /\ Distinct(file'.items)
    <3> DEFINE q == SubSeq(conns', 1, n)
    <3>1. q \in Seq(Profiles) /\ Len(q) = n /\ \A j \in 1 .. n : q[j] = conns'[j]
      BY PrefixFacts
    <3>2. n <= Len(conns') /\ DOMAIN conns' = 1 .. Len(conns')
      OBVIOUS
    <3> HIDE DEF q
    <3>3. Distinct(q)
      BY <3>1, <3>2 DEF Distinct
    <3>4. file'.items = q /\ file' = Holds(q)
      BY <2>4 DEF Holds, q
    <3> QED
      BY <3>1, <3>3, <3>4
  <2> QED
    BY <2>1, <2>2, <2>3, <2>4 DEF AfterFailure, Prefixes
<1> QED
  BY <1>1, <1>2

\* The names in a list are names.
LEMMA RealNames ==
    ASSUME NEW s \in Seq(Profiles), NEW c \in ProfilesIn(s)
    PROVE  c \in Profiles /\ c.name \in Names /\ c.name # NoName /\ Len(s) > 0
<1>1. PICK i \in DOMAIN s : c = s[i]
  BY DEF ProfilesIn
<1>2. c \in Profiles /\ Len(s) > 0
  BY <1>1
<1>3. c.name \in Names
  BY <1>2 DEF Profiles
<1> QED
  BY <1>2, <1>3, NamesAssumption

LEMMA InSeq ==
    ASSUME NEW s \in Seq(Profiles), NEW n
    PROVE  Named(s, n) # {} <=> \E c \in ProfilesIn(s) : c.name = n
BY DEF Named, ProfilesIn

LEMMA StoredFacts ==
    ASSUME ListInv, NEW c \in Profiles
    PROVE  /\ Stored(c) \in Seq(Profiles) /\ Distinct(Stored(c))
           /\ c \in ProfilesIn(Stored(c))
           /\ \A d \in ProfilesIn(conns) :
                d.name \notin {c.name, form.orig} => d \in ProfilesIn(Stored(c))
           /\ form.orig # NoName /\ Named(conns, form.orig) # {} => Len(Stored(c)) <= Len(conns)
<1> DEFINE s == IF form.orig \notin {NoName, c.name} THEN Delete(conns, form.orig) ELSE conns
<1>0. conns \in Seq(Profiles) /\ Distinct(conns) /\ Len(conns) \in Nat
  BY DEF ListInv, Types, ListAndFile, NamesDistinct
<1>1. /\ s \in Seq(Profiles) /\ Distinct(s)
      /\ \A d \in ProfilesIn(conns) : d.name # form.orig => d \in ProfilesIn(s)
  BY <1>0, DeleteFacts
<1>2. Stored(c) = Upsert(s, c)
  BY DEF Stored
<1>3. ASSUME form.orig # NoName, Named(conns, form.orig) # {}
      PROVE  Len(Upsert(s, c)) <= Len(conns)
  <2>1. CASE form.orig = c.name
    <3>1. s = conns
      BY <2>1
    <3>2. Len(Upsert(conns, c)) = Len(conns)
      BY <1>0, <1>3, <2>1, UpsertFacts
    <3> QED
      BY <1>0, <3>1, <3>2
  <2>2. CASE form.orig # c.name
    <3>1. Len(s) = Len(conns) - 1
      BY <1>0, <1>3, <2>2, DeleteFacts
    <3> HIDE DEF s
    <3>2. Len(Upsert(s, c)) = Len(s) \/ Len(Upsert(s, c)) = Len(s) + 1
      BY <1>1, UpsertFacts
    <3>3. Len(s) + 1 = Len(conns)
      BY <1>0, <3>1
    <3>4. Len(conns) - 1 <= Len(conns)
      BY <1>0
    <3> QED
      BY <1>0, <3>1, <3>2, <3>3, <3>4
  <2> QED
    BY <2>1, <2>2
<1> HIDE DEF s
<1>4. /\ Upsert(s, c) \in Seq(Profiles) /\ Distinct(Upsert(s, c)) /\ c \in ProfilesIn(Upsert(s, c))
      /\ \A d \in ProfilesIn(s) : d.name # c.name => d \in ProfilesIn(Upsert(s, c))
  BY <1>1, UpsertFacts
<1> QED
  BY <1>1, <1>2, <1>3, <1>4

\* A profile of the form's name is there afterwards only when it is saved under it.
LEMMA StoredLength ==
    ASSUME ListInv, NEW c \in Profiles
    PROVE  /\ Len(Stored(c)) \in Nat /\ Len(Stored(c)) >= Len(conns) - 1
           /\ Named(conns, form.orig) = {} => Len(Stored(c)) >= Len(conns)
           /\ Named(Stored(c), form.orig) # {} =>
                Len(Stored(c)) = IF Named(conns, form.orig) = {} THEN Len(conns) + 1 ELSE Len(conns)
<1> DEFINE s == IF form.orig \notin {NoName, c.name} THEN Delete(conns, form.orig) ELSE conns
<1>0. conns \in Seq(Profiles) /\ Distinct(conns) /\ Len(conns) \in Nat
  BY DEF ListInv, Types, ListAndFile, NamesDistinct
<1>1. Stored(c) = Upsert(s, c)
  BY DEF Stored
<1>2. /\ s \in Seq(Profiles) /\ Distinct(s) /\ Len(s) \in Nat
      /\ Len(s) = IF s = conns \/ Named(conns, form.orig) = {} THEN Len(conns) ELSE Len(conns) - 1
      /\ s # conns => Named(s, form.orig) = {} /\ form.orig # c.name
      /\ form.orig \notin {NoName, c.name} => Named(s, form.orig) = {}
  BY <1>0, DeleteFacts
<1>3. s = conns \/ form.orig \notin {NoName, c.name}
  OBVIOUS
<1> HIDE DEF s
<1>4. /\ Stored(c) \in Seq(Profiles)
      /\ Len(Stored(c)) = IF Named(s, c.name) = {} THEN Len(s) + 1 ELSE Len(s)
      /\ \A d \in ProfilesIn(Stored(c)) : d = c \/ d \in ProfilesIn(s)
  BY <1>1, <1>2, UpsertFacts
<1>5. ASSUME Named(Stored(c), form.orig) # {} PROVE form.orig = c.name /\ s = conns
  <2>1. PICK d \in ProfilesIn(Stored(c)) : d.name = form.orig
    BY <1>4, <1>5, InSeq
  <2>2. d \in Profiles /\ form.orig # NoName
    BY <1>4, <2>1, RealNames
  <2>3. CASE form.orig \notin {NoName, c.name}
    <3>1. d = c \/ d \in ProfilesIn(s)
      BY <1>4, <2>1
    <3>2. Named(s, form.orig) = {}
      BY <1>2, <2>3
    <3> QED
      BY <1>2, <2>1, <2>3, <3>1, <3>2, InSeq
  <2>4. form.orig = c.name
    BY <2>2, <2>3
  <2> QED
    BY <1>2, <1>3, <2>4
<1> QED
  BY <1>0, <1>2, <1>4, <1>5

LEMMA SubmitKept == ASSUME ListInv, NEW c \in Profiles, Submit(c) PROVE ListInv'
<1>1. /\ conns' = Stored(c) /\ running /\ running' /\ UNCHANGED <<cursor, deletes>> /\ form.open
      /\ form' = [form EXCEPT !.fresh = FALSE]
  BY DEF Submit, InForm
<1>2. conns' \in Seq(Profiles) /\ Distinct(conns)' /\ c \in ProfilesIn(conns')
  BY <1>1, StoredFacts
<1>3. SaveWorks \/ SaveFails
  BY DEF Submit
<1>4. /\ file' \in {Absent, Unreadable, Holds(file'.items)}
      /\ file'.items \in Seq(Profiles) /\ Distinct(file'.items)
      /\ unwritten' \in BOOLEAN /\ (~unwritten' => file' = Holds(conns'))
  BY <1>2, <1>3, SaveFacts DEF ListInv, ListAndFile, NamesDistinct
<1>5. done' \subseteq Names \cup {NoName}
  BY DEF Submit, ListInv, Types, Profiles
<1>6. /\ form' \in [open : BOOLEAN, orig : Names \cup {NoName}, fresh : BOOLEAN]
      /\ form'.orig = form.orig /\ form'.open /\ ~form'.fresh
  BY <1>1 DEF ListInv, Types
<1>7. Types'
  BY <1>1, <1>2, <1>4, <1>5, <1>6 DEF ListInv, Types
<1>8. ListAndFile'
  BY <1>1, <1>2, <1>4 DEF ListAndFile, NamesDistinct, FileFollows, Holds, Unreadable
<1>9. CursorNear' /\ CursorInv'
  <2>1. /\ Len(conns') >= Len(conns) - 1 /\ Len(conns') \in Nat
        /\ Named(conns, form.orig) = {} => Len(conns') >= Len(conns)
        /\ Named(conns', form.orig) # {} =>
             Len(conns') = IF Named(conns, form.orig) = {} THEN Len(conns) + 1 ELSE Len(conns)
    BY <1>1, StoredLength
  <2>2. /\ cursor \in Nat /\ Len(conns) \in Nat /\ cursor <= Len(conns) + 1 /\ cursor' = cursor
        /\ Named(conns, form.orig) # {} => cursor <= Len(conns)
    BY <1>1 DEF ListInv, Types, CursorNear, CursorInv
  <2> QED
    BY <1>6, <2>1, <2>2 DEF CursorNear, CursorInv
<1> QED
  BY <1>1, <1>6, <1>7, <1>8, <1>9 DEF ListInv, FormInv, Off

LEMMA DeleteKept == ASSUME ListInv, NEW d \in deletes, DeleteConn(d) PROVE ListInv'
<1>1. /\ conns' = Delete(conns, d.name) /\ running /\ running' /\ done' = done
      /\ deletes' \subseteq deletes /\ cursor' = CursorAfter(Len(conns'))
      /\ form' = IF form.orig = d.name THEN [form EXCEPT !.fresh = FALSE] ELSE form
  BY DEF DeleteConn
<1>0. conns \in Seq(Profiles) /\ Distinct(conns) /\ Len(conns) \in Nat /\ cursor \in Nat \ {0}
  BY DEF ListInv, Types, ListAndFile, NamesDistinct
<1>2. /\ conns' \in Seq(Profiles) /\ Distinct(conns)' /\ Named(conns', d.name) = {}
      /\ Len(conns') = IF Named(conns, d.name) = {} THEN Len(conns) ELSE Len(conns) - 1
      /\ \A c \in ProfilesIn(conns') : c \in ProfilesIn(conns)
      /\ \A c \in ProfilesIn(conns) : c.name # d.name => c \in ProfilesIn(conns')
  BY <1>0, <1>1, DeleteFacts
<1>3. SaveWorks \/ SaveFails
  BY DEF DeleteConn
<1>4. /\ file' \in {Absent, Unreadable, Holds(file'.items)}
      /\ file'.items \in Seq(Profiles) /\ Distinct(file'.items)
      /\ unwritten' \in BOOLEAN /\ (~unwritten' => file' = Holds(conns'))
  BY <1>2, <1>3, SaveFacts DEF ListInv, ListAndFile, NamesDistinct
<1>5. Len(conns') \in Nat /\ cursor' = IF cursor > Len(conns') /\ cursor > 1 THEN cursor - 1 ELSE cursor
  BY <1>1, <1>2 DEF CursorAfter
<1>6. /\ form' \in [open : BOOLEAN, orig : Names \cup {NoName}, fresh : BOOLEAN]
      /\ form'.orig = form.orig /\ form'.open = form.open
      /\ form'.fresh => form.fresh /\ form.orig # d.name
  BY <1>1 DEF ListInv, Types
<1>7. Types'
  BY <1>0, <1>1, <1>2, <1>4, <1>5, <1>6 DEF ListInv, Types
<1>8. ListAndFile'
  BY <1>1, <1>2, <1>4 DEF ListAndFile, NamesDistinct, FileFollows, Holds, Unreadable
<1>9. CursorNear' /\ CursorInv'
  <2>1. Named(conns', form.orig) # {} => Named(conns, form.orig) # {} /\ Len(conns') > 0
    <3> SUFFICES ASSUME Named(conns', form.orig) # {}
                 PROVE  Named(conns, form.orig) # {} /\ Len(conns') > 0
      OBVIOUS
    <3>1. PICK c \in ProfilesIn(conns') : c.name = form.orig
      BY <1>2, InSeq
    <3>2. Len(conns') > 0
      BY <1>2, <3>1, RealNames
    <3> QED
      BY <1>0, <1>2, <3>1, <3>2, InSeq
  <2>2. /\ cursor <= Len(conns) + 1
        /\ form.open /\ Named(conns, form.orig) # {} => cursor <= Len(conns)
    BY DEF ListInv, CursorNear, CursorInv
  <2> QED
    BY <1>0, <1>2, <1>5, <1>6, <2>1, <2>2 DEF CursorNear, CursorInv
<1>10. FormInv'
  <2>1. form'.open \/ form' = NoForm
    <3>1. CASE form.open
      BY <1>6, <3>1
    <3>2. CASE ~form.open
      <4>1. form = NoForm /\ form.orig = NoName /\ d.name \in Names
        BY <3>2 DEF ListInv, FormInv, NoForm, Types, Deletes
      <4> QED
        BY <1>1, <4>1, NamesAssumption
    <3> QED
      BY <3>1, <3>2
  <2>2. ASSUME form.orig # NoName, form'.fresh PROVE Named(conns', form.orig) # {}
    <3>1. Named(conns, form.orig) # {} /\ form.orig # d.name
      BY <1>6, <2>2 DEF ListInv, FormInv
    <3> QED
      BY <1>0, <1>2, <3>1, InSeq
  <2> QED
    BY <1>6, <2>1, <2>2 DEF FormInv
<1> QED
  BY <1>1, <1>7, <1>8, <1>9, <1>10 DEF ListInv, Off

LEMMA DoneKept == ASSUME ListInv, NEW n \in Names, FormDone(n) PROVE ListInv'
<1>1. /\ running /\ running' /\ n \in done /\ done' = done \ {n} /\ form' = NoForm
      /\ UNCHANGED <<conns, file, deletes, unwritten>>
  BY DEF FormDone
<1>0. conns \in Seq(Profiles) /\ Distinct(conns) /\ cursor \in Nat \ {0} /\ DOMAIN conns = 1 .. Len(conns)
  BY DEF ListInv, Types, ListAndFile, NamesDistinct
<1> USE DEF ListInv, Types, ListAndFile, NamesDistinct, FileFollows, CursorNear, CursorInv, FormInv, Off, NoForm
<1>2. CASE Named(conns, n) = {}
  BY <1>1, <1>2 DEF FormDone
<1>3. CASE Named(conns, n) # {}
  <2>1. PICK i \in 1 .. Len(conns) : Named(conns, n) = {i}
    BY <1>0, <1>3 DEF Named, Distinct
  <2>2. cursor' = i
    BY <1>3, <2>1 DEF FormDone
  <2> QED
    BY <1>0, <1>1, <2>2
<1> QED
  BY <1>2, <1>3

LEMMA StartKept == ASSUME ListInv, Launch PROVE ListInv'
<1>1. ~running /\ file # Unreadable /\ running' = TRUE /\ conns' = file.items
      /\ UNCHANGED <<file, cursor, form, done, deletes, unwritten>>
  BY DEF Launch
<1>2. cursor = 1 /\ form = NoForm /\ ~unwritten
  BY <1>1 DEF ListInv, Off
<1>3. Types' /\ ListAndFile'
  BY <1>1 DEF ListInv, Types, ListAndFile, NamesDistinct, FileFollows, Absent, Holds
<1>4. CursorNear' /\ CursorInv' /\ FormInv'
  <2>1. Len(conns') \in Nat
    BY <1>3 DEF Types
  <2> QED
    BY <1>1, <1>2, <2>1 DEF CursorNear, CursorInv, FormInv, NoForm
<1> QED
  BY <1>1, <1>3, <1>4 DEF ListInv, Off

\* The steps of a delete before it is done.
LEMMA DeletesKept ==
    ASSUME ListInv, \/ AskDelete
                    \/ \E d \in deletes : ShowDelete(d) \/ AnswerDelete(d)
    PROVE  ListInv'
<1>1. running /\ UNCHANGED <<running, conns, file, cursor, form, done, unwritten>>
  BY DEF AskDelete, OnList, ShowDelete, AnswerDelete
<1>2. deletes' \subseteq Deletes
  <2>1. deletes \subseteq Deletes
    BY DEF ListInv, Types
  <2>2. CASE AskDelete
    <3>1. conns[cursor] \in Profiles
      BY <2>2 DEF AskDelete, Selected, ListInv, Types
    <3>2. conns[cursor].name \in Names
      BY <3>1 DEF Profiles
    <3> QED
      BY <2>1, <2>2, <3>2 DEF AskDelete, Deletes
  <2>3. ASSUME NEW d \in deletes, ShowDelete(d) PROVE deletes' \subseteq Deletes
    BY <2>1, <2>3 DEF ShowDelete, Deletes
  <2>4. ASSUME NEW d \in deletes, AnswerDelete(d) PROVE deletes' \subseteq Deletes
    BY <2>1, <2>4 DEF AnswerDelete, Deletes
  <2> QED
    BY <2>2, <2>3, <2>4
<1> QED
  BY <1>1, <1>2
  DEF ListInv, Types, ListAndFile, NamesDistinct, FileFollows, CursorNear, CursorInv, FormInv, Off

LEMMA InvStep == ListInv /\ [ProfilesNext]_profileVars => ListInv'
<1> SUFFICES ASSUME ListInv, [ProfilesNext]_profileVars PROVE ListInv'
  OBVIOUS
<1>0. conns \in Seq(Profiles) /\ Len(conns) \in Nat /\ cursor \in Nat \ {0}
  BY DEF ListInv, Types
<1> USE DEF ListInv, Types, ListAndFile, NamesDistinct, FileFollows, CursorNear, CursorInv, FormInv, Off
<1>1. CASE MoveCursor
  BY <1>0, <1>1 DEF MoveCursor, OnList
<1>2. CASE OpenNew
  <2>1. Named(conns, NoName) = {}
    BY <1>0, InSeq, RealNames
  <2> QED
    BY <1>2, <2>1 DEF OpenNew, FormOn
<1>3. CASE OpenEdit
  <2>1. conns[cursor] \in Profiles /\ Named(conns, conns[cursor].name) # {} /\ cursor <= Len(conns)
    BY <1>0, <1>3 DEF OpenEdit, Selected, Named
  <2> QED
    BY <1>3, <2>1, NamesAssumption DEF OpenEdit, OnList, FormOn, Profiles
<1>4. CASE Cancel \/ FormCancelled
  <2>1. /\ running /\ UNCHANGED <<running, conns, file, cursor, deletes, unwritten>>
        /\ form' = form \/ form' = NoForm
    BY <1>4 DEF Cancel, InForm, FormCancelled
  <2>2. done' \subseteq Names \cup {NoName}
    BY <1>4 DEF Cancel, FormCancelled
  <2>3. form' \in [open : BOOLEAN, orig : Names \cup {NoName}, fresh : BOOLEAN]
    <3>1. NoForm \in [open : BOOLEAN, orig : Names \cup {NoName}, fresh : BOOLEAN]
      BY DEF NoForm
    <3>2. form \in [open : BOOLEAN, orig : Names \cup {NoName}, fresh : BOOLEAN]
      OBVIOUS
    <3> QED
      BY <2>1, <3>1, <3>2, Zenon
  <2>4. CASE form' = form
    BY <2>1, <2>2, <2>3, <2>4
  <2>5. CASE form' = NoForm
    BY <2>1, <2>2, <2>3, <2>5 DEF NoForm
  <2> QED
    BY <2>1, <2>4, <2>5
<1>5. CASE Quit
  <2>1. Distinct(<<>>) /\ <<>> \in Seq(Profiles)
    BY DEF Distinct
  <2>2. /\ running' \in BOOLEAN /\ unwritten' \in BOOLEAN /\ conns' = <<>> /\ done' = {}
        /\ deletes' = {} /\ ~unwritten' /\ ~running'
    BY <1>5, Zenon DEF Quit
  <2>3. /\ cursor' = 1 /\ form' = NoForm /\ form'.orig = NoName /\ ~form'.open /\ ~form'.fresh
        /\ form' \in [open : BOOLEAN, orig : Names \cup {NoName}, fresh : BOOLEAN]
    BY <1>5 DEF Quit, NoForm
  <2> QED
    BY <1>5, <2>1, <2>2, <2>3 DEF Quit
<1>6. CASE Removed
  BY <1>6 DEF Removed, Absent, Distinct
<1>7. CASE UNCHANGED profileVars
  BY <1>7 DEF profileVars
<1> QED
  BY <1>1, <1>2, <1>3, <1>4, <1>5, <1>6, <1>7, SubmitKept, DoneKept, DeleteKept, DeletesKept, StartKept
  DEF ProfilesNext

\* Every reachable state of the profiles satisfies the invariant; the theorems
\* below are what it says and what a step from it can do.
LEMMA InvAlways == ProfilesSpec => []ListInv
BY InitInv, InvStep, PTL DEF ProfilesSpec

\* The variables of Profiles stay in their domains, and the cursor is on a
\* profile or on the place behind the last one, in any order of the messages.
THEOREM ProfilesTyped == ProfilesSpec => []ProfilesTypeOK
<1>1. ListInv => ProfilesTypeOK
  BY DEF ListInv, ProfilesTypeOK
<1> QED
  BY <1>1, InvAlways, PTL

\* A name stands for one profile, in memory and in the file, and the file says
\* what is in memory unless its last write failed.
THEOREM ListAndFileAgree == ProfilesSpec => []ListAndFile
<1>1. ListInv => ListAndFile
  BY DEF ListInv
<1> QED
  BY <1>1, InvAlways, PTL

\* The steps that change the list while the program runs.
LEMMA ListSteps ==
    ASSUME [ProfilesNext]_profileVars, running, running'
    PROVE  \/ \E c \in Profiles : Submit(c)
           \/ \E d \in deletes : DeleteConn(d)
           \/ UNCHANGED conns
BY DEF ProfilesNext, profileVars, MoveCursor, OpenNew, OpenEdit, Cancel, FormCancelled, FormDone,
       AskDelete, ShowDelete, AnswerDelete, Quit, Launch, Removed

LEMMA OthersKeptStep ==
    ASSUME ListInv, [ProfilesNext]_profileVars, running, running',
           NEW c \in ProfilesIn(conns) \ ProfilesIn(conns')
    PROVE  \/ form.open /\ c.name = form.orig
           \/ form.open /\ \E d \in ProfilesIn(conns') : d.name = c.name
           \/ \E d \in deletes \ deletes' : d.name = c.name /\ d.at = "confirmed"
<1>1. ASSUME NEW d \in Profiles, Submit(d)
      PROVE  form.open /\ (c.name = form.orig \/ \E e \in ProfilesIn(conns') : e.name = c.name)
  <2>1. form.open /\ conns' = Stored(d)
    BY <1>1 DEF Submit, InForm
  <2> QED
    BY <2>1, StoredFacts
<1>2. ASSUME NEW d \in deletes, DeleteConn(d)
      PROVE  d \notin deletes' /\ d.name = c.name /\ d.at = "confirmed"
  <2>1. conns' = Delete(conns, d.name) /\ d \notin deletes' /\ d.at = "confirmed"
    BY <1>2 DEF DeleteConn
  <2>2. conns \in Seq(Profiles) /\ Distinct(conns)
    BY DEF ListInv, Types, ListAndFile, NamesDistinct
  <2>3. c.name = d.name
    BY <2>1, <2>2, DeleteFacts
  <2> QED
    BY <2>1, <2>3
<1> QED
  BY <1>1, <1>2, ListSteps

LEMMA EditAddsNoneStep ==
    ASSUME ListInv, [ProfilesNext]_profileVars, running, running', form.orig # NoName, form.fresh
    PROVE  Len(conns') <= Len(conns)
<1>1. conns \in Seq(Profiles) /\ Distinct(conns) /\ Len(conns) \in Nat
  BY DEF ListInv, Types, ListAndFile, NamesDistinct
<1>2. ASSUME NEW c \in Profiles, Submit(c) PROVE Len(conns') <= Len(conns)
  BY <1>2, StoredFacts DEF Submit, ListInv, FormInv
<1>3. ASSUME NEW d \in deletes, DeleteConn(d) PROVE Len(conns') <= Len(conns)
  <2>1. conns' = Delete(conns, d.name)
    BY <1>3 DEF DeleteConn
  <2>2. Len(conns') = Len(conns) \/ Len(conns') = Len(conns) - 1
    BY <1>1, <2>1, DeleteFacts
  <2> QED
    BY <1>1, <2>2
<1> QED
  BY <1>1, <1>2, <1>3, ListSteps

\* Saving a form and deleting change no profile but the one they are about,
\* however far the confirmation and the delete are apart; and saving the form of a
\* profile adds none when it is saved for the first time and the profile has not
\* been deleted under it.
THEOREM OnlyMeantChanges == ProfilesSpec => OnlyMeant
<1>1. ListInv /\ [ProfilesNext]_profileVars =>
        [running /\ running' => \A c \in ProfilesIn(conns) \ ProfilesIn(conns') :
         \/ form.open /\ c.name = form.orig
         \/ form.open /\ \E d \in ProfilesIn(conns') : d.name = c.name
         \/ \E d \in deletes \ deletes' : d.name = c.name /\ d.at = "confirmed"]_profileVars
  BY OthersKeptStep
<1>2. ListInv /\ [ProfilesNext]_profileVars =>
        [running /\ running' /\ form.orig # NoName /\ form.fresh =>
            Len(conns') <= Len(conns)]_profileVars
  BY EditAddsNoneStep
<1>3. ProfilesSpec => OthersKept
  BY <1>1, InvAlways, PTL DEF ProfilesSpec, OthersKept
<1>4. ProfilesSpec => EditAddsNone
  BY <1>2, InvAlways, PTL DEF ProfilesSpec, EditAddsNone
<1> QED
  BY <1>3, <1>4, PTL DEF OnlyMeant

-----------------------------------------------------------------------------
(* The lists of searches and what is done to them.                         *)

LEMMA PrefixUnique ==
    ASSUME NEW S, NEW s \in Seq(S), Unique(s), NEW n \in 0 .. Len(s)
    PROVE  Unique(SubSeq(s, 1, n))
<1> DEFINE q == SubSeq(s, 1, n)
<1>1. q \in Seq(S) /\ Len(q) = n /\ \A j \in 1 .. n : q[j] = s[j]
  BY PrefixFacts
<1>2. n <= Len(s) /\ DOMAIN s = 1 .. Len(s) /\ DOMAIN q = 1 .. n
  BY <1>1
<1> HIDE DEF q
<1>3. Unique(q)
  BY <1>1, <1>2 DEF Unique
<1> QED
  BY <1>3 DEF q

LEMMA PushFacts ==
    ASSUME NEW S, NEW items \in Seq(S), NEW s \in S, NEW max \in Nat, Unique(items)
    PROVE  /\ Push(items, s, max) \in Seq(S) /\ Unique(Push(items, s, max))
           /\ max > 0 => Len(Push(items, s, max)) <= max
<1> DEFINE r == Rest(items, s)
           out == <<s>> \o r
<1>1. /\ r \in Seq(S)
      /\ \A j \in DOMAIN r : \E x \in DOMAIN items : Kept(items[x], s) /\ r[j] = items[x]
      /\ \A j, k \in DOMAIN r :
           j # k => \E x, y \in DOMAIN items : x # y /\ r[j] = items[x] /\ r[k] = items[y]
  BY RestFacts
<1> HIDE DEF r
<1>2. /\ out \in Seq(S) /\ Len(out) = Len(r) + 1 /\ out[1] = s
      /\ \A j \in 2 .. Len(r) + 1 : j - 1 \in DOMAIN r /\ out[j] = r[j - 1]
  BY <1>1, FrontFacts
<1>3. Push(items, s, max) = IF max > 0 /\ Len(out) > max THEN SubSeq(out, 1, max) ELSE out
  BY DEF Push, r
<1> HIDE DEF out
<1>4. \A j \in DOMAIN r : r[j] # s
  BY <1>1 DEF Kept
<1>5. Unique(r)
  <2> SUFFICES ASSUME NEW j \in DOMAIN r, NEW k \in DOMAIN r, r[j] = r[k], j # k PROVE FALSE
    BY DEF Unique
  <2>1. PICK x \in DOMAIN items, y \in DOMAIN items :
          x # y /\ r[j] = items[x] /\ r[k] = items[y]
    BY <1>1
  <2> QED
    BY <2>1 DEF Unique
<1>6. Unique(out)
  <2> SUFFICES ASSUME NEW j \in DOMAIN out, NEW k \in DOMAIN out, out[j] = out[k], j # k
               PROVE  FALSE
    BY DEF Unique
  <2>1. Len(r) \in Nat /\ j \in 1 .. Len(r) + 1 /\ k \in 1 .. Len(r) + 1
    BY <1>1, <1>2
  <2>2. CASE j = 1
    BY <1>2, <1>4, <2>1, <2>2
  <2>3. CASE k = 1
    BY <1>2, <1>4, <2>1, <2>3
  <2>4. CASE j # 1 /\ k # 1
    <3>1. j \in 2 .. Len(r) + 1 /\ k \in 2 .. Len(r) + 1 /\ j - 1 # k - 1
      BY <2>1, <2>4
    <3> QED
      BY <1>2, <1>5, <3>1 DEF Unique
  <2> QED
    BY <2>2, <2>3, <2>4
<1>7. CASE max > 0 /\ Len(out) > max
  <2>1. max \in 0 .. Len(out)
    BY <1>2, <1>7
  <2> QED
    BY <1>2, <1>3, <1>6, <1>7, <2>1, PrefixFacts, PrefixUnique
<1>8. CASE ~(max > 0 /\ Len(out) > max)
  BY <1>2, <1>3, <1>6, <1>8
<1> QED
  BY <1>7, <1>8

LEMMA RemoveFacts ==
    ASSUME NEW S, NEW items \in Seq(S), NEW i, Unique(items)
    PROVE  RemoveItem(items, i) \in Seq(S) /\ Unique(RemoveItem(items, i))
<1>1. CASE i \notin DOMAIN items
  BY <1>1 DEF RemoveItem
<1>2. CASE i \in DOMAIN items
  <2> DEFINE t == Cut(items, i)
  <2>1. RemoveItem(items, i) = t
    BY <1>2 DEF RemoveItem, Cut
  <2>2. t \in Seq(S)
    BY <1>2, CutFacts
  <2>3. \A j, k \in DOMAIN t :
          j # k => \E x, y \in DOMAIN items : x # y /\ t[j] = items[x] /\ t[k] = items[y]
    BY <1>2, CutElements
  <2> HIDE DEF t
  <2>4. Unique(t)
    <3> SUFFICES ASSUME NEW j \in DOMAIN t, NEW k \in DOMAIN t, t[j] = t[k], j # k PROVE FALSE
      BY DEF Unique
    <3>1. PICK x \in DOMAIN items, y \in DOMAIN items :
            x # y /\ t[j] = items[x] /\ t[k] = items[y]
      BY <2>3
    <3> QED
      BY <3>1 DEF Unique
  <2> QED
    BY <2>1, <2>2, <2>4
<1> QED
  BY <1>1, <1>2

-----------------------------------------------------------------------------
(* The invariant: a list and its file hold searches of the right kind, none*)
(* twice, within the bound (max = 0: no bound), and the file follows.      *)

SoundItems(s, S, max) == s \in Seq(S) /\ Unique(s) /\ (max > 0 => Len(s) <= max)
ListOf(l, S, max) == l \in {NoList, List(l.items)} /\ SoundItems(l.items, S, max)
FileOf(f, S, max) ==
    f \in {Absent, Unreadable, Holds(f.items)} /\ SoundItems(f.items, S, max)
HistoryInv ==
    /\ ListOf(history, HistoryItems, HistoryMax) /\ FileOf(hfile, HistoryItems, HistoryMax)
    /\ on /\ history.list /\ "history" \notin unsaved => hfile.items = history.items
BookmarksInv ==
    /\ ListOf(bookmarks, Bookmarks, 0) /\ FileOf(bfile, Bookmarks, 0)
    /\ on /\ bookmarks.list /\ "bookmarks" \notin unsaved => Follows(bookmarks, bfile)
FlagsInv ==
    /\ on \in BOOLEAN /\ fresh \in BOOLEAN /\ ffresh \in BOOLEAN
    /\ unsaved \subseteq {"history", "bookmarks"}
SearchInv == HistoryInv /\ BookmarksInv /\ FlagsInv

LEMMA NoItems == ASSUME NEW S, NEW max \in Nat PROVE SoundItems(<<>>, S, max)
<1>1. <<>> \in Seq(S) /\ Len(<<>>) = 0 /\ DOMAIN <<>> = {}
  OBVIOUS
<1> QED
  BY <1>1 DEF SoundItems, Unique

LEMMA Bounds == HistoryMax \in Nat /\ HistoryMax > 0
BY LabelsAssumption

LEMMA ListFacts ==
    ASSUME NEW S, NEW max \in Nat
    PROVE  /\ ListOf(NoList, S, max) /\ FileOf(Absent, S, max) /\ FileOf(Unreadable, S, max)
           /\ \A s : SoundItems(s, S, max) => ListOf(List(s), S, max) /\ FileOf(Holds(s), S, max)
BY NoItems DEF ListOf, FileOf, NoList, List, Absent, Unreadable, Holds

LEMMA LoadedFacts ==
    ASSUME NEW S, NEW max \in Nat, NEW f, FileOf(f, S, max)
    PROVE  ListOf(Loaded(f), S, max) /\ (Loaded(f).list => Loaded(f).items = f.items)
<1>1. CASE f = Unreadable
  BY <1>1, ListFacts DEF Loaded, NoList
<1>2. CASE f # Unreadable
  <2>1. SoundItems(f.items, S, max)
    BY DEF FileOf
  <2>2. Loaded(f) = List(f.items)
    BY <1>2 DEF Loaded
  <2>3. ListOf(List(f.items), S, max)
    BY <2>1, ListFacts
  <2>4. List(f.items).items = f.items
    BY DEF List
  <2> QED
    BY <2>2, <2>3, <2>4
<1> QED
  BY <1>1, <1>2

\* What a write that fails leaves is no worse than what was there.
LEMMA FailureFacts ==
    ASSUME NEW S, NEW max \in Nat, NEW f, FileOf(f, S, max),
           NEW items, SoundItems(items, S, max), NEW g \in AfterFailure(f, items)
    PROVE  FileOf(g, S, max)
<1>1. CASE g \in {f, Unreadable}
  BY <1>1, ListFacts
<1>2. ASSUME NEW n \in 0 .. Len(items), g = Holds(SubSeq(items, 1, n))
      PROVE  FileOf(g, S, max)
  <2> DEFINE q == SubSeq(items, 1, n)
  <2>1. items \in Seq(S) /\ Unique(items) /\ (max > 0 => Len(items) <= max)
    BY DEF SoundItems
  <2>2. q \in Seq(S) /\ Len(q) = n /\ Unique(q)
    BY <2>1, PrefixFacts, PrefixUnique
  <2>3. max > 0 => n <= max
    <3>1. Len(items) \in Nat
      BY <2>1
    <3> QED
      BY <2>1, <3>1
  <2> HIDE DEF q
  <2>4. SoundItems(q, S, max)
    BY <2>2, <2>3 DEF SoundItems
  <2> QED
    BY <1>2, <2>4, ListFacts DEF q
<1> QED
  BY <1>1, <1>2 DEF AfterFailure, Prefixes

LEMMA HistorySaved ==
    ASSUME SearchInv, ListOf(history', HistoryItems', HistoryMax), on', SaveHistory,
           UNCHANGED <<bookmarks, bfile>>, on
    PROVE  HistoryInv' /\ BookmarksInv' /\ unsaved' \subseteq {"history", "bookmarks"}
<1>0. HistoryItems' = HistoryItems /\ Bookmarks' = Bookmarks
  BY DEF HistoryItems, Bookmarks, Saved, Items
<1>1. /\ FileOf(hfile, HistoryItems, HistoryMax) /\ unsaved \subseteq {"history", "bookmarks"}
      /\ SoundItems(history'.items, HistoryItems, HistoryMax)
  BY <1>0 DEF SearchInv, HistoryInv, FlagsInv, ListOf
<1>2. CASE hfile' = Holds(history'.items) /\ unsaved' = unsaved \ {"history"}
  <2>1. FileOf(hfile', HistoryItems, HistoryMax)
    BY <1>1, <1>2, Bounds, ListFacts
  <2>2. hfile'.items = history'.items
    BY <1>2 DEF Holds
  <2> QED
    BY <1>0, <1>1, <1>2, <2>1, <2>2 DEF SearchInv, HistoryInv, BookmarksInv, Follows
<1>3. CASE hfile' \in AfterFailure(hfile, history'.items) /\ unsaved' = unsaved \cup {"history"}
  <2>1. FileOf(hfile', HistoryItems, HistoryMax)
    BY <1>1, <1>3, Bounds, FailureFacts
  <2> QED
    BY <1>0, <1>1, <1>3, <2>1 DEF SearchInv, HistoryInv, BookmarksInv, Follows
<1> QED
  BY <1>2, <1>3 DEF SaveHistory

LEMMA BookmarksSaved ==
    ASSUME BookmarksInv, FlagsInv, ListOf(bookmarks', Bookmarks', 0), bookmarks'.list,
           fresh' \in BOOLEAN, SaveBookmarks
    PROVE  /\ BookmarksInv' /\ ffresh' \in BOOLEAN /\ unsaved' \subseteq {"history", "bookmarks"}
           /\ "history" \in unsaved' <=> "history" \in unsaved
<1>0. Bookmarks' = Bookmarks
  BY DEF Bookmarks, Saved, Items
<1>1. /\ FileOf(bfile, Bookmarks, 0) /\ unsaved \subseteq {"history", "bookmarks"}
      /\ SoundItems(bookmarks'.items, Bookmarks, 0) /\ ffresh \in BOOLEAN
  BY <1>0 DEF BookmarksInv, FlagsInv, ListOf
<1>2. CASE bfile' = Holds(bookmarks'.items) /\ ffresh' = fresh' /\ unsaved' = unsaved \ {"bookmarks"}
  <2>1. FileOf(bfile', Bookmarks, 0)
    BY <1>1, <1>2, ListFacts
  <2>2. Follows(bookmarks', bfile')
    BY <1>2 DEF Holds, Follows, Absent, Unreadable
  <2>3. ffresh' \in BOOLEAN
    BY <1>2, Zenon
  <2> QED
    BY <1>0, <1>1, <1>2, <2>1, <2>2, <2>3 DEF BookmarksInv, Follows
<1>3. CASE /\ bfile' \in AfterFailure(bfile, bookmarks'.items)
           /\ (bfile' = bfile /\ ffresh' = ffresh) \/ ffresh' = FALSE
           /\ unsaved' = unsaved \cup {"bookmarks"}
  <2>1. FileOf(bfile', Bookmarks, 0)
    BY <1>1, <1>3, FailureFacts
  <2>2. ffresh' \in BOOLEAN
    BY <1>1, <1>3, Zenon
  <2> QED
    BY <1>0, <1>1, <1>3, <2>1, <2>2 DEF BookmarksInv
<1> QED
  BY <1>2, <1>3 DEF SaveBookmarks

LEMMA DefaultsSound == SoundItems(Defaults, Bookmarks, 0)
<1>1. \A i \in DOMAIN Defaults : Defaults[i] \in Bookmarks
  BY DEF Bookmarks, Items
<1>2. Defaults \in Seq(Bookmarks)
  BY <1>1, DefaultsAssumption
<1> QED
  BY <1>2, DefaultsAssumption DEF SoundItems, Unique

LEMMA SearchInit == Init => SearchInv
<1> SUFFICES ASSUME Init PROVE SearchInv
  OBVIOUS
<1>1. ListOf(NoList, HistoryItems, HistoryMax) /\ FileOf(Absent, HistoryItems, HistoryMax)
  BY Bounds, ListFacts
<1>2. ListOf(NoList, Bookmarks, 0) /\ FileOf(Absent, Bookmarks, 0)
  BY ListFacts
<1>3. HistoryInv /\ BookmarksInv
  BY <1>1, <1>2 DEF Init, HistoryInv, BookmarksInv
<1>4. FlagsInv
  BY DEF Init, FlagsInv
<1> QED
  BY <1>3, <1>4 DEF SearchInv

LEMMA StartKeeps == SearchInv /\ Start => SearchInv'
<1> SUFFICES ASSUME SearchInv, Start PROVE SearchInv'
  OBVIOUS
<1>0. /\ HistoryItems' = HistoryItems /\ Bookmarks' = Bookmarks
      /\ HistoryInv /\ BookmarksInv /\ FlagsInv
  BY DEF HistoryItems, Bookmarks, Saved, Items, SearchInv
<1>1. /\ history' = Loaded(hfile) /\ hfile' = hfile /\ on' = TRUE
      /\ fresh' = (bfile = Absent \/ ffresh) /\ FileOf(hfile, HistoryItems, HistoryMax)
  BY <1>0 DEF Start, HistoryInv, LoadedFresh
<1>2. HistoryInv'
  <2>1. /\ ListOf(Loaded(hfile), HistoryItems, HistoryMax)
        /\ Loaded(hfile).list => Loaded(hfile).items = hfile.items
    BY <1>1, Bounds, LoadedFacts
  <2> QED
    BY <1>0, <1>1, <2>1 DEF HistoryInv
<1>3. fresh' \in BOOLEAN
  BY <1>1, Zenon
<1>4. CASE fresh'
  <2>1. bookmarks' = List(Defaults) /\ SaveBookmarks
    BY <1>4 DEF Start
  <2>2. ListOf(bookmarks', Bookmarks', 0) /\ bookmarks'.list
    BY <1>0, <2>1, DefaultsSound, ListFacts DEF List
  <2>3. BookmarksInv' /\ ffresh' \in BOOLEAN /\ unsaved' \subseteq {"history", "bookmarks"}
    BY <1>0, <1>3, <2>1, <2>2, BookmarksSaved
  <2> QED
    BY <1>1, <1>2, <1>3, <2>3, Zenon DEF SearchInv, FlagsInv
<1>5. CASE ~fresh'
  <2>1. bookmarks' = Loaded(bfile) /\ UNCHANGED <<bfile, ffresh, unsaved>>
    BY <1>5 DEF Start
  <2>2. /\ ListOf(Loaded(bfile), Bookmarks, 0)
        /\ Loaded(bfile).list => Loaded(bfile).items = bfile.items
    BY <1>0, LoadedFacts DEF BookmarksInv
  <2>3. Loaded(bfile).list => bfile \notin {Absent, Unreadable}
    BY <1>1, <1>5 DEF Loaded, NoList
  <2>4. BookmarksInv'
    BY <1>0, <2>1, <2>2, <2>3 DEF BookmarksInv, Follows
  <2> QED
    BY <1>0, <1>1, <1>2, <1>3, <2>1, <2>4, Zenon DEF SearchInv, FlagsInv
<1> QED
  BY <1>4, <1>5

LEMMA StopKeeps == SearchInv /\ Stop => SearchInv'
<1> SUFFICES ASSUME SearchInv, Stop PROVE SearchInv'
  OBVIOUS
<1>0. HistoryItems' = HistoryItems /\ Bookmarks' = Bookmarks
  BY DEF HistoryItems, Bookmarks, Saved, Items
<1>1. ListOf(NoList, HistoryItems, HistoryMax) /\ ListOf(NoList, Bookmarks, 0)
  BY Bounds, ListFacts
<1>2. HistoryInv' /\ BookmarksInv'
  BY <1>0, <1>1 DEF SearchInv, HistoryInv, BookmarksInv, Stop
<1>3. on' \in BOOLEAN /\ fresh' \in BOOLEAN /\ ffresh' \in BOOLEAN
  BY Zenon DEF SearchInv, FlagsInv, Stop
<1>4. unsaved' \subseteq {"history", "bookmarks"}
  BY DEF Stop
<1> QED
  BY <1>2, <1>3, <1>4 DEF SearchInv, FlagsInv

LEMMA HistoryKeeps ==
    ASSUME SearchInv, on, on' = on, ListOf(history', HistoryItems, HistoryMax), SaveHistory,
           UNCHANGED <<bookmarks, bfile, fresh, ffresh>>
    PROVE  SearchInv'
<1>1. HistoryItems' = HistoryItems
  BY DEF HistoryItems, Saved
<1>2. HistoryInv' /\ BookmarksInv' /\ unsaved' \subseteq {"history", "bookmarks"}
  BY <1>1, HistorySaved
<1>3. on' \in BOOLEAN /\ fresh' \in BOOLEAN /\ ffresh' \in BOOLEAN
  BY Zenon DEF SearchInv, FlagsInv
<1> QED
  BY <1>2, <1>3 DEF SearchInv, FlagsInv

LEMMA RememberKeeps == ASSUME NEW k \in Keys, SearchInv, Remember(k) PROVE SearchInv'
<1>1. SoundItems(history.items, HistoryItems, HistoryMax) /\ Saved(Unnamed, k) \in HistoryItems
  BY DEF SearchInv, HistoryInv, ListOf, HistoryItems
<1>2. SoundItems(Push(history.items, Saved(Unnamed, k), HistoryMax), HistoryItems, HistoryMax)
  BY <1>1, PushFacts, Bounds DEF SoundItems
<1>3. ListOf(history', HistoryItems, HistoryMax)
  BY <1>2, Bounds, ListFacts DEF Remember
<1> QED
  BY <1>3, HistoryKeeps DEF Remember

LEMMA ClearKeeps == SearchInv /\ ClearHistory => SearchInv'
<1> SUFFICES ASSUME SearchInv, ClearHistory PROVE SearchInv'
  OBVIOUS
<1>1. CASE history.list
  <2>1. ListOf(history', HistoryItems, HistoryMax)
    BY <1>1, Bounds, NoItems, ListFacts DEF ClearHistory
  <2> QED
    BY <1>1, <2>1, HistoryKeeps DEF ClearHistory
<1>2. CASE ~history.list
  <2>1. UNCHANGED vars
    BY <1>2 DEF ClearHistory, vars
  <2> QED
    BY <2>1 DEF vars, SearchInv, HistoryInv, BookmarksInv, FlagsInv, HistoryItems, Bookmarks,
                Saved, Items
<1> QED
  BY <1>1, <1>2

LEMMA BookmarksKeep ==
    ASSUME SearchInv, on' = on, ListOf(bookmarks', Bookmarks, 0), bookmarks'.list, SaveBookmarks,
           UNCHANGED <<history, hfile, fresh>>
    PROVE  SearchInv'
<1>1. HistoryItems' = HistoryItems /\ Bookmarks' = Bookmarks
  BY DEF HistoryItems, Bookmarks, Saved, Items
<1>2. on' \in BOOLEAN /\ fresh' \in BOOLEAN
  BY Zenon DEF SearchInv, FlagsInv
<1>3. /\ BookmarksInv' /\ ffresh' \in BOOLEAN /\ unsaved' \subseteq {"history", "bookmarks"}
      /\ "history" \in unsaved' <=> "history" \in unsaved
  BY <1>1, <1>2, BookmarksSaved DEF SearchInv
<1>4. HistoryInv'
  BY <1>1, <1>3 DEF SearchInv, HistoryInv
<1> QED
  BY <1>2, <1>3, <1>4 DEF SearchInv, FlagsInv

LEMMA SaveBookmarkKeeps ==
    ASSUME NEW n \in Labels, NEW k \in Keys, SearchInv, SaveBookmark(n, k) PROVE SearchInv'
<1>1. SoundItems(bookmarks.items, Bookmarks, 0) /\ Saved(n, k) \in Bookmarks
  BY DEF SearchInv, BookmarksInv, ListOf, Bookmarks
<1>2. SoundItems(Push(bookmarks.items, Saved(n, k), 0), Bookmarks, 0)
  BY <1>1, PushFacts DEF SoundItems
<1>3. ListOf(bookmarks', Bookmarks, 0) /\ bookmarks'.list
  BY <1>2, ListFacts DEF SaveBookmark, List
<1> QED
  BY <1>3, BookmarksKeep DEF SaveBookmark

LEMMA DeleteBookmarkKeeps == ASSUME NEW s, SearchInv, DeleteBookmark(s) PROVE SearchInv'
<1>1. SoundItems(bookmarks.items, Bookmarks, 0)
  BY DEF SearchInv, BookmarksInv, ListOf
<1>2. SoundItems(RemoveItem(bookmarks.items, Position(s)), Bookmarks, 0)
  BY <1>1, RemoveFacts DEF SoundItems
<1>3. ListOf(bookmarks', Bookmarks, 0) /\ bookmarks'.list
  BY <1>2, ListFacts DEF DeleteBookmark, List
<1> QED
  BY <1>3, BookmarksKeep DEF DeleteBookmark

LEMMA SearchStep == SearchInv /\ [Next]_vars => SearchInv'
<1> SUFFICES ASSUME SearchInv, [Next]_vars PROVE SearchInv'
  OBVIOUS
<1>1. CASE UNCHANGED vars
  BY <1>1 DEF vars, SearchInv, HistoryInv, BookmarksInv, FlagsInv, HistoryItems, Bookmarks,
              Saved, Items
<1>2. CASE Start \/ Stop \/ ClearHistory
  BY <1>2, StartKeeps, StopKeeps, ClearKeeps
<1>3. ASSUME NEW k \in Keys, Remember(k) PROVE SearchInv'
  BY <1>3, RememberKeeps
<1>4. ASSUME NEW k \in Keys, NEW n \in Labels, SaveBookmark(n, k) PROVE SearchInv'
  BY <1>4, SaveBookmarkKeeps
<1>5. ASSUME NEW s \in Bookmarks, DeleteBookmark(s) PROVE SearchInv'
  BY <1>5, DeleteBookmarkKeeps
<1> QED
  BY <1>1, <1>2, <1>3, <1>4, <1>5 DEF Next

LEMMA SearchAlways == Spec => []SearchInv
BY SearchInit, SearchStep, PTL DEF Spec

LEMMA SearchTypes == SearchInv => TypeOK
BY Bounds DEF SearchInv, HistoryInv, BookmarksInv, FlagsInv, ListOf, FileOf, SoundItems, TypeOK

LEMMA SearchSound == SearchInv => ListsSound
BY DEF SearchInv, HistoryInv, BookmarksInv, ListOf, FileOf, SoundItems, ListsSound, ItemsUnique,
       FilesFollow

\* Every variable stays in its domain, and the history within its bound, in
\* memory and in what any write leaves of its file (connections.go:162, 221).
THEOREM ListsTyped == Spec => []TypeOK
BY SearchAlways, SearchTypes, PTL

\* Whatever is pushed, deleted, lost by a write that fails and read again: no
\* search is in a list or in its file twice, and a list that was read or filled
\* is what the next start reads unless its last write failed
\* (connections.go:196, 208-224).
THEOREM ListsStaySound == Spec => []ListsSound
BY SearchAlways, SearchSound, PTL

\* A list that could not be read is not written over (search.go:331, 368).
THEOREM UnreadableStays == Spec => UnreadableKept
<1>1. [Next]_vars =>
        [on /\ on' => /\ ~history.list => hfile' = hfile
                      /\ ~bookmarks.list => bfile' = bfile]_vars
  BY DEF Next, vars, Start, Stop, Remember, ClearHistory, SaveBookmark, DeleteBookmark
<1> QED
  BY <1>1, PTL DEF Spec, UnreadableKept
=============================================================================
