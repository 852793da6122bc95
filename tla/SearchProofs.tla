---------------------------- MODULE SearchProofs ----------------------------
(***************************************************************************)
(* Theorems about the search screen: about Search for every set of         *)
(* searches, any number of pages, runs, requests in flight and sessions,   *)
(* and any order of the answers; and about FilterBuilder for all           *)
(* conditions and texts that are typed and trees of any size.              *)
(***************************************************************************)
EXTENDS Search, FilterBuilder, ListLemmas, FiniteSetTheorems

-----------------------------------------------------------------------------
(* The invariant, of the requests rs, the search s, the late runs l, the   *)
(* number n of searches started and the number k of the session.           *)

Models ==
    [opened : BOOLEAN, form : Forms, inForm : BOOLEAN, running : BOOLEAN,
     pages : Seq({None} \cup Tags), nexts : Seq({None} \cup Tags), page : 0 .. LastPage,
     last : {None} \cup Searches, lastScp : {None} \cup Scopes, run : 0 .. MaxRuns]

\* A request asks for the page after that of its cookie, and the cookie it is
\* given is that of the page it brings.
WellAsked(r, n) ==
    /\ r \in Requests /\ r.run <= n
    /\ r.run = 0 => r.params = None
    /\ r.cookie = None <=> r.page = 0
    /\ r.cookie # None => r.cookie.page + 1 = r.page
    /\ r.state = "ok" => r.params # None
    /\ r.next # None => r.next = PageOf(r) /\ r.page < LastPage

\* t, a request or a page, is of the search that was started last.
OfRun(t, s, k) == t.run = s.run /\ t.params = s.last /\ t.session = k

\* A request was overtaken, or is of the search that was started last, and its
\* cookie with it.
InTime(r, s, l, k) ==
    /\ r.run \in l \/ OfRun(r, s, k)
    /\ r.cookie # None /\ r.cookie.run \in l => r.run \in l
    /\ r.cookie # None /\ r.cookie.run \notin l =>
         /\ r.cookie.run = r.run /\ r.cookie.params = r.params
         /\ r.cookie.session = r.session

AllAsked(rs, n) == \A i \in DOMAIN rs : WellAsked(rs[i], n)
AllInTime(rs, s, l, k) == \A i \in DOMAIN rs : InTime(rs[i], s, l, k)

\* While the first page of a run is awaited, there is nothing else of that run.
FirstAlone(rs, s, l) ==
    \A i \in DOMAIN rs : rs[i].cookie = None /\ rs[i].run \notin l =>
        /\ \A j \in DOMAIN rs : rs[j].run = rs[i].run => j = i
        /\ \A x \in Loaded(s) : s.pages[x].run # rs[i].run

\* Each page is at its place, with its own cookie, and late or of the search that
\* was started last.
PagesKnown(s, l, n, k) ==
    /\ Len(s.pages) = Len(s.nexts)
    /\ \A x \in DOMAIN s.nexts :
         s.nexts[x] # None => s.nexts[x] = s.pages[x] /\ x <= LastPage
    /\ \A x \in Loaded(s) :
        /\ s.pages[x].page = x - 1 /\ s.pages[x].run <= n
        /\ s.pages[x].run \in l \/ OfRun(s.pages[x], s, k)

\* Pages that are not late have no gap before them, unless it is a late first
\* page that they follow.
FrontLate(s, l) == 1 \in Loaded(s) /\ s.pages[1].run \in l
Reached(s, l, m) == FrontLate(s, l) \/ \A x \in 1 .. m : x \in Loaded(s)
NoGap(rs, s, l) ==
    /\ \A x \in Loaded(s) : s.pages[x].run \notin l => Reached(s, l, x)
    /\ \A i \in DOMAIN rs : rs[i].run \notin l => Reached(s, l, rs[i].page)
    /\ Len(s.pages) > 0 => Len(s.pages) \in Loaded(s)

Settled(rs, s, l, n, k) ==
    /\ AllAsked(rs, n) /\ AllInTime(rs, s, l, k) /\ FirstAlone(rs, s, l)
    /\ PagesKnown(s, l, n, k) /\ NoGap(rs, s, l)

\* With the results in front there is something to show or to wait for.
InFront(rs, s) ==
    /\ s.opened /\ ~s.inForm => DOMAIN rs # {} \/ s.page < Len(s.pages)
    /\ s.run = 0 => s.last = None
    /\ ~s.opened => Len(s.pages) = 0 /\ s.run = 0

Counters ==
    /\ client \in 0 .. MaxSessions /\ sessions \in 1 .. MaxSessions /\ client \in {0, sessions}
    /\ screen \in {"search", "other"}
    /\ runs \in 0 .. MaxRuns /\ late \subseteq 0 .. MaxRuns /\ crashed \in BOOLEAN
    /\ inbox \subseteq {RunMsg} \cup {FilterMsg(a) : a \in Asks}
    /\ history \in Seq(Items)
    /\ HistoryMax > 0 => Len(history) <= HistoryMax

OnShow == ~crashed => InFront(requests, search) /\ (screen = "search" => search.opened)

SearchInv ==
    /\ Counters /\ search \in Models /\ search.run <= runs
    /\ DOMAIN requests \subseteq Ids
    /\ Settled(requests, search, late, runs, sessions)
    /\ OnShow

-----------------------------------------------------------------------------
(* Pages and requests.                                                     *)

LEMMA TagIsSome == None \notin Tags
<1> SUFFICES ASSUME None \in Tags PROVE FALSE
  OBVIOUS
<1>1. DOMAIN None = {"run", "params", "session", "page"}
  BY DEF Tags
<1>2. DOMAIN None = {"none"}
  BY DEF None
<1>3. "none" \in {"run", "params", "session", "page"}
  BY <1>1, <1>2, Zenon
<1> QED
  BY <1>3

LEMMA RequestFields ==
    ASSUME NEW r \in Requests
    PROVE  /\ r.run \in 0 .. MaxRuns /\ r.params \in {None} \cup Searches
           /\ r.page \in 0 .. LastPage /\ r.cookie \in {None} \cup Tags
           /\ r.session \in 1 .. MaxSessions /\ r.state \in {"sent", "ok", "failed"}
           /\ r.next \in {None} \cup Tags
BY DEF Requests

LEMMA TagFields ==
    ASSUME NEW t \in Tags
    PROVE  /\ t.run \in 1 .. MaxRuns /\ t.params \in Searches
           /\ t.session \in 1 .. MaxSessions /\ t.page \in 0 .. LastPage
BY DEF Tags

\* The page a request brings is of its run and the one it asked for.
LEMMA PageFacts ==
    ASSUME NEW r, NEW n \in Nat, WellAsked(r, n)
    PROVE  /\ PageOf(r).run = r.run /\ PageOf(r).params = r.params
           /\ PageOf(r).session = r.session /\ PageOf(r).page = r.page
           /\ r.params # None => PageOf(r) \in Tags
<1>1. r \in Requests
  BY DEF WellAsked
<1>2. /\ PageOf(r).run = r.run /\ PageOf(r).params = r.params /\ PageOf(r).session = r.session
      /\ PageOf(r).page = IF r.cookie = None THEN 0 ELSE r.cookie.page + 1
  BY DEF PageOf
<1>3. PageOf(r).page = r.page
  BY <1>2 DEF WellAsked
<1>4. ASSUME r.params # None PROVE PageOf(r) \in Tags
  <2>1. /\ r.run \in 0 .. MaxRuns /\ r.params \in {None} \cup Searches
        /\ r.page \in 0 .. LastPage /\ r.session \in 1 .. MaxSessions
    BY <1>1, RequestFields
  <2>2. r.run \in 1 .. MaxRuns
    BY <1>4, <2>1, BoundsAssumption DEF WellAsked
  <2>3. PageOf(r) = [run |-> r.run, params |-> r.params, session |-> r.session, page |-> r.page]
    BY <1>3 DEF PageOf
  <2> QED
    BY <1>4, <2>1, <2>2, <2>3 DEF Tags
<1> QED
  BY <1>2, <1>3, <1>4

LEMMA LoadedFacts ==
    ASSUME NEW s, s.pages \in Seq({None} \cup Tags), NEW x \in Loaded(s)
    PROVE  x \in 1 .. Len(s.pages) /\ s.pages[x] \in Tags
BY DEF Loaded

-----------------------------------------------------------------------------
(* What changes of the requests, the search and the late runs do to it.    *)

\* The form, the spinner and which page is in front do not matter.
LEMMA FormOnly ==
    ASSUME NEW rs, NEW s, NEW t, NEW l, NEW n, NEW k, Settled(rs, s, l, n, k),
           t.pages = s.pages, t.nexts = s.nexts, t.last = s.last, t.run = s.run
    PROVE  Settled(rs, t, l, n, k)
<1>1. Loaded(t) = Loaded(s)
  BY DEF Loaded
<1>2. AllAsked(rs, n) /\ AllInTime(rs, t, l, k)
  BY DEF Settled, AllInTime, InTime, OfRun
<1>3. FirstAlone(rs, t, l)
  BY <1>1 DEF Settled, FirstAlone
<1>4. PagesKnown(t, l, n, k)
  BY <1>1 DEF Settled, PagesKnown, OfRun
<1>5. NoGap(rs, t, l)
  BY <1>1 DEF Settled, NoGap, Reached, FrontLate
<1> QED
  BY <1>2, <1>3, <1>4, <1>5 DEF Settled

\* Requests of qs ask for what those of rs did, and some may be gone.
SameAsked(q, r) ==
    /\ q.run = r.run /\ q.params = r.params /\ q.page = r.page /\ q.cookie = r.cookie
    /\ q.session = r.session
Fewer(qs, rs) == \A i \in DOMAIN qs : i \in DOMAIN rs /\ SameAsked(qs[i], rs[i])

LEMMA FewerSettled ==
    ASSUME NEW rs, NEW qs, NEW s, NEW l, NEW n, NEW k, Settled(rs, s, l, n, k),
           Fewer(qs, rs), AllAsked(qs, n)
    PROVE  Settled(qs, s, l, n, k)
<1>1. AllInTime(qs, s, l, k)
  BY DEF Settled, AllInTime, InTime, OfRun, Fewer, SameAsked
<1>2. FirstAlone(qs, s, l)
  BY DEF Settled, FirstAlone, Fewer, SameAsked
<1>3. NoGap(qs, s, l)
  BY DEF Settled, NoGap, Fewer, SameAsked
<1> QED
  BY <1>1, <1>2, <1>3 DEF Settled

\* More runs become late.
LEMMA LateGrows ==
    ASSUME NEW rs, NEW s, NEW l, NEW m, NEW n, NEW k, Settled(rs, s, l, n, k), l \subseteq m
    PROVE  Settled(rs, s, m, n, k)
<1>1. ASSUME NEW i \in DOMAIN rs PROVE InTime(rs[i], s, m, k)
  <2>1. InTime(rs[i], s, l, k)
    BY DEF Settled, AllInTime
  <2> QED
    BY <2>1 DEF InTime
<1>2. FirstAlone(rs, s, m)
  BY DEF Settled, FirstAlone
<1>3. PagesKnown(s, m, n, k)
  BY DEF Settled, PagesKnown
<1>4. NoGap(rs, s, m)
  BY DEF Settled, NoGap, Reached, FrontLate
<1> QED
  BY <1>1, <1>2, <1>3, <1>4 DEF Settled, AllInTime

\* Runs are forgotten of which there is nothing left.
Spoken(rs, s) ==
    {rs[i].run : i \in DOMAIN rs} \cup {s.pages[x].run : x \in Loaded(s)}
      \cup {rs[i].cookie.run : i \in {j \in DOMAIN rs : rs[j].cookie # None}}

LEMMA LateForgets ==
    ASSUME NEW rs, NEW s, NEW l, NEW m, NEW n, NEW k, Settled(rs, s, l, n, k),
           m \subseteq l, l \cap Spoken(rs, s) \subseteq m
    PROVE  Settled(rs, s, m, n, k)
<1>1. /\ \A i \in DOMAIN rs : rs[i].run \in m <=> rs[i].run \in l
      /\ \A x \in Loaded(s) : s.pages[x].run \in m <=> s.pages[x].run \in l
      /\ \A i \in DOMAIN rs : rs[i].cookie # None =>
           (rs[i].cookie.run \in m <=> rs[i].cookie.run \in l)
  BY DEF Spoken
<1>2. ASSUME NEW i \in DOMAIN rs PROVE InTime(rs[i], s, m, k)
  <2>1. InTime(rs[i], s, l, k)
    BY DEF Settled, AllInTime
  <2> QED
    BY <1>1, <2>1 DEF InTime
<1>3. FirstAlone(rs, s, m)
  BY <1>1 DEF Settled, FirstAlone
<1>4. PagesKnown(s, m, n, k)
  BY <1>1 DEF Settled, PagesKnown
<1>5. FrontLate(s, m) <=> FrontLate(s, l)
  BY <1>1 DEF FrontLate
<1>6. NoGap(rs, s, m)
  BY <1>1, <1>5 DEF Settled, NoGap, Reached
<1> QED
  BY <1>2, <1>3, <1>4, <1>6 DEF Settled, AllInTime

\* The pages go, and every request is late.
LEMMA Cleared ==
    ASSUME NEW rs, NEW s, NEW t, NEW l, NEW n \in Nat, NEW m \in Nat, NEW k, NEW j,
           Settled(rs, s, l, n, k), n <= m, \A i \in DOMAIN rs : rs[i].run \in l,
           \A i \in DOMAIN rs : rs[i].run \in Nat,
           t.pages = <<>>, t.nexts = <<>>
    PROVE  Settled(rs, t, l, m, j)
<1>1. Loaded(t) = {} /\ Len(t.pages) = 0 /\ Len(t.nexts) = 0 /\ DOMAIN t.nexts = {}
  BY DEF Loaded
<1>2. AllAsked(rs, m)
  <2> SUFFICES ASSUME NEW i \in DOMAIN rs PROVE WellAsked(rs[i], m)
    BY DEF AllAsked
  <2>1. WellAsked(rs[i], n) /\ rs[i].run \in Nat
    BY DEF Settled, AllAsked
  <2>2. rs[i].run <= m
    BY <2>1 DEF WellAsked
  <2> QED
    BY <2>1, <2>2 DEF WellAsked
<1>3. ASSUME NEW i \in DOMAIN rs PROVE InTime(rs[i], t, l, j)
  <2>1. InTime(rs[i], s, l, k)
    BY DEF Settled, AllInTime
  <2> QED
    BY <2>1 DEF InTime
<1>4. FirstAlone(rs, t, l) /\ PagesKnown(t, l, m, j) /\ NoGap(rs, t, l)
  BY <1>1 DEF FirstAlone, PagesKnown, NoGap
<1> QED
  BY <1>2, <1>3, <1>4 DEF Settled, AllInTime

\* One request more.
LEMMA OneMore ==
    ASSUME NEW rs, NEW qs, NEW s, NEW l, NEW n, NEW k, NEW r, NEW f,
           Settled(rs, s, l, n, k), f \notin DOMAIN rs,
           qs = [i \in DOMAIN rs \cup {f} |-> IF i = f THEN r ELSE rs[i]],
           WellAsked(r, n), InTime(r, s, l, k),
           r.run \notin l => Reached(s, l, r.page),
           r.cookie = None /\ r.run \notin l =>
             /\ \A i \in DOMAIN rs : rs[i].run # r.run
             /\ \A x \in Loaded(s) : s.pages[x].run # r.run,
           \A i \in DOMAIN rs : rs[i].cookie = None /\ rs[i].run \notin l => rs[i].run # r.run
    PROVE  Settled(qs, s, l, n, k)
<1>1. DOMAIN qs = DOMAIN rs \cup {f} /\ qs[f] = r /\ \A i \in DOMAIN rs : qs[i] = rs[i]
  OBVIOUS
<1>2. AllAsked(qs, n) /\ AllInTime(qs, s, l, k)
  BY <1>1 DEF Settled, AllAsked, AllInTime
<1>3. FirstAlone(qs, s, l)
  BY <1>1 DEF Settled, FirstAlone
<1>4. NoGap(qs, s, l)
  BY <1>1 DEF Settled, NoGap
<1> QED
  BY <1>2, <1>3, <1>4 DEF Settled

-----------------------------------------------------------------------------
(* A page arrives.                                                         *)

LEMMA AsSequence ==
    ASSUME NEW S, NEW m \in Nat, NEW h \in [1 .. m -> S]
    PROVE  h \in Seq(S) /\ Len(h) = m
OBVIOUS

\* h is q with x at n.
With(h, q, n, x, S) ==
    /\ h \in Seq(S) /\ h[n] = x /\ Len(h) = IF Len(q) < n THEN n ELSE Len(q)
    /\ \A i \in 1 .. Len(h) : i # n => h[i] = IF i <= Len(q) THEN q[i] ELSE None

LEMMA FilledFacts ==
    ASSUME NEW S, None \in S, NEW q \in Seq(S), NEW n \in Nat, n >= 1, NEW x \in S
    PROVE  With(Filled(q, n, x), q, n, x, S)
<1> DEFINE m == IF Len(q) < n THEN n ELSE Len(q)
           h == Filled(q, n, x)
<1>1. Len(q) \in Nat /\ m \in Nat /\ n \in 1 .. m
  OBVIOUS
<1>2. h = [i \in 1 .. m |-> IF i = n THEN x ELSE IF i <= Len(q) THEN q[i] ELSE None]
  BY DEF Filled
<1>3. h \in [1 .. m -> S]
  <2>1. ASSUME NEW i \in 1 .. m, i <= Len(q) PROVE q[i] \in S
    BY <1>1, <2>1
  <2> HIDE DEF m
  <2> QED
    BY <1>2, <2>1
<1>4. h[n] = x /\ \A i \in 1 .. m : i # n => h[i] = IF i <= Len(q) THEN q[i] ELSE None
  <2> HIDE DEF h, m
  <2> QED
    BY <1>1, <1>2
<1>5. h \in Seq(S) /\ Len(h) = m
  <2> HIDE DEF h, m
  <2> QED
    BY <1>1, <1>3, AsSequence
<1> QED
  BY <1>4, <1>5 DEF With

\* u and v are the pages p and their cookies q with y and z at n.
Placed(u, v, p, q, n, y, z) ==
    /\ n \in 1 .. Len(u) /\ Len(v) = Len(u) /\ u[n] = y /\ v[n] = z
    /\ Len(p) <= Len(u) /\ Len(u) \in {n, Len(p)}
    /\ \A x \in 1 .. Len(u) : x # n =>
         /\ x \in 1 .. Len(p) => u[x] = p[x] /\ v[x] = q[x]
         /\ x \notin 1 .. Len(p) => u[x] = None /\ v[x] = None

LEMMA FilledPlaced ==
    ASSUME NEW S, None \in S, NEW p \in Seq(S), NEW q \in Seq(S), Len(p) = Len(q),
           NEW n \in Nat, n >= 1, NEW y \in S, NEW z \in S
    PROVE  /\ Filled(p, n, y) \in Seq(S) /\ Filled(q, n, z) \in Seq(S)
           /\ Placed(Filled(p, n, y), Filled(q, n, z), p, q, n, y, z)
<1> SUFFICES ASSUME NEW u, NEW v, u = Filled(p, n, y), v = Filled(q, n, z)
             PROVE  u \in Seq(S) /\ v \in Seq(S) /\ Placed(u, v, p, q, n, y, z)
  OBVIOUS
<1>1. With(u, p, n, y, S) /\ With(v, q, n, z, S)
  BY FilledFacts
<1>2. Len(p) \in Nat
  OBVIOUS
<1> QED
  BY <1>1, <1>2 DEF Placed, With

\* t is s with the page of r at its place; a first page is alone.
Arrived(t, s, r) ==
    /\ r.page = 0 => t.pages = <<PageOf(r)>> /\ t.nexts = <<r.next>>
    /\ r.page # 0 => Placed(t.pages, t.nexts, s.pages, s.nexts, r.page + 1, PageOf(r), r.next)
    /\ t.last = s.last /\ t.run = s.run

LEMMA ShownFacts ==
    ASSUME NEW s \in Models, Len(s.pages) = Len(s.nexts), NEW n \in Nat, NEW r, WellAsked(r, n),
           r.params # None
    PROVE  /\ Shown(s, r) \in Models /\ Arrived(Shown(s, r), s, r)
           /\ Shown(s, r).page = r.page /\ Shown(s, r).opened = s.opened
<1> SUFFICES ASSUME NEW t, t = Shown(s, r)
             PROVE  t \in Models /\ Arrived(t, s, r) /\ t.page = r.page /\ t.opened = s.opened
  OBVIOUS
<1>1. /\ PageOf(r) \in Tags /\ r.page \in 0 .. LastPage /\ r.next \in {None} \cup Tags
      /\ LastPage \in Nat
  BY PageFacts, RequestFields, BoundsAssumption DEF WellAsked
<1>2. s.pages \in Seq({None} \cup Tags) /\ s.nexts \in Seq({None} \cup Tags)
  BY DEF Models
<1>3. /\ t.pages = IF r.page = 0 THEN <<PageOf(r)>> ELSE Filled(s.pages, r.page + 1, PageOf(r))
      /\ t.nexts = IF r.page = 0 THEN <<r.next>> ELSE Filled(s.nexts, r.page + 1, r.next)
      /\ t.last = s.last /\ t.run = s.run /\ t.page = r.page /\ t.opened = s.opened
      /\ t = [s EXCEPT !.running = FALSE, !.inForm = FALSE, !.page = r.page, !.pages = t.pages,
                       !.nexts = t.nexts]
  BY DEF Shown, Models
<1>4. /\ t.pages \in Seq({None} \cup Tags) /\ t.nexts \in Seq({None} \cup Tags)
      /\ Arrived(t, s, r)
  <2>1. CASE r.page = 0
    <3>1. t.pages = <<PageOf(r)>> /\ t.nexts = <<r.next>>
      BY <1>3, <2>1
    <3> QED
      BY <1>1, <1>3, <2>1, <3>1 DEF Arrived
  <2>2. CASE r.page # 0
    <3>1. r.page + 1 \in Nat /\ r.page + 1 >= 1 /\ PageOf(r) \in {None} \cup Tags
      BY <1>1
    <3>2. t.pages = Filled(s.pages, r.page + 1, PageOf(r)) /\ t.nexts = Filled(s.nexts, r.page + 1, r.next)
      BY <1>3, <2>2
    <3>3. /\ t.pages \in Seq({None} \cup Tags) /\ t.nexts \in Seq({None} \cup Tags)
          /\ Placed(t.pages, t.nexts, s.pages, s.nexts, r.page + 1, PageOf(r), r.next)
      <4>1. ASSUME NEW S, S = {None} \cup Tags
            PROVE  /\ Filled(s.pages, r.page + 1, PageOf(r)) \in Seq(S)
                   /\ Filled(s.nexts, r.page + 1, r.next) \in Seq(S)
                   /\ Placed(Filled(s.pages, r.page + 1, PageOf(r)), Filled(s.nexts, r.page + 1, r.next),
                             s.pages, s.nexts, r.page + 1, PageOf(r), r.next)
        <5>1. /\ s.pages \in Seq(S) /\ s.nexts \in Seq(S) /\ None \in S /\ PageOf(r) \in S
              /\ r.next \in S /\ Len(s.pages) = Len(s.nexts)
          BY <1>1, <1>2, <3>1, <4>1
        <5> QED
          BY <3>1, <5>1, FilledPlaced
      <4> QED
        BY <3>2, <4>1
    <3> QED
      BY <1>3, <2>2, <3>3 DEF Arrived
  <2> QED
    BY <2>1, <2>2
<1>5. t \in Models
  BY <1>1, <1>3, <1>4 DEF Models
<1> QED
  BY <1>3, <1>4, <1>5

\* What is loaded once the page of r is there.
LEMMA ArrivedPages ==
    ASSUME NEW s \in Models, NEW t \in Models, NEW r, NEW n \in Nat, WellAsked(r, n),
           r.params # None, Arrived(t, s, r), Len(s.pages) = Len(s.nexts)
    PROVE  /\ r.page + 1 \in Loaded(t) /\ t.pages[r.page + 1] = PageOf(r)
           /\ Len(t.pages) = Len(t.nexts) /\ t.nexts[r.page + 1] = r.next
           /\ \A x \in Loaded(t) : x # r.page + 1 =>
                r.page # 0 /\ x \in Loaded(s) /\ t.pages[x] = s.pages[x]
           /\ \A x \in DOMAIN t.nexts : x # r.page + 1 /\ t.nexts[x] # None =>
                r.page # 0 /\ x \in DOMAIN s.nexts /\ t.nexts[x] = s.nexts[x] /\ t.pages[x] = s.pages[x]
           /\ r.page # 0 => \A x \in Loaded(s) :
                x \in Loaded(t) /\ (x # r.page + 1 => t.pages[x] = s.pages[x])
           /\ Len(t.pages) \in {r.page + 1, Len(s.pages)}
           /\ r.page = 0 => Len(t.pages) = 1
<1>1. PageOf(r) \in Tags /\ PageOf(r) # None /\ r.page \in Nat
  BY PageFacts, RequestFields, TagIsSome, BoundsAssumption DEF WellAsked
<1>2. /\ s.pages \in Seq({None} \cup Tags) /\ s.nexts \in Seq({None} \cup Tags)
      /\ t.pages \in Seq({None} \cup Tags) /\ t.nexts \in Seq({None} \cup Tags)
  BY DEF Models
<1>3. /\ DOMAIN s.pages = 1 .. Len(s.pages) /\ DOMAIN t.pages = 1 .. Len(t.pages)
      /\ DOMAIN s.nexts = 1 .. Len(s.nexts) /\ DOMAIN t.nexts = 1 .. Len(t.nexts)
      /\ Len(s.pages) \in Nat /\ Len(t.pages) \in Nat
  BY <1>2
<1>4. CASE r.page = 0
  <2>1. t.pages = <<PageOf(r)>> /\ t.nexts = <<r.next>>
    BY <1>4 DEF Arrived
  <2>2. Len(t.pages) = 1 /\ Len(t.nexts) = 1 /\ t.pages[1] = PageOf(r) /\ t.nexts[1] = r.next
    BY <2>1
  <2> QED
    BY <1>1, <1>3, <1>4, <2>2 DEF Loaded
<1>5. CASE r.page # 0
  <2>1. Placed(t.pages, t.nexts, s.pages, s.nexts, r.page + 1, PageOf(r), r.next)
    BY <1>5 DEF Arrived
  <2>2. /\ r.page + 1 \in 1 .. Len(t.pages) /\ Len(t.nexts) = Len(t.pages)
        /\ t.pages[r.page + 1] = PageOf(r) /\ t.nexts[r.page + 1] = r.next
        /\ Len(s.pages) <= Len(t.pages) /\ Len(t.pages) \in {r.page + 1, Len(s.pages)}
    BY <2>1 DEF Placed
  <2>3. \A x \in 1 .. Len(t.pages) : x # r.page + 1 =>
          /\ x \in 1 .. Len(s.pages) => t.pages[x] = s.pages[x] /\ t.nexts[x] = s.nexts[x]
          /\ x \notin 1 .. Len(s.pages) => t.pages[x] = None /\ t.nexts[x] = None
    BY <2>1 DEF Placed
  <2>4. \A x \in 1 .. Len(s.pages) : x \in 1 .. Len(t.pages)
    BY <1>3, <2>2
  <2>5. ASSUME NEW x \in Loaded(t), x # r.page + 1
        PROVE  x \in Loaded(s) /\ t.pages[x] = s.pages[x]
    BY <1>3, <2>3, <2>5 DEF Loaded
  <2>6. ASSUME NEW x \in DOMAIN t.nexts, x # r.page + 1, t.nexts[x] # None
        PROVE  x \in DOMAIN s.nexts /\ t.nexts[x] = s.nexts[x] /\ t.pages[x] = s.pages[x]
    BY <1>3, <2>2, <2>3, <2>6
  <2>7. ASSUME NEW x \in Loaded(s)
        PROVE  x \in Loaded(t) /\ (x # r.page + 1 => t.pages[x] = s.pages[x])
    BY <1>1, <1>3, <2>2, <2>3, <2>4 DEF Loaded
  <2>8. r.page + 1 \in Loaded(t)
    BY <1>1, <1>3, <2>2 DEF Loaded
  <2> QED
    BY <1>5, <2>2, <2>5, <2>6, <2>7, <2>8
<1> QED
  BY <1>4, <1>5

LEMMA ArrivedSettled ==
    ASSUME NEW rs, NEW qs, NEW s \in Models, NEW t \in Models, NEW l, NEW n \in Nat, NEW k,
           Settled(rs, s, l, n, k), NEW i \in DOMAIN rs, rs[i].state = "ok",
           Arrived(t, s, rs[i]), Fewer(qs, rs), i \notin DOMAIN qs, AllAsked(qs, n)
    PROVE  Settled(qs, t, l, n, k)
<1> SUFFICES ASSUME NEW r, r = rs[i] PROVE Settled(qs, t, l, n, k)
  OBVIOUS
<1>1. WellAsked(r, n) /\ r.params # None /\ InTime(r, s, l, k)
  BY DEF Settled, AllAsked, AllInTime, WellAsked
<1>2. Len(s.pages) = Len(s.nexts)
  BY DEF Settled, PagesKnown
<1>3. /\ PageOf(r).run = r.run /\ PageOf(r).params = r.params
      /\ PageOf(r).session = r.session /\ PageOf(r).page = r.page
      /\ r.page \in 0 .. LastPage /\ LastPage \in Nat /\ r.run <= n
  BY <1>1, PageFacts, RequestFields, BoundsAssumption DEF WellAsked
<1>4. /\ r.page + 1 \in Loaded(t) /\ t.pages[r.page + 1] = PageOf(r)
      /\ Len(t.pages) = Len(t.nexts) /\ t.nexts[r.page + 1] = r.next
      /\ \A x \in Loaded(t) : x # r.page + 1 =>
           r.page # 0 /\ x \in Loaded(s) /\ t.pages[x] = s.pages[x]
      /\ \A x \in DOMAIN t.nexts : x # r.page + 1 /\ t.nexts[x] # None =>
           r.page # 0 /\ x \in DOMAIN s.nexts /\ t.nexts[x] = s.nexts[x] /\ t.pages[x] = s.pages[x]
      /\ r.page # 0 => \A x \in Loaded(s) :
           x \in Loaded(t) /\ (x # r.page + 1 => t.pages[x] = s.pages[x])
      /\ Len(t.pages) \in {r.page + 1, Len(s.pages)}
      /\ r.page = 0 => Len(t.pages) = 1
  BY <1>1, <1>2, ArrivedPages
<1>5. t.last = s.last /\ t.run = s.run
  BY DEF Arrived
<1>6. Settled(qs, s, l, n, k)
  BY FewerSettled
<1>7. AllAsked(qs, n) /\ AllInTime(qs, t, l, k)
  BY <1>5, <1>6 DEF Settled, AllInTime, InTime, OfRun
<1>8. FirstAlone(qs, t, l)
  <2> SUFFICES ASSUME NEW j \in DOMAIN qs, qs[j].cookie = None, qs[j].run \notin l
               PROVE  /\ \A h \in DOMAIN qs : qs[h].run = qs[j].run => h = j
                      /\ \A x \in Loaded(t) : t.pages[x].run # qs[j].run
    BY DEF FirstAlone
  <2>1. j \in DOMAIN rs /\ rs[j].cookie = None /\ rs[j].run = qs[j].run /\ j # i
    BY DEF Fewer, SameAsked
  <2>2. r.run # qs[j].run /\ \A x \in Loaded(s) : s.pages[x].run # qs[j].run
    BY <2>1 DEF Settled, FirstAlone
  <2>3. \A h \in DOMAIN qs : qs[h].run = qs[j].run => h = j
    BY <1>6 DEF Settled, FirstAlone
  <2> QED
    BY <1>3, <1>4, <2>2, <2>3
<1>9. PagesKnown(t, l, n, k)
  <2>1. ASSUME NEW x \in DOMAIN t.nexts, t.nexts[x] # None
        PROVE  t.nexts[x] = t.pages[x] /\ x <= LastPage
    <3>1. CASE x = r.page + 1
      BY <1>1, <1>3, <1>4, <2>1, <3>1 DEF WellAsked
    <3>2. CASE x # r.page + 1
      BY <1>4, <2>1, <3>2 DEF Settled, PagesKnown
    <3> QED
      BY <3>1, <3>2
  <2>2. ASSUME NEW x \in Loaded(t)
        PROVE  /\ t.pages[x].page = x - 1 /\ t.pages[x].run <= n
               /\ t.pages[x].run \in l \/ OfRun(t.pages[x], t, k)
    <3>1. CASE x = r.page + 1
      <4>1. r.run \in l \/ OfRun(PageOf(r), t, k)
        BY <1>1, <1>3, <1>5 DEF InTime, OfRun
      <4> QED
        BY <1>3, <1>4, <3>1, <4>1
    <3>2. CASE x # r.page + 1
      BY <1>4, <1>5, <3>2 DEF Settled, PagesKnown, OfRun
    <3> QED
      BY <3>1, <3>2
  <2> QED
    BY <1>4, <2>1, <2>2 DEF PagesKnown
<1>10. NoGap(qs, t, l)
  <2>1. CASE r.page = 0
    <3>1. ASSUME NEW x \in Loaded(t) PROVE Reached(t, l, x)
      BY <1>4, <2>1 DEF Reached
    <3>2. ASSUME NEW j \in DOMAIN qs, qs[j].run \notin l PROVE Reached(t, l, qs[j].page)
      <4>1. CASE r.run \in l
        BY <1>3, <1>4, <2>1, <4>1 DEF Reached, FrontLate
      <4>2. CASE r.run \notin l
        <5>1. j \in DOMAIN rs /\ rs[j].run = qs[j].run /\ j # i
          BY DEF Fewer, SameAsked
        <5>2. r.run = s.run /\ rs[j].run = s.run
          BY <1>1, <3>2, <4>2, <5>1 DEF Settled, AllInTime, InTime, OfRun
        <5>3. r.cookie = None
          BY <1>1, <2>1 DEF WellAsked
        <5> QED
          BY <4>2, <5>1, <5>2, <5>3 DEF Settled, FirstAlone
      <4> QED
        BY <4>1, <4>2
    <3>3. Len(t.pages) \in Loaded(t)
      <4>1. r.page + 1 = 1
        BY <2>1
      <4>2. Len(t.pages) = 1 /\ r.page + 1 \in Loaded(t)
        BY <1>4, <2>1
      <4> QED
        BY <4>1, <4>2
    <3> QED
      BY <3>1, <3>2, <3>3 DEF NoGap
  <2>2. CASE r.page # 0
    <3>1. ASSUME NEW m, Reached(s, l, m) PROVE Reached(t, l, m)
      <4>1. 1 # r.page + 1
        BY <1>3, <2>2
      <4>2. FrontLate(s, l) => FrontLate(t, l)
        BY <1>4, <2>2, <4>1 DEF FrontLate
      <4> QED
        BY <1>4, <2>2, <3>1, <4>2 DEF Reached
    <3>2. ASSUME NEW x \in Loaded(t), t.pages[x].run \notin l PROVE Reached(t, l, x)
      <4>1. CASE x = r.page + 1
        <5>1. Reached(s, l, r.page)
          BY <1>3, <1>4, <3>2, <4>1 DEF Settled, NoGap
        <5>2. Reached(t, l, r.page)
          BY <3>1, <5>1
        <5>3. \A z \in 1 .. r.page + 1 : z \in 1 .. r.page \/ z = r.page + 1
          BY <1>3
        <5> QED
          BY <1>4, <4>1, <5>2, <5>3 DEF Reached
      <4>2. CASE x # r.page + 1
        BY <1>4, <3>1, <3>2, <4>2 DEF Settled, NoGap
      <4> QED
        BY <4>1, <4>2
    <3>3. ASSUME NEW j \in DOMAIN qs, qs[j].run \notin l PROVE Reached(t, l, qs[j].page)
      BY <1>6, <3>1, <3>3 DEF Settled, NoGap
    <3>4. Len(t.pages) > 0 => Len(t.pages) \in Loaded(t)
      BY <1>4, <2>2 DEF Settled, NoGap
    <3> QED
      BY <3>2, <3>3, <3>4 DEF NoGap
  <2> QED
    BY <2>1, <2>2
<1> QED
  BY <1>7, <1>8, <1>9, <1>10 DEF Settled

-----------------------------------------------------------------------------
(* The invariant holds at first, and every step keeps it.                  *)

LEMMA ModelFields ==
    ASSUME NEW s \in Models
    PROVE  /\ s.opened \in BOOLEAN /\ s.form \in Forms /\ s.inForm \in BOOLEAN
           /\ s.running \in BOOLEAN /\ s.pages \in Seq({None} \cup Tags)
           /\ s.nexts \in Seq({None} \cup Tags) /\ s.page \in 0 .. LastPage
           /\ s.last \in {None} \cup Searches /\ s.run \in 0 .. MaxRuns
           /\ s.lastScp \in {None} \cup Scopes /\ s.form.scope \in Scopes
BY DEF Models, Forms

LEMMA SearchesAreForms == Searches \subseteq Forms
BY DEF Searches, Forms

LEMMA FreshModels ==
    /\ \A p \in Forms : Opened(p) \in Models
    /\ \A a \in Asks : NewForm(a) \in Forms
    /\ Zero \in Models
    /\ \A p : /\ Opened(p).pages = <<>> /\ Opened(p).nexts = <<>> /\ Opened(p).last = None
              /\ Opened(p).run = 0 /\ Opened(p).opened /\ Opened(p).inForm
              /\ Opened(p).page = 0
    /\ Zero.pages = <<>> /\ Zero.nexts = <<>> /\ Zero.last = None /\ Zero.run = 0
    /\ ~Zero.opened /\ Zero.page = 0
<1>1. /\ 0 \in 0 .. LastPage /\ 0 \in 0 .. MaxRuns /\ <<>> \in Seq({None} \cup Tags)
      /\ NewForm(None) \in Forms /\ \A a \in Asks : NewForm(a) \in Forms
  BY BoundsAssumption, SearchesAssumption DEF Forms, NewForm
<1>2. ASSUME NEW p \in Forms PROVE Opened(p) \in Models
  BY <1>1 DEF Opened, Models
<1>3. Zero \in Models
  BY <1>1 DEF Zero, Opened, Models
<1> QED
  BY <1>1, <1>2, <1>3 DEF Zero, Opened

LEMMA SearchInit == Init => SearchInv
<1> SUFFICES ASSUME Init PROVE SearchInv
  OBVIOUS
<1>1. search = Zero /\ requests = <<>> /\ late = {} /\ runs = 0 /\ sessions = 1
  BY DEF Init
<1>2. DOMAIN requests = {}
  BY <1>1
<1>3. Loaded(search) = {} /\ Len(search.pages) = 0 /\ Len(search.nexts) = 0
      /\ DOMAIN search.nexts = {}
  BY <1>1, FreshModels DEF Loaded
<1>4. Settled(requests, search, late, runs, sessions)
  BY <1>2, <1>3 DEF Settled, AllAsked, AllInTime, FirstAlone, PagesKnown, NoGap
<1>5. OnShow
  BY <1>1, <1>3, FreshModels DEF OnShow, InFront, Init
<1>6. Counters
  <2>1. client \in 0 .. MaxSessions /\ sessions \in 1 .. MaxSessions /\ client \in {0, sessions}
    BY BoundsAssumption DEF Init
  <2>2. runs \in 0 .. MaxRuns /\ late \subseteq 0 .. MaxRuns
    BY BoundsAssumption DEF Init
  <2>3. /\ history \in Seq(Items)
        /\ HistoryMax > 0 => Len(history) <= HistoryMax
    <3>1. history = <<>> /\ HistoryMax \in Nat
      BY BoundsAssumption DEF Init
    <3> QED
      BY <3>1
  <2> QED
    BY <2>1, <2>2, <2>3 DEF Counters, Init
<1>7. search.run <= runs
  BY <1>1, FreshModels
<1> QED
  BY <1>1, <1>2, <1>4, <1>5, <1>6, <1>7, FreshModels DEF SearchInv

\* Steps that leave requests, runs and pages as they are.
LEMMA SameBusiness ==
    ASSUME SearchInv, Counters', search' \in Models, OnShow',
           requests' = requests, late' = late, runs' = runs, sessions' = sessions,
           search'.pages = search.pages, search'.nexts = search.nexts,
           search'.last = search.last, search'.run = search.run
    PROVE  SearchInv'
<1>1. Settled(requests, search', late, runs, sessions)
  BY FormOnly DEF SearchInv
<1>2. Settled(requests, search, late, runs, sessions)'
  BY <1>1
<1> QED
  BY <1>2 DEF SearchInv

LEMMA FreeId ==
    ASSUME DOMAIN requests \subseteq Ids, Cardinality(DOMAIN requests) < MaxRequests
    PROVE  Free \in Ids /\ Free \notin DOMAIN requests
<1>1. IsFiniteSet(Ids) /\ Cardinality(Ids) = MaxRequests
  <2>1. MaxRequests \in Nat
    BY BoundsAssumption
  <2>2. IsFiniteSet(1 .. MaxRequests)
        /\ Cardinality(1 .. MaxRequests) = IF 1 > MaxRequests THEN 0 ELSE MaxRequests - 1 + 1
    BY <2>1, FS_Interval
  <2> QED
    BY <2>1, <2>2 DEF Ids
<1>2. \E i \in Ids : i \notin DOMAIN requests
  <2> SUFFICES ASSUME Ids \subseteq DOMAIN requests PROVE FALSE
    OBVIOUS
  <2>1. DOMAIN requests = Ids
    OBVIOUS
  <2>2. Cardinality(DOMAIN requests) = MaxRequests
    BY <1>1, <2>1
  <2> QED
    BY <2>2, BoundsAssumption
<1> QED
  BY <1>2 DEF Free, Ids

LEMMA StartKept ==
    ASSUME SearchInv, NEW p \in {None} \cup Searches, ~crashed, search.opened,
           Start(search, p), UNCHANGED <<client, sessions, screen, history>>, inbox' \subseteq inbox
    PROVE  SearchInv'
<1> DEFINE l == late \cup InFlight
<1>0. /\ Counters /\ search \in Models /\ DOMAIN requests \subseteq Ids
      /\ Settled(requests, search, late, runs, sessions)
  BY DEF SearchInv
<1>1. /\ runs' = runs + 1 /\ runs + 1 \in 0 .. MaxRuns /\ late' = l /\ runs \in Nat
      /\ MaxRuns \in Nat
  BY <1>0, BoundsAssumption DEF Start, Counters
<1>2. search' = [search EXCEPT !.pages = <<>>, !.nexts = <<>>, !.last = p,
                               !.lastScp = search.form.scope, !.running = TRUE, !.run = runs + 1]
  BY <1>0 DEF Start, Send, Models
<1>3. /\ search' \in Models /\ search'.pages = <<>> /\ search'.nexts = <<>> /\ search'.last = p
      /\ search'.run = runs + 1 /\ search'.opened
  <2>1. /\ <<>> \in Seq({None} \cup Tags) /\ TRUE \in BOOLEAN
        /\ search.form.scope \in {None} \cup Scopes
    BY <1>0, ModelFields
  <2> QED
    BY <1>0, <1>1, <1>2, <2>1 DEF Models
<1>4. \A i \in DOMAIN requests : requests[i].run \in l /\ requests[i].run \in 0 .. MaxRuns
  <2>1. ASSUME NEW i \in DOMAIN requests PROVE requests[i].run \in 0 .. MaxRuns
    BY <1>0, RequestFields DEF Settled, AllAsked, WellAsked
  <2> QED
    BY <2>1 DEF InFlight
<1> HIDE DEF l
<1>5. Settled(requests, search', l, runs + 1, sessions)
  <2>1. Settled(requests, search, l, runs, sessions)
    BY <1>0, LateGrows DEF l
  <2>2. \A i \in DOMAIN requests : requests[i].run \in Nat
    BY <1>4
  <2>3. runs + 1 \in Nat /\ runs <= runs + 1
    BY <1>1
  <2> QED
    BY <1>1, <1>3, <1>4, <2>1, <2>2, <2>3, Cleared
<1>6. Counters'
  <2>1. late' \subseteq 0 .. MaxRuns
    BY <1>0, <1>1, <1>4 DEF Counters, l, InFlight
  <2>2. crashed' \in BOOLEAN
    BY DEF Start, Send
  <2> QED
    BY <1>0, <1>1, <2>1, <2>2 DEF Counters, RunMsg, FilterMsg
<1>7. CASE client = 0
  <2>1. requests' = requests /\ crashed'
    BY <1>7 DEF Start, Send
  <2>2. Settled(requests, search, late, runs, sessions)'
    BY <1>1, <1>5, <2>1
  <2>3. OnShow'
    BY <2>1 DEF OnShow
  <2>4. (search.run <= runs)' /\ (DOMAIN requests \subseteq Ids)'
    BY <1>0, <1>1, <1>3, <2>1
  <2> QED
    BY <1>3, <1>6, <2>2, <2>3, <2>4 DEF SearchInv
<1>8. CASE client # 0
  <2> DEFINE r == [run |-> runs + 1, params |-> p, page |-> 0, cookie |-> None,
                   session |-> client, state |-> "sent", next |-> None,
                   edited |-> 0 = 0 /\ p # None /\ p.scope # search.form.scope]
  <2>1. Free \in Ids /\ Free \notin DOMAIN requests
    BY <1>0, FreeId DEF Start, Send
  <2>2. requests' = [i \in DOMAIN requests \cup {Free} |-> IF i = Free THEN r ELSE requests[i]]
    BY <1>0, <1>8 DEF Start, Send, Models
  <2>3. client = sessions /\ client \in 1 .. MaxSessions
    BY <1>0, <1>8 DEF Counters
  <2>4. r \in Requests
    BY <1>1, <2>3, BoundsAssumption DEF Requests
  <2>5. WellAsked(r, runs + 1)
    BY <1>1, <2>4 DEF WellAsked
  <2>6. InTime(r, search', l, sessions)
    BY <1>3, <2>3 DEF InTime, OfRun
  <2>7. Reached(search', l, r.page)
    BY DEF Reached
  <2>8. Loaded(search') = {}
    BY <1>3 DEF Loaded
  <2>9. \A i \in DOMAIN requests : r.run \notin l => requests[i].run # r.run
    BY <1>4
  <2> HIDE DEF r
  <2>10. Settled(requests', search', l, runs + 1, sessions)
    BY <1>4, <1>5, <2>1, <2>2, <2>5, <2>6, <2>7, <2>8, <2>9, OneMore
  <2>11. Settled(requests, search, late, runs, sessions)'
    BY <1>1, <2>10
  <2>12. OnShow'
    <3>1. (DOMAIN requests)' # {} /\ (DOMAIN requests \subseteq Ids)'
      BY <1>0, <2>1, <2>2
    <3>2. runs + 1 # 0
      BY <1>1
    <3> QED
      BY <1>3, <3>1, <3>2 DEF OnShow, InFront
  <2>13. (search.run <= runs)' /\ (DOMAIN requests \subseteq Ids)'
    BY <1>0, <1>1, <1>3, <2>1, <2>2
  <2> QED
    BY <1>3, <1>6, <2>11, <2>12, <2>13 DEF SearchInv
<1> QED
  BY <1>7, <1>8

\* n asks for a page with the cookie of the one before it.
LEMMA AskedKept ==
    ASSUME SearchInv, On("search"), ~search.inForm, NEW here, here = search.page + 1,
           here \in DOMAIN search.nexts, search.nexts[here] # None,
           Send(search, search.last, here, search.nexts[here], search.run),
           late' = IF search.nexts[here].run \in late THEN late \cup {search.run} ELSE late,
           UNCHANGED <<client, sessions, screen, inbox, history, runs>>
    PROVE  SearchInv'
<1> DEFINE c == search.nexts[here]
<1>0. /\ Counters /\ search \in Models /\ search.run <= runs /\ DOMAIN requests \subseteq Ids
      /\ Settled(requests, search, late, runs, sessions)
  BY DEF SearchInv
<1>1. /\ search.nexts \in Seq({None} \cup Tags) /\ search.pages \in Seq({None} \cup Tags)
      /\ search.last \in {None} \cup Searches /\ search.run \in 0 .. MaxRuns
      /\ search.page \in 0 .. LastPage
  BY <1>0, ModelFields
<1>2. /\ search.opened /\ (search.run = 0 => search.last = None)
  BY <1>0 DEF SearchInv, OnShow, On, InFront
<1>3. /\ c \in Tags /\ c = search.pages[here] /\ here \in Loaded(search) /\ here <= LastPage
      /\ here \in Nat /\ here >= 1
  <2>1. c \in Tags
    BY <1>1
  <2>2. c = search.pages[here] /\ here <= LastPage /\ Len(search.pages) = Len(search.nexts)
    BY <1>0 DEF Settled, PagesKnown
  <2>3. here \in DOMAIN search.pages
    BY <1>1, <2>2
  <2>4. here \in Nat /\ here >= 1
    BY <1>1, BoundsAssumption
  <2> QED
    BY <2>1, <2>2, <2>3, <2>4 DEF Loaded
<1>4. /\ c.page + 1 = here /\ (c.run \in late \/ OfRun(c, search, sessions))
      /\ c.run \notin late => Reached(search, late, here)
  <2>1. c.page = here - 1 /\ (c.run \in late \/ OfRun(c, search, sessions))
    BY <1>0, <1>3 DEF Settled, PagesKnown
  <2>2. c.run \notin late => Reached(search, late, here)
    BY <1>0, <1>3 DEF Settled, NoGap
  <2> QED
    BY <1>3, <2>1, <2>2
<1>5. /\ search' = [search EXCEPT !.last = search.last, !.lastScp = search.form.scope,
                                  !.running = TRUE, !.run = search.run]
      /\ search.form.scope \in Scopes
  BY <1>0, ModelFields DEF Send
<1>6. /\ search' \in Models /\ search'.pages = search.pages /\ search'.nexts = search.nexts
      /\ search'.last = search.last /\ search'.run = search.run /\ search'.opened = search.opened
  BY <1>0, <1>5 DEF Models
<1>7. late \subseteq late' /\ late' \subseteq 0 .. MaxRuns /\ runs \in 0 .. MaxRuns
  BY <1>0, <1>1 DEF Counters
<1>8. Settled(requests, search', late', runs, sessions)
  <2>1. Settled(requests, search, late', runs, sessions)
    BY <1>0, <1>7, LateGrows
  <2> QED
    BY <1>6, <2>1, FormOnly
<1>9. Counters'
  <2>1. crashed' \in BOOLEAN
    BY DEF Send
  <2> QED
    BY <1>0, <1>7, <2>1 DEF Counters, RunMsg, FilterMsg
<1>10. CASE client = 0
  <2>1. requests' = requests /\ crashed'
    BY <1>10 DEF Send
  <2>2. Settled(requests, search, late, runs, sessions)'
    BY <1>8, <2>1
  <2>3. OnShow'
    BY <2>1 DEF OnShow
  <2> QED
    BY <1>0, <1>6, <1>9, <2>1, <2>2, <2>3 DEF SearchInv
<1>11. CASE client # 0
  <2> DEFINE r == [run |-> search.run, params |-> search.last, page |-> here, cookie |-> c,
                   session |-> client, state |-> "sent", next |-> None,
                   edited |-> here = 0 /\ search.last # None /\ search.last.scope # search.form.scope]
  <2>1. Free \in Ids /\ Free \notin DOMAIN requests
    BY <1>0, FreeId DEF Send
  <2>2. requests' = [i \in DOMAIN requests \cup {Free} |-> IF i = Free THEN r ELSE requests[i]]
    BY <1>11 DEF Send
  <2>3. client = sessions /\ client \in 1 .. MaxSessions
    BY <1>0, <1>11 DEF Counters
  <2>4. r \in Requests
    <3>1. here \in 0 .. LastPage
      BY <1>3, BoundsAssumption
    <3> QED
      BY <1>1, <1>3, <2>3, <3>1 DEF Requests
  <2>5. WellAsked(r, runs)
    <3>1. here # 0 /\ c # None
      BY <1>3, TagIsSome
    <3>2. /\ r.run = search.run /\ r.params = search.last /\ r.page = here /\ r.cookie = c
          /\ r.state = "sent" /\ r.next = None
      OBVIOUS
    <3> HIDE DEF r, c
    <3>3. r.run <= runs /\ (r.run = 0 => r.params = None)
      BY <1>0, <1>2, <3>2
    <3>4. (r.cookie = None <=> r.page = 0) /\ (r.cookie # None => r.cookie.page + 1 = r.page)
      BY <1>4, <3>1, <3>2
    <3>5. (r.state = "ok" => r.params # None)
          /\ (r.next # None => r.next = PageOf(r) /\ r.page < LastPage)
      BY <3>2
    <3> QED
      BY <2>4, <3>3, <3>4, <3>5 DEF WellAsked
  <2>6. InTime(r, search', late', sessions)
    <3>1. OfRun(r, search', sessions)
      BY <1>6, <2>3 DEF OfRun
    <3>2. c.run \in late' => search.run \in late'
      BY <1>4 DEF OfRun
    <3>3. c.run \notin late' => OfRun(c, search, sessions)
      BY <1>4, <1>7
    <3> QED
      BY <2>3, <3>1, <3>2, <3>3 DEF InTime, OfRun
  <2>7. search.run \notin late' => late' = late /\ c.run \notin late
    BY DEF c
  <2>8. ASSUME r.run \notin late' PROVE Reached(search', late', r.page)
    <3>1. Reached(search, late', here)
      BY <1>4, <2>7, <2>8
    <3>2. Loaded(search') = Loaded(search)
      BY <1>6 DEF Loaded
    <3> QED
      BY <1>6, <3>1, <3>2 DEF Reached, FrontLate
  <2>9. ASSUME NEW i \in DOMAIN requests, requests[i].cookie = None, requests[i].run \notin late'
        PROVE  requests[i].run # r.run
    <3> SUFFICES ASSUME requests[i].run = search.run PROVE FALSE
      OBVIOUS
    <3>1. requests[i].run \notin late /\ c.run \notin late /\ search.pages[here].run = search.run
      BY <1>3, <1>4, <2>7, <2>9 DEF OfRun
    <3> QED
      BY <1>0, <1>3, <2>9, <3>1 DEF Settled, FirstAlone
  <2>10. r.cookie # None /\ (r.run \notin late' => Reached(search', late', r.page))
    BY <2>8
  <2> HIDE DEF r, c
  <2>11. Settled(requests', search', late', runs, sessions)
    BY <1>8, <2>1, <2>2, <2>5, <2>6, <2>9, <2>10, OneMore
  <2>12. Settled(requests, search, late, runs, sessions)'
    BY <2>11
  <2>13. OnShow'
    <3>1. (DOMAIN requests)' # {}
      BY <2>2
    <3> QED
      BY <1>2, <1>6, <3>1 DEF OnShow, InFront
  <2>14. (search.run <= runs)' /\ (DOMAIN requests \subseteq Ids)'
    BY <1>0, <1>6, <2>1, <2>2
  <2> QED
    BY <1>6, <1>9, <2>12, <2>13, <2>14 DEF SearchInv
<1> QED
  BY <1>10, <1>11

\* Requests of qs are those of rs, or ask for the same and are well asked.
LEMMA Restated ==
    ASSUME NEW rs, NEW qs, NEW s, NEW l, NEW n, NEW k, Settled(rs, s, l, n, k),
           \A i \in DOMAIN qs : i \in DOMAIN rs /\ SameAsked(qs[i], rs[i]),
           \A i \in DOMAIN qs : WellAsked(qs[i], n)
    PROVE  Settled(qs, s, l, n, k)
BY FewerSettled DEF Fewer, AllAsked

\* The state of a request and the cookie it is given are not what it asks for.
LEMMA StateOnly ==
    ASSUME NEW r, NEW n, WellAsked(r, n), NEW st \in {"sent", "ok", "failed"},
           NEW x \in {None} \cup Tags, x # None => x = PageOf(r) /\ r.page < LastPage,
           st = "ok" => r.params # None,
           NEW q, q = [r EXCEPT !.state = st, !.next = x]
    PROVE  WellAsked(q, n) /\ SameAsked(q, r)
<1>1. r \in Requests
  BY DEF WellAsked
<1>2. /\ q \in Requests /\ q.state = st /\ q.next = x
      /\ q.run = r.run /\ q.params = r.params /\ q.page = r.page /\ q.cookie = r.cookie
      /\ q.session = r.session
  BY <1>1 DEF Requests
<1>3. PageOf(q) = PageOf(r)
  BY <1>2 DEF PageOf
<1> HIDE DEF Requests
<1> QED
  BY <1>2, <1>3 DEF WellAsked, SameAsked

LEMMA FailedOnly ==
    ASSUME NEW r, NEW n, WellAsked(r, n), NEW q, q = [r EXCEPT !.state = "failed"]
    PROVE  WellAsked(q, n) /\ SameAsked(q, r)
<1>1. r \in Requests /\ r.next \in {None} \cup Tags
  BY RequestFields DEF WellAsked
<1>2. q = [r EXCEPT !.state = "failed", !.next = r.next]
  BY <1>1 DEF Requests
<1>3. r.next # None => r.next = PageOf(r) /\ r.page < LastPage
  BY DEF WellAsked
<1> QED
  BY <1>1, <1>2, <1>3, StateOnly

LEMMA AnswerKept ==
    ASSUME SearchInv, NEW i \in Ids, Answer(i)
    PROVE  SearchInv'
<1>0. /\ Counters /\ search \in Models /\ search.run <= runs /\ DOMAIN requests \subseteq Ids
      /\ Settled(requests, search, late, runs, sessions) /\ OnShow
  BY DEF SearchInv
<1>1. /\ i \in DOMAIN requests /\ runs \in Nat
      /\ UNCHANGED <<client, sessions, screen, search, inbox, history, runs, late, crashed>>
  <2>1. runs \in Nat
    BY <1>0, BoundsAssumption DEF Counters
  <2> QED
    BY <2>1 DEF Answer
<1>2. \A j \in DOMAIN requests : WellAsked(requests[j], runs)
  BY <1>0 DEF Settled, AllAsked
<1>3. \E q : /\ requests' = [requests EXCEPT ![i] = q]
             /\ WellAsked(q, runs) /\ SameAsked(q, requests[i])
  <2>1. CASE requests' = [requests EXCEPT ![i].state = "failed"]
    <3>1. requests' = [requests EXCEPT ![i] = [requests[i] EXCEPT !.state = "failed"]]
      BY <2>1
    <3>2. /\ WellAsked([requests[i] EXCEPT !.state = "failed"], runs)
          /\ SameAsked([requests[i] EXCEPT !.state = "failed"], requests[i])
      BY <1>1, <1>2, FailedOnly
    <3> QED
      BY <3>1, <3>2
  <2>2. CASE requests' # [requests EXCEPT ![i].state = "failed"]
    <3>1. /\ requests[i].params # None
          /\ \E x \in {None} \cup (IF requests[i].params.ask \in Paged /\ PageOf(requests[i]).page < LastPage
                                   THEN {PageOf(requests[i])} ELSE {}) :
               requests' = [requests EXCEPT ![i].state = "ok", ![i].next = x]
      BY <2>2 DEF Answer
    <3>2. PICK x : /\ x = None \/ (x = PageOf(requests[i]) /\ PageOf(requests[i]).page < LastPage)
                   /\ requests' = [requests EXCEPT ![i].state = "ok", ![i].next = x]
      BY <3>1
    <3>3. PageOf(requests[i]) \in Tags /\ PageOf(requests[i]).page = requests[i].page
      BY <1>1, <1>2, <3>1, PageFacts
    <3>4. requests' = [requests EXCEPT ![i] = [requests[i] EXCEPT !.state = "ok", !.next = x]]
      BY <1>1, <3>2
    <3>5. x \in {None} \cup Tags
          /\ (x # None => x = PageOf(requests[i]) /\ requests[i].page < LastPage)
      BY <3>2, <3>3
    <3>6. /\ WellAsked([requests[i] EXCEPT !.state = "ok", !.next = x], runs)
          /\ SameAsked([requests[i] EXCEPT !.state = "ok", !.next = x], requests[i])
      BY <1>1, <1>2, <3>1, <3>5, StateOnly
    <3> QED
      BY <3>4, <3>6
  <2> QED
    BY <2>1, <2>2
<1>4. PICK q : /\ requests' = [requests EXCEPT ![i] = q]
               /\ WellAsked(q, runs) /\ SameAsked(q, requests[i])
  BY <1>3
<1>5. /\ DOMAIN requests' = DOMAIN requests
      /\ \A j \in DOMAIN requests : requests'[j] = IF j = i THEN q ELSE requests[j]
  BY <1>4
<1>6. \A j \in DOMAIN requests' : j \in DOMAIN requests /\ SameAsked(requests'[j], requests[j])
  BY <1>4, <1>5 DEF SameAsked
<1>7. \A j \in DOMAIN requests' : WellAsked(requests'[j], runs)
  BY <1>2, <1>4, <1>5
<1>8. Settled(requests', search, late, runs, sessions)
  BY <1>0, <1>6, <1>7, Restated
<1>9. Settled(requests, search, late, runs, sessions)' /\ (DOMAIN requests \subseteq Ids)'
  BY <1>0, <1>1, <1>5, <1>8
<1>10. Counters' /\ OnShow'
  BY <1>0, <1>1, <1>5 DEF Counters, OnShow, InFront, RunMsg, FilterMsg
<1> QED
  BY <1>0, <1>1, <1>9, <1>10 DEF SearchInv

LEMMA PushFacts ==
    ASSUME NEW S, NEW items \in Seq(S), NEW s \in S, NEW max \in Nat
    PROVE  /\ Push(items, s, max) \in Seq(S) /\ Push(items, s, max)[1] = s
           /\ max > 0 => Len(Push(items, s, max)) <= max
<1>1. Rest(items, s) \in Seq(S) /\ Len(Rest(items, s)) \in Nat
  BY RestFacts
<1> SUFFICES ASSUME NEW out, out = <<s>> \o Rest(items, s)
             PROVE  /\ Push(items, s, max) \in Seq(S) /\ Push(items, s, max)[1] = s
                    /\ max > 0 => Len(Push(items, s, max)) <= max
  OBVIOUS
<1>2. out \in Seq(S) /\ Len(out) = Len(Rest(items, s)) + 1 /\ out[1] = s
  BY <1>1, FrontFacts
<1>3. Push(items, s, max) = IF max > 0 /\ Len(out) > max THEN SubSeq(out, 1, max) ELSE out
  BY DEF Push
<1>4. CASE max > 0 /\ Len(out) > max
  <2>1. max \in 0 .. Len(out) /\ 1 \in 1 .. max
    BY <1>1, <1>2, <1>4
  <2>2. /\ SubSeq(out, 1, max) \in Seq(S) /\ Len(SubSeq(out, 1, max)) = max
        /\ SubSeq(out, 1, max)[1] = out[1]
    BY <1>2, <2>1, PrefixFacts
  <2> QED
    BY <1>2, <1>3, <1>4, <2>2
<1>5. CASE ~(max > 0 /\ Len(out) > max)
  BY <1>1, <1>2, <1>3, <1>5
<1> QED
  BY <1>4, <1>5

LEMMA RememberedFacts ==
    ASSUME NEW s \in Models
    PROVE  /\ Remembered(s) \in Items /\ Remembered(s).key.scope = s.lastScp
           /\ s.last # None => Remembered(s).key.ask = s.last.ask
<1>1. s.lastScp \in {None} \cup Scopes /\ s.last \in {None} \cup Searches
  BY ModelFields
<1>2. (IF s.last = None THEN None ELSE s.last.ask) \in {None} \cup Asks
  BY <1>1 DEF Searches
<1> QED
  BY <1>1, <1>2 DEF Remembered, Items, Saved

\* An answer is taken: the runs that no longer matter are forgotten.
LEMMA DeliverKept ==
    ASSUME SearchInv, NEW i \in Ids, Deliver(i)
    PROVE  SearchInv'
<1> SUFFICES ASSUME NEW r, r = requests[i] PROVE SearchInv'
  OBVIOUS
<1>0. /\ Counters /\ search \in Models /\ search.run <= runs /\ DOMAIN requests \subseteq Ids
      /\ Settled(requests, search, late, runs, sessions) /\ OnShow
  BY DEF SearchInv
<1>1. /\ i \in DOMAIN requests /\ requests' = Without(i) /\ ~crashed
      /\ late' = StillLate(late, requests', search')
      /\ UNCHANGED <<client, sessions, screen, inbox, runs>>
  BY DEF Deliver
<1>2. \/ search' = Failed(search) /\ UNCHANGED <<history, crashed>>
      \/ /\ r.state = "ok" /\ search.opened /\ search' = Shown(search, r) /\ UNCHANGED crashed
         /\ history' = IF r.page = 0 THEN Push(history, Remembered(search), HistoryMax) ELSE history
      \/ crashed' = TRUE /\ UNCHANGED <<search, history>>
  BY DEF Deliver
<1>3. runs \in Nat /\ HistoryMax \in Nat
  BY <1>0, BoundsAssumption DEF Counters
<1>4. /\ DOMAIN requests' = DOMAIN requests \ {i}
      /\ \A j \in DOMAIN requests' : requests'[j] = requests[j]
  BY <1>1 DEF Without
<1>5. AllAsked(requests', runs) /\ Fewer(requests', requests)
  BY <1>0, <1>4 DEF Settled, AllAsked, Fewer, SameAsked
<1>6. Settled(requests', search, late, runs, sessions)
  BY <1>0, <1>5, FewerSettled
<1>7. /\ search' \in Models /\ search'.run = search.run /\ search'.last = search.last
      /\ search'.opened = search.opened
      /\ Settled(requests', search', late, runs, sessions)
      /\ crashed' \/ search'.inForm \/ search'.page < Len(search'.pages)
      /\ Len(search.pages) = 0 => search'.pages = search.pages \/ search.opened
      /\ history' = history \/ history' = Push(history, Remembered(search), HistoryMax)
      /\ crashed' \in BOOLEAN
  <2>1. CASE search' = Failed(search) /\ UNCHANGED <<history, crashed>>
    <3>1. /\ search' \in Models /\ search'.run = search.run /\ search'.last = search.last
          /\ search'.opened = search.opened /\ search'.inForm
          /\ search'.pages = search.pages /\ search'.nexts = search.nexts
      BY <1>0, <2>1 DEF Failed, Models
    <3>2. Settled(requests', search', late, runs, sessions)
      BY <1>6, <3>1, FormOnly
    <3> QED
      BY <1>0, <2>1, <3>1, <3>2 DEF Counters
  <2>2. CASE /\ r.state = "ok" /\ search.opened /\ search' = Shown(search, r) /\ UNCHANGED crashed
             /\ history' = IF r.page = 0 THEN Push(history, Remembered(search), HistoryMax) ELSE history
    <3>1. WellAsked(r, runs) /\ r.params # None
      BY <1>0, <1>1, <2>2 DEF Settled, AllAsked, WellAsked
    <3>2. Len(search.pages) = Len(search.nexts)
      BY <1>0 DEF Settled, PagesKnown
    <3>3. /\ search' \in Models /\ Arrived(search', search, r)
          /\ search'.page = r.page /\ search'.opened = search.opened
      BY <1>0, <1>3, <2>2, <3>1, <3>2, ShownFacts
    <3>4. Settled(requests', search', late, runs, sessions)
      BY <1>0, <1>1, <1>3, <1>4, <1>5, <2>2, <3>3, ArrivedSettled
    <3>5. r.page + 1 \in Loaded(search')
      BY <1>0, <1>3, <3>1, <3>2, <3>3, ArrivedPages
    <3>6. search'.page < Len(search'.pages)
      <4>1. r.page \in 0 .. LastPage /\ search'.pages \in Seq({None} \cup Tags)
        BY <3>1, <3>3, RequestFields, ModelFields DEF WellAsked
      <4>2. r.page + 1 \in 1 .. Len(search'.pages)
        BY <3>5, <4>1, LoadedFacts
      <4> QED
        BY <3>3, <4>1, <4>2, BoundsAssumption
    <3> QED
      BY <1>0, <2>2, <3>3, <3>4, <3>6 DEF Arrived, Counters
  <2>3. CASE crashed' = TRUE /\ UNCHANGED <<search, history>>
    BY <1>0, <1>6, <2>3
  <2> QED
    BY <1>2, <2>1, <2>2, <2>3
<1>8. late' \subseteq late /\ late \cap Spoken(requests', search') \subseteq late'
  BY <1>1 DEF StillLate, Spoken
<1>9. Settled(requests', search', late', runs, sessions)
  BY <1>7, <1>8, LateForgets
<1>10. Counters'
  <2>1. /\ history' \in Seq(Items)
        /\ HistoryMax > 0 => Len(history') <= HistoryMax
    <3>1. CASE history' = history
      BY <1>0, <3>1 DEF Counters
    <3>2. CASE history' = Push(history, Remembered(search), HistoryMax)
      <4>1. Remembered(search) \in Items
        BY <1>0, RememberedFacts
      <4>2. history \in Seq(Items)
        BY <1>0 DEF Counters
      <4> QED
        BY <1>3, <3>2, <4>1, <4>2, PushFacts
    <3> QED
      BY <1>7, <3>1, <3>2
  <2>2. late' \subseteq 0 .. MaxRuns
    BY <1>0, <1>8 DEF Counters
  <2> QED
    BY <1>0, <1>1, <1>7, <2>1, <2>2 DEF Counters, RunMsg, FilterMsg
<1>11. OnShow'
  <2> SUFFICES ASSUME ~crashed' PROVE InFront(requests, search)' /\ (screen = "search" => search.opened)'
    BY DEF OnShow
  <2>1. InFront(requests, search) /\ (screen = "search" => search.opened)
    BY <1>0, <1>1 DEF OnShow
  <2>2. ~search.opened => Len(search'.pages) = 0
    BY <1>7, <2>1 DEF InFront
  <2> QED
    BY <1>1, <1>7, <2>1, <2>2 DEF InFront
<1>12. Settled(requests, search, late, runs, sessions)'
  BY <1>1, <1>9
<1>13. (DOMAIN requests \subseteq Ids)' /\ (search.run <= runs)'
  BY <1>0, <1>1, <1>4, <1>7
<1> QED
  BY <1>7, <1>10, <1>11, <1>12, <1>13 DEF SearchInv

\* What closing a connection does to the requests.
LEMMA ClosedFacts ==
    ASSUME SearchInv, requests' = requests \/ requests' = Closed
    PROVE  /\ DOMAIN requests' = DOMAIN requests
           /\ Settled(requests', search, late, runs, sessions)
           /\ \A i \in DOMAIN requests' : requests'[i].run \in InFlight
                                           /\ requests'[i].run \in 0 .. MaxRuns
<1>1. Settled(requests, search, late, runs, sessions)
  BY DEF SearchInv
<1>2. \A i \in DOMAIN requests : WellAsked(requests[i], runs)
  BY <1>1 DEF Settled, AllAsked
<1>3. DOMAIN requests' = DOMAIN requests
  BY DEF Closed
<1>4. ASSUME NEW i \in DOMAIN requests
      PROVE  WellAsked(requests'[i], runs) /\ SameAsked(requests'[i], requests[i])
  <2>1. \/ requests'[i] = requests[i]
        \/ requests'[i] = [requests[i] EXCEPT !.state = "failed"]
    BY DEF Closed
  <2> QED
    BY <1>2, <2>1, FailedOnly DEF SameAsked
<1>5. Settled(requests', search, late, runs, sessions)
  BY <1>1, <1>3, <1>4, Restated
<1>6. ASSUME NEW i \in DOMAIN requests'
      PROVE  requests'[i].run \in InFlight /\ requests'[i].run \in 0 .. MaxRuns
  <2>1. requests'[i].run = requests[i].run /\ i \in DOMAIN requests
    BY <1>3, <1>4 DEF SameAsked
  <2>2. requests[i].run \in 0 .. MaxRuns
    BY <1>2, <2>1, RequestFields DEF WellAsked
  <2> QED
    BY <2>1, <2>2 DEF InFlight
<1> QED
  BY <1>3, <1>5, <1>6

\* Another search is on the screen: every request belongs to the one before.
LEMMA ReplaceKept ==
    ASSUME SearchInv, NEW s \in Models, s.pages = <<>>, s.nexts = <<>>, s.last = None, s.run = 0,
           s.opened => s.inForm, Replace(s), requests' = requests \/ requests' = Closed,
           client' \in 0 .. MaxSessions, sessions' \in 1 .. MaxSessions,
           client' \in {0, sessions'}, screen' \in {"search", "other"},
           screen' = "search" => s.opened, UNCHANGED <<inbox, history, runs, crashed>>
    PROVE  SearchInv'
<1> SUFFICES ASSUME NEW l, l = late \cup InFlight PROVE SearchInv'
  OBVIOUS
<1>0. /\ Counters /\ search \in Models /\ search.run <= runs /\ DOMAIN requests \subseteq Ids
      /\ Settled(requests, search, late, runs, sessions) /\ OnShow
  BY DEF SearchInv
<1>1. search' = s /\ late' = StillLate(l, requests', search')
  BY DEF Replace
<1>2. /\ DOMAIN requests' = DOMAIN requests
      /\ Settled(requests', search, late, runs, sessions)
      /\ \A i \in DOMAIN requests' : requests'[i].run \in l /\ requests'[i].run \in 0 .. MaxRuns
  BY ClosedFacts
<1>3. runs \in Nat /\ MaxRuns \in Nat
  BY <1>0, BoundsAssumption DEF Counters
<1>4. Settled(requests', search, l, runs, sessions)
  BY <1>2, LateGrows
<1>5. Settled(requests', search', l, runs, sessions')
  <2>1. \A i \in DOMAIN requests' : requests'[i].run \in l /\ requests'[i].run \in Nat
    BY <1>2, <1>3
  <2>2. runs <= runs
    BY <1>3
  <2>3. search'.pages = <<>> /\ search'.nexts = <<>>
    BY <1>1
  <2> QED
    BY <1>3, <1>4, <2>1, <2>2, <2>3, Cleared
<1>6. late' \subseteq l /\ l \cap Spoken(requests', search') \subseteq late'
  BY <1>1 DEF StillLate, Spoken
<1>7. Settled(requests', search', late', runs, sessions')
  BY <1>5, <1>6, LateForgets
<1>8. Settled(requests, search, late, runs, sessions)'
  BY <1>7
<1>9. Counters'
  <2>1. \A i \in DOMAIN requests : requests[i].run \in 0 .. MaxRuns
    BY <1>0, RequestFields DEF Settled, AllAsked, WellAsked
  <2>2. late' \subseteq 0 .. MaxRuns
    BY <1>0, <1>6, <2>1 DEF Counters, InFlight
  <2> QED
    BY <1>0, <2>2 DEF Counters, RunMsg, FilterMsg
<1>10. OnShow'
  <2>1. Len(search'.pages) = 0
    BY <1>1
  <2> QED
    BY <1>1, <2>1 DEF OnShow, InFront
<1>11. (DOMAIN requests \subseteq Ids)' /\ (search.run <= runs)'
  BY <1>0, <1>1, <1>2, <1>3
<1> QED
  BY <1>1, <1>8, <1>9, <1>10, <1>11 DEF SearchInv

LEMMA DisconnectKept == SearchInv /\ Disconnect => SearchInv'
<1> SUFFICES ASSUME SearchInv, Disconnect PROVE SearchInv'
  OBVIOUS
<1>0. /\ Counters /\ search \in Models /\ search.run <= runs /\ DOMAIN requests \subseteq Ids /\ OnShow
  BY DEF SearchInv
<1>1. /\ client' = 0 /\ requests' = Closed /\ screen' = "other"
      /\ UNCHANGED <<sessions, search, inbox, history, runs, late, crashed>>
  BY DEF Disconnect
<1>2. DOMAIN requests' = DOMAIN requests /\ Settled(requests', search, late, runs, sessions)
  BY <1>1, ClosedFacts
<1>3. Settled(requests, search, late, runs, sessions)' /\ (DOMAIN requests \subseteq Ids)'
  BY <1>0, <1>1, <1>2
<1>4. Counters'
  BY <1>0, <1>1, BoundsAssumption DEF Counters, RunMsg, FilterMsg
<1>5. OnShow'
  BY <1>0, <1>1, <1>2 DEF OnShow, InFront
<1> QED
  BY <1>0, <1>1, <1>3, <1>4, <1>5 DEF SearchInv

\* Steps that write the form, turn to a page that is there, change the screen
\* or take a message.
LEMMA FormKept ==
    ASSUME SearchInv, search' \in Models, search'.opened = search.opened,
           search'.pages = search.pages, search'.nexts = search.nexts,
           search'.last = search.last, search'.run = search.run,
           \/ search'.inForm \/ search'.page < Len(search.pages)
           \/ search'.page <= search.page /\ search'.inForm = search.inForm,
           ~crashed, crashed' \in BOOLEAN, screen' \in {"search", "other"},
           ~crashed' /\ screen' = "search" => search.opened,
           inbox' \subseteq {RunMsg} \cup {FilterMsg(a) : a \in Asks},
           UNCHANGED <<client, sessions, requests, history, runs, late>>
    PROVE  SearchInv'
<1>1. Counters'
  BY DEF SearchInv, Counters, RunMsg, FilterMsg
<1>2. OnShow'
  <2>1. /\ search.page \in 0 .. LastPage /\ search'.page \in 0 .. LastPage
        /\ search.pages \in Seq({None} \cup Tags)
    BY ModelFields DEF SearchInv
  <2>2. search'.page <= search.page /\ search.page < Len(search.pages)
          => search'.page < Len(search.pages)
    <3>1. Len(search.pages) \in Nat
      BY <2>1
    <3> QED
      BY <2>1, <3>1, BoundsAssumption
  <2> QED
    BY <2>2 DEF SearchInv, OnShow, InFront
<1> QED
  BY <1>1, <1>2, SameBusiness

LEMMA ShowSearchKept ==
    ASSUME SearchInv, NEW a \in Asks, ShowSearch(a)
    PROVE  SearchInv'
<1>0. search \in Models /\ Counters /\ ~crashed /\ search.page <= search.page
  <2>1. search \in Models /\ Counters /\ ~crashed
    BY DEF SearchInv, ShowSearch
  <2> QED
    BY <2>1, ModelFields, BoundsAssumption
<1>1. /\ search' = IF search.opened THEN search ELSE Opened(NewForm(a))
      /\ screen' = "search"
      /\ UNCHANGED <<client, sessions, requests, inbox, history, runs, late, crashed>>
  BY DEF ShowSearch
<1>2. CASE search.opened
  BY <1>0, <1>1, <1>2, FormKept DEF Counters
<1>3. CASE ~search.opened
  <2>1. /\ Len(search.pages) = 0 /\ Len(search.nexts) = 0 /\ search.run = 0 /\ search.last = None
    BY <1>0, <1>3 DEF SearchInv, OnShow, InFront, Settled, PagesKnown
  <2>2. search.pages = <<>> /\ search.nexts = <<>>
    <3>1. search.pages \in Seq({None} \cup Tags) /\ search.nexts \in Seq({None} \cup Tags)
      BY <1>0, ModelFields
    <3> QED
      BY <2>1, <3>1, EmptySeq
  <2>3. search' = Opened(NewForm(a)) /\ search' \in Models
    BY <1>1, <1>3, FreshModels
  <2>4. /\ search'.pages = search.pages /\ search'.nexts = search.nexts
        /\ search'.last = search.last /\ search'.run = search.run
        /\ search'.opened /\ search'.inForm
    BY <2>1, <2>2, <2>3, FreshModels
  <2>5. Counters'
    BY <1>0, <1>1 DEF Counters, RunMsg, FilterMsg
  <2>6. OnShow'
    BY <1>1, <2>1, <2>4 DEF OnShow, InFront
  <2> QED
    BY <1>1, <2>3, <2>4, <2>5, <2>6, SameBusiness
<1> QED
  BY <1>2, <1>3

LEMMA KeysKept == SearchInv /\ Keys => SearchInv'
<1> SUFFICES ASSUME SearchInv, Keys PROVE SearchInv'
  OBVIOUS
<1>0. /\ search \in Models /\ Counters /\ ~crashed
      /\ search.form \in Forms /\ search.inForm \in BOOLEAN /\ search.page \in 0 .. LastPage
      /\ screen = "search" => search.opened
      /\ search.page <= search.page
  <2>1. ~crashed
    BY DEF Keys, EditForm, ApplySaved, BackToForm, Enter, RunSearch, Rerun, NextPage, PrevPage, On
  <2>2. search \in Models
    BY DEF SearchInv
  <2>3. search.page \in 0 .. LastPage /\ search.page <= search.page
    BY <2>2, ModelFields, BoundsAssumption
  <2> QED
    BY <2>1, <2>2, <2>3, ModelFields DEF SearchInv, OnShow
<1>1. ASSUME NEW p \in Forms, EditForm(p) \/ ApplySaved(p) PROVE SearchInv'
  <2>1. /\ search' = [search EXCEPT !.form = p, !.inForm = TRUE]
        /\ UNCHANGED <<client, sessions, screen, requests, inbox, history, runs, late, crashed>>
    BY <1>1 DEF EditForm, ApplySaved
  <2>2. /\ search' \in Models /\ search'.opened = search.opened
        /\ search'.pages = search.pages /\ search'.nexts = search.nexts
        /\ search'.last = search.last /\ search'.run = search.run
        /\ search'.inForm
    BY <1>0, <2>1 DEF Models
  <2> QED
    BY <1>0, <2>1, <2>2, FormKept DEF Counters
<1>2. CASE BackToForm
  <2>1. /\ search' = [search EXCEPT !.inForm = TRUE]
        /\ UNCHANGED <<client, sessions, screen, requests, inbox, history, runs, late, crashed>>
    BY <1>2 DEF BackToForm
  <2>2. /\ search' \in Models /\ search'.opened = search.opened
        /\ search'.pages = search.pages /\ search'.nexts = search.nexts
        /\ search'.last = search.last /\ search'.run = search.run
        /\ search'.inForm
    BY <1>0, <2>1 DEF Models
  <2> QED
    BY <1>0, <2>1, <2>2, FormKept DEF Counters
<1>3. CASE Enter
  <2>1. /\ inbox' = inbox \cup {RunMsg}
        /\ UNCHANGED <<client, sessions, screen, search, requests, history, runs, late, crashed>>
    BY <1>3 DEF Enter, Say
  <2> QED
    BY <1>0, <2>1, FormKept DEF Counters
<1>4. CASE RunSearch
  <2>1. inbox' = inbox \ {RunMsg} /\ UNCHANGED <<client, sessions, screen, history>>
    BY <1>4 DEF RunSearch
  <2>2. CASE search.opened /\ search.form \in Searches /\ Start(search, search.form)
    <3>1. search.form \in {None} \cup Searches /\ inbox' \subseteq inbox
      BY <1>0, <2>1, <2>2 DEF Forms, Searches
    <3> QED
      BY <1>0, <2>1, <2>2, <3>1, StartKept
  <2>3. CASE ~search.opened /\ crashed' = TRUE /\ UNCHANGED <<search, requests, runs, late>>
    BY <1>0, <2>1, <2>3, FormKept DEF Counters
  <2>4. CASE search.opened /\ UNCHANGED <<search, requests, runs, late, crashed>>
    BY <1>0, <2>1, <2>4, FormKept DEF Counters
  <2> QED
    BY <1>4, <2>2, <2>3, <2>4 DEF RunSearch
<1>5. CASE Rerun
  <2>1. /\ Start(search, search.last) /\ UNCHANGED <<client, sessions, screen, inbox, history>>
        /\ search.opened
    BY <1>0, <1>5 DEF Rerun, On
  <2>2. search.last \in {None} \cup Searches
    BY <1>0, ModelFields
  <2> QED
    BY <1>0, <2>1, <2>2, StartKept
<1>6. CASE NextPage
  <2> SUFFICES ASSUME NEW here, here = search.page + 1 PROVE SearchInv'
    OBVIOUS
  <2>1. /\ On("search") /\ ~search.inForm /\ here \in DOMAIN search.nexts
        /\ search.nexts[here] # None
        /\ UNCHANGED <<client, sessions, screen, inbox, history, runs>>
    BY <1>6 DEF NextPage
  <2>2. CASE /\ here + 1 \in Loaded(search) /\ search' = [search EXCEPT !.page = here]
             /\ UNCHANGED <<requests, late, crashed>>
    <3>1. here + 1 \in 1 .. Len(search.pages) /\ here \in Nat
      <4>1. search.pages \in Seq({None} \cup Tags) /\ search.page \in 0 .. LastPage
        BY <1>0, ModelFields
      <4>2. here \in Nat
        BY <4>1, BoundsAssumption
      <4> QED
        BY <2>2, <4>1, <4>2, LoadedFacts
    <3>2. here \in 0 .. LastPage /\ here < Len(search.pages)
      <4>1. here <= LastPage
        BY <2>1 DEF SearchInv, Settled, PagesKnown
      <4> QED
        BY <1>0, <3>1, <4>1, ModelFields, BoundsAssumption
    <3>3. /\ search' \in Models /\ search'.opened = search.opened
          /\ search'.pages = search.pages /\ search'.nexts = search.nexts
          /\ search'.last = search.last /\ search'.run = search.run
          /\ search'.page = here
      BY <1>0, <2>2, <3>2 DEF Models
    <3> QED
      BY <1>0, <2>1, <2>2, <3>2, <3>3, FormKept DEF Counters
  <2>3. CASE /\ Send(search, search.last, here, search.nexts[here], search.run)
             /\ late' = IF search.nexts[here].run \in late THEN late \cup {search.run} ELSE late
    BY <2>1, <2>3, AskedKept
  <2> QED
    BY <1>6, <2>2, <2>3 DEF NextPage
<1>7. CASE PrevPage
  <2>1. /\ search.page > 0 /\ search' = [search EXCEPT !.page = search.page - 1] /\ ~search.inForm
        /\ UNCHANGED <<client, sessions, screen, requests, inbox, history, runs, late, crashed>>
    BY <1>7 DEF PrevPage
  <2> SUFFICES ASSUME NEW n, n = search.page - 1 PROVE SearchInv'
    OBVIOUS
  <2>2. n \in 0 .. LastPage /\ n <= search.page /\ search.page <= search.page
    BY <1>0, <2>1, BoundsAssumption
  <2>3. /\ search' \in Models /\ search'.opened = search.opened
        /\ search'.pages = search.pages /\ search'.nexts = search.nexts
        /\ search'.last = search.last /\ search'.run = search.run
        /\ search'.page = n /\ search'.inForm = search.inForm
    BY <1>0, <2>1, <2>2 DEF Models
  <2> QED
    BY <1>0, <2>1, <2>2, <2>3, FormKept DEF Counters
<1> QED
  BY <1>1, <1>2, <1>3, <1>4, <1>5, <1>6, <1>7, SearchesAreForms DEF Keys

LEMMA ScreensKept == SearchInv /\ Screens => SearchInv'
<1> SUFFICES ASSUME SearchInv, Screens PROVE SearchInv'
  OBVIOUS
<1>0. /\ search \in Models /\ Counters /\ search.page <= search.page /\ search.inForm \in BOOLEAN
      /\ ~crashed /\ screen = "search" => search.opened
  <2>1. search \in Models /\ Counters
    BY DEF SearchInv
  <2>2. search.page <= search.page /\ search.inForm \in BOOLEAN
    BY <2>1, ModelFields, BoundsAssumption
  <2> QED
    BY <2>1, <2>2 DEF SearchInv, OnShow
<1>1. ASSUME NEW a \in Asks, OpenSearch(a) PROVE SearchInv'
  <2>1. Opened(NewForm(a)) \in Models
    BY FreshModels
  <2> QED
    BY <1>0, <1>1, <2>1, FreshModels, ReplaceKept DEF OpenSearch, Counters
<1>2. ASSUME NEW a \in Asks, ShowSearch(a) PROVE SearchInv'
  BY <1>2, ShowSearchKept
<1>3. ASSUME NEW a \in Asks, UseFilter(a) PROVE SearchInv'
  <2>1. /\ ~crashed /\ inbox' = inbox \cup {FilterMsg(a)}
        /\ UNCHANGED <<client, sessions, screen, search, requests, history, runs, late, crashed>>
    BY <1>3 DEF UseFilter, Say, On
  <2>2. inbox' \subseteq {RunMsg} \cup {FilterMsg(b) : b \in Asks}
    BY <1>0, <2>1 DEF Counters
  <2> QED
    BY <1>0, <2>1, <2>2, FormKept DEF Counters
<1>4. ASSUME NEW a \in Asks, ApplyFilter(a) PROVE SearchInv'
  <2>1. /\ ~crashed /\ inbox' = inbox \ {FilterMsg(a)}
        /\ UNCHANGED <<client, sessions, requests, history, runs, late>>
    BY <1>4 DEF ApplyFilter
  <2>2. CASE /\ search.opened /\ search' = [search EXCEPT !.form.ask = a, !.inForm = TRUE]
             /\ screen' = "search" /\ UNCHANGED crashed
    <3>1. /\ search' \in Models /\ search'.opened = search.opened
          /\ search'.pages = search.pages /\ search'.nexts = search.nexts
          /\ search'.last = search.last /\ search'.run = search.run
          /\ search'.inForm
      BY <1>0, <2>2 DEF Models, Forms
    <3> QED
      BY <1>0, <2>1, <2>2, <3>1, FormKept DEF Counters
  <2>3. CASE crashed' = TRUE /\ UNCHANGED <<search, screen>>
    BY <1>0, <2>1, <2>3, FormKept DEF Counters
  <2> QED
    BY <1>4, <2>2, <2>3 DEF ApplyFilter
<1>5. CASE LeaveSearch
  <2>1. /\ ~crashed /\ screen' = "other"
        /\ UNCHANGED <<client, sessions, search, requests, inbox, history, runs, late, crashed>>
    BY <1>5 DEF LeaveSearch, On
  <2> QED
    BY <1>0, <2>1, FormKept DEF Counters
<1> QED
  BY <1>1, <1>2, <1>3, <1>4, <1>5 DEF Screens

LEMMA SessionsKept == SearchInv /\ Sessions => SearchInv'
<1> SUFFICES ASSUME SearchInv, Sessions PROVE SearchInv'
  OBVIOUS
<1>1. ASSUME NewSession
      PROVE  /\ requests' = Closed /\ client' \in 0 .. MaxSessions /\ sessions' \in 1 .. MaxSessions
             /\ client' \in {0, sessions'}
  <2>1. /\ requests' = Closed /\ sessions < MaxSessions /\ sessions' = sessions + 1
        /\ client' = sessions + 1
    BY <1>1 DEF NewSession
  <2>2. sessions \in 1 .. MaxSessions /\ MaxSessions \in Nat
    BY BoundsAssumption DEF SearchInv, Counters
  <2> QED
    BY <2>1, <2>2
<1>2. CASE Disconnect
  BY <1>2, DisconnectKept
<1>3. CASE Connect
  <2>1. /\ NewSession /\ Replace(Zero) /\ screen' = "other"
        /\ UNCHANGED <<inbox, history, runs, crashed>>
    BY <1>3 DEF Connect
  <2> QED
    BY <1>1, <2>1, FreshModels, ReplaceKept
<1>4. ASSUME NEW p \in Searches, Referral(p) PROVE SearchInv'
  <2>1. /\ NewSession /\ Replace(Opened(p)) /\ screen' = "search"
        /\ UNCHANGED <<inbox, history, runs, crashed>>
    BY <1>4 DEF Referral
  <2>2. Opened(p) \in Models
    BY FreshModels DEF Forms, Searches
  <2> QED
    BY <1>1, <2>1, <2>2, FreshModels, ReplaceKept
<1> QED
  BY <1>2, <1>3, <1>4 DEF Sessions

LEMMA SearchNext == SearchInv /\ [Next]_vars => SearchInv'
<1> SUFFICES ASSUME SearchInv, [Next]_vars PROVE SearchInv'
  OBVIOUS
<1>1. CASE UNCHANGED vars
  <2>1. UNCHANGED <<client, sessions, screen, search, requests, inbox, history, runs, late, crashed>>
    BY <1>1 DEF vars
  <2>2. Settled(requests, search, late, runs, sessions)'
    BY <2>1 DEF SearchInv
  <2>3. Counters' /\ OnShow'
    BY <2>1 DEF SearchInv, Counters, OnShow, InFront, RunMsg, FilterMsg
  <2> QED
    BY <2>1, <2>2, <2>3 DEF SearchInv
<1>2. CASE Keys
  BY <1>2, KeysKept
<1>3. CASE Screens
  BY <1>3, ScreensKept
<1>4. CASE Sessions
  BY <1>4, SessionsKept
<1>5. ASSUME NEW i \in Ids, Answer(i) \/ Deliver(i) PROVE SearchInv'
  BY <1>5, AnswerKept, DeliverKept
<1> QED
  BY <1>1, <1>2, <1>3, <1>4, <1>5 DEF Next

LEMMA SearchAlways == Spec => []SearchInv
BY SearchInit, SearchNext, PTL DEF Spec

-----------------------------------------------------------------------------
(* The theorems.                                                           *)

LEMMA InvTypes == SearchInv => TypeOK
<1> SUFFICES ASSUME SearchInv PROVE TypeOK
  OBVIOUS
<1>1. /\ Counters /\ search \in Models /\ search.run <= runs /\ DOMAIN requests \subseteq Ids
      /\ Settled(requests, search, late, runs, sessions)
  BY DEF SearchInv
<1>2. DOMAIN search = DOMAIN Zero
  <2>1. \A s \in Models : DOMAIN s = {"opened", "form", "inForm", "running", "pages", "nexts",
                                      "page", "last", "lastScp", "run"}
    BY DEF Models
  <2> QED
    BY <1>1, <2>1, FreshModels
<1>3. search.run \in 0 .. runs
  <2>1. search.run \in 0 .. MaxRuns /\ runs \in 0 .. MaxRuns
    BY <1>1, ModelFields DEF Counters
  <2> QED
    BY <1>1, <2>1, BoundsAssumption
<1>4. Len(search.pages) = Len(search.nexts)
  BY <1>1 DEF Settled, PagesKnown
<1>5. \A i \in DOMAIN requests : requests[i] \in Requests
  BY <1>1 DEF Settled, AllAsked, WellAsked
<1>6. {search.opened, search.inForm, search.running} \subseteq BOOLEAN
  BY <1>1, ModelFields
<1>7. /\ search.form \in Forms /\ search.last \in {None} \cup Searches
      /\ search.lastScp \in {None} \cup Scopes
      /\ search.pages \in Seq({None} \cup Tags) /\ search.nexts \in Seq({None} \cup Tags)
      /\ search.page \in 0 .. LastPage
  BY <1>1, ModelFields
<1> HIDE DEF Requests
<1> QED
  BY <1>1, <1>2, <1>3, <1>4, <1>5, <1>6, <1>7 DEF TypeOK, Counters

\* Every variable is in its domain, the pages and their cookies go together and
\* the history is never longer than its bound, whatever the order of the answers
\* (search.go:50, connections.go:221).
THEOREM SearchTyped == Spec => []TypeOK
BY SearchAlways, InvTypes, PTL

LEMMA InvHonest == SearchInv => PagesHonest
<1> SUFFICES ASSUME SearchInv PROVE PagesHonest
  OBVIOUS
<1>1. /\ search \in Models /\ Settled(requests, search, late, runs, sessions) /\ OnShow
  BY DEF SearchInv
<1>2. PagesOfOneRun
  BY <1>1 DEF PagesOfOneRun, Settled, PagesKnown, OfRun
<1>3. CookieGoesBack
  <2> SUFFICES ASSUME NEW i \in DOMAIN requests, requests[i].cookie # None,
                      requests[i].cookie.run \notin late
               PROVE  /\ requests[i].cookie.params = requests[i].params
                      /\ requests[i].cookie.session = requests[i].session
                      /\ requests[i].cookie.page + 1 = requests[i].page
    BY DEF CookieGoesBack
  <2>1. WellAsked(requests[i], runs) /\ InTime(requests[i], search, late, sessions)
    BY <1>1 DEF Settled, AllAsked, AllInTime
  <2>2. requests[i].cookie.page + 1 = requests[i].page
    BY <2>1 DEF WellAsked
  <2> QED
    BY <2>1, <2>2 DEF InTime
<1>4. ResultsShown
  <2> SUFFICES ASSUME ~crashed, search.opened, ~search.inForm, late = {}, requests = <<>>
               PROVE  search.page + 1 \in Loaded(search)
    BY DEF ResultsShown
  <2>1. DOMAIN requests = {}
    OBVIOUS
  <2>2. search.page < Len(search.pages)
    BY <1>1, <2>1 DEF OnShow, InFront
  <2>3. search.page \in 0 .. LastPage /\ search.pages \in Seq({None} \cup Tags)
    BY <1>1, ModelFields
  <2>4. Len(search.pages) \in Nat
    BY <2>3
  <2>5. Len(search.pages) > 0 /\ search.page + 1 \in 1 .. Len(search.pages)
    BY <2>2, <2>3, <2>4, BoundsAssumption
  <2>6. Reached(search, late, Len(search.pages))
    BY <1>1, <2>5 DEF Settled, NoGap
  <2> QED
    BY <2>5, <2>6 DEF Reached, FrontLate
<1> QED
  BY <1>2, <1>3, <1>4 DEF PagesHonest

\* For any searches, any number of runs, requests and sessions, and any order of
\* the answers: the pages walked through are each at its place and of one
\* search, a cookie goes back with the search and in the session it came with,
\* and the page on show is loaded, unless a request was overtaken
\* (search.go:309-322, 477, 605-614, 645).
THEOREM PagesStayHonest == Spec => []PagesHonest
BY SearchAlways, InvHonest, PTL

\* The first page that is awaited has been asked for with the scope that the
\* history will say, unless the form's had been edited since the search ran.
Scoped(rs, s, l) ==
    \A i \in DOMAIN rs :
       rs[i].cookie = None /\ rs[i].run \notin l /\ ~rs[i].edited /\ rs[i].params # None
         => s.lastScp = rs[i].params.scope

\* Requests end or are answered, runs become late, and the scope is not read.
LEMMA ScopedKept ==
    ASSUME NEW rs, NEW qs, NEW s, NEW t, NEW l, NEW m, Scoped(rs, s, l),
           \A i \in DOMAIN qs :
              /\ i \in DOMAIN rs /\ qs[i].run = rs[i].run /\ qs[i].params = rs[i].params
              /\ qs[i].cookie = rs[i].cookie /\ qs[i].edited = rs[i].edited
              /\ rs[i].run \in l => qs[i].run \in m,
           t.lastScp = s.lastScp \/ \A i \in DOMAIN qs : qs[i].run \in m
    PROVE  Scoped(qs, t, m)
BY DEF Scoped

ScopeInv == Scoped(requests, search, late)

LEMMA StartScoped ==
    ASSUME SearchInv, NEW p \in {None} \cup Searches, Start(search, p)
    PROVE  ScopeInv'
<1>1. search \in Models
  BY DEF SearchInv
<1>2. search'.lastScp = search.form.scope /\ late' = late \cup InFlight
  BY <1>1 DEF Start, Send, Models
<1>3. \A i \in DOMAIN requests : requests[i].run \in late'
  BY <1>2 DEF InFlight
<1>4. CASE client = 0
  <2>1. requests' = requests
    BY <1>4 DEF Start, Send
  <2> QED
    BY <1>3, <2>1 DEF ScopeInv, Scoped
<1>5. CASE client # 0
  <2> SUFFICES ASSUME NEW i \in DOMAIN requests', ~requests'[i].edited,
                      requests'[i].params # None, requests'[i].run \notin late'
               PROVE  search'.lastScp = requests'[i].params.scope
    BY DEF ScopeInv, Scoped
  <2>1. /\ DOMAIN requests' = DOMAIN requests \cup {Free}
        /\ requests'[i].run \notin late' => i = Free \/ requests'[i] # requests[i]
        /\ i # Free => requests'[i] = requests[i]
        /\ i = Free => /\ requests'[i].params = p
                       /\ requests'[i].edited = (p # None /\ p.scope # search.form.scope)
    BY <1>1, <1>3, <1>5 DEF Start, Send, Models
  <2>2. i = Free
    BY <2>1
  <2> QED
    BY <1>2, <2>1, <2>2
<1> QED
  BY <1>4, <1>5

\* A page is asked for only when the first one is there.
LEMMA AskedScoped ==
    ASSUME SearchInv, ScopeInv, NEW here, here = search.page + 1,
           here \in DOMAIN search.nexts, search.nexts[here] # None,
           Send(search, search.last, here, search.nexts[here], search.run),
           late' = IF search.nexts[here].run \in late THEN late \cup {search.run} ELSE late
    PROVE  ScopeInv'
<1> DEFINE c == search.nexts[here]
<1>0. search \in Models /\ Settled(requests, search, late, runs, sessions)
  BY DEF SearchInv
<1>1. /\ search.nexts \in Seq({None} \cup Tags) /\ search.pages \in Seq({None} \cup Tags)
      /\ Len(search.pages) = Len(search.nexts)
  BY <1>0, ModelFields DEF Settled, PagesKnown
<1>2. c = search.pages[here] /\ here \in Loaded(search)
  BY <1>0, <1>1 DEF Settled, PagesKnown, Loaded
<1>3. c.run \in late \/ c.run = search.run
  BY <1>0, <1>2 DEF Settled, PagesKnown, OfRun
<1>4. ASSUME NEW i \in DOMAIN requests, requests[i].cookie = None
      PROVE  requests[i].run \in late'
  <2> SUFFICES ASSUME requests[i].run \notin late' PROVE FALSE
    OBVIOUS
  <2>1. requests[i].run \notin late
    OBVIOUS
  <2>2. requests[i].run = search.run
    BY <1>0, <2>1 DEF Settled, AllInTime, InTime, OfRun
  <2>3. c.run \notin late
    BY <2>2
  <2>4. search.pages[here].run = requests[i].run
    BY <1>2, <1>3, <2>2, <2>3
  <2> HIDE DEF c
  <2> QED
    BY <1>0, <1>2, <1>4, <2>1, <2>4 DEF Settled, FirstAlone
<1>5. CASE client = 0
  <2>1. requests' = requests
    BY <1>5 DEF Send
  <2> QED
    BY <1>4, <2>1 DEF ScopeInv, Scoped
<1>6. CASE client # 0
  <2>1. /\ DOMAIN requests' = DOMAIN requests \cup {Free}
        /\ \A i \in DOMAIN requests' :
              IF i = Free THEN requests'[i].cookie = c ELSE requests'[i] = requests[i]
    BY <1>6 DEF Send
  <2> QED
    BY <1>4, <2>1 DEF ScopeInv, Scoped
<1> QED
  BY <1>5, <1>6

\* Every other step: requests end, or are answered or closed.
LEMMA OthersScoped ==
    ASSUME SearchInv, ScopeInv,
           \/ requests' = requests \/ requests' = Closed
           \/ \E i \in Ids : Answer(i) \/ Deliver(i),
           \/ late' = late /\ search'.lastScp = search.lastScp
           \/ late' = StillLate(late, requests', search') /\ search'.lastScp = search.lastScp
           \/ late' = StillLate(late \cup InFlight, requests', search')
    PROVE  ScopeInv'
<1>1. \A i \in DOMAIN requests : requests[i] \in Requests
  BY DEF SearchInv, Settled, AllAsked, WellAsked
<1> DEFINE AsAsked == \A i \in DOMAIN requests' :
         /\ i \in DOMAIN requests /\ requests'[i].run = requests[i].run
         /\ requests'[i].params = requests[i].params /\ requests'[i].cookie = requests[i].cookie
         /\ requests'[i].edited = requests[i].edited
<1>2. AsAsked
  <2>1. CASE requests' = requests \/ requests' = Closed
    BY <1>1, <2>1 DEF Closed, Requests
  <2>2. ASSUME NEW i \in Ids, Answer(i) PROVE AsAsked
    <3>1. i \in DOMAIN requests /\ requests[i] \in Requests
      BY <1>1, <2>2 DEF Answer
    <3>2. \/ requests' = [requests EXCEPT ![i].state = "failed"]
          \/ \E x : requests' = [requests EXCEPT ![i].state = "ok", ![i].next = x]
      BY <2>2 DEF Answer
    <3>3. \E st, x : requests' = [requests EXCEPT ![i] = [requests[i] EXCEPT !.state = st, !.next = x]]
      <4>1. CASE requests' = [requests EXCEPT ![i].state = "failed"]
        <5>1. requests' = [requests EXCEPT ![i] = [requests[i] EXCEPT !.state = "failed"]]
          BY <4>1
        <5>2. [requests[i] EXCEPT !.state = "failed"]
                = [requests[i] EXCEPT !.state = "failed", !.next = requests[i].next]
          BY <3>1 DEF Requests
        <5> QED
          BY <5>1, <5>2
      <4>2. ASSUME NEW x, requests' = [requests EXCEPT ![i].state = "ok", ![i].next = x]
            PROVE  requests' = [requests EXCEPT ![i] = [requests[i] EXCEPT !.state = "ok", !.next = x]]
        BY <3>1, <4>2
      <4> QED
        BY <3>2, <4>1, <4>2
    <3>4. PICK st, x :
            requests' = [requests EXCEPT ![i] = [requests[i] EXCEPT !.state = st, !.next = x]]
      BY <3>3
    <3> DEFINE q == [requests[i] EXCEPT !.state = st, !.next = x]
    <3>5. /\ q.run = requests[i].run /\ q.params = requests[i].params
          /\ q.cookie = requests[i].cookie /\ q.edited = requests[i].edited
      BY <3>1 DEF Requests
    <3> HIDE DEF q
    <3>6. /\ DOMAIN requests' = DOMAIN requests
          /\ \A j \in DOMAIN requests : requests'[j] = IF j = i THEN q ELSE requests[j]
      BY <3>4 DEF q
    <3> QED
      BY <3>5, <3>6
  <2>3. ASSUME NEW i \in Ids, Deliver(i) PROVE AsAsked
    BY <2>3 DEF Deliver, Without
  <2> QED
    BY <2>1, <2>2, <2>3
<1>3. \A i \in DOMAIN requests' : requests'[i].run \in late => requests'[i].run \in late'
  BY DEF StillLate
<1>4. \/ search'.lastScp = search.lastScp
      \/ \A i \in DOMAIN requests' : requests'[i].run \in late'
  BY <1>2 DEF StillLate, InFlight
<1> QED
  BY <1>2, <1>3, <1>4, ScopedKept DEF ScopeInv

LEMMA ScopeNext == SearchInv /\ ScopeInv /\ [Next]_vars => ScopeInv'
<1> SUFFICES ASSUME SearchInv, ScopeInv, [Next]_vars PROVE ScopeInv'
  OBVIOUS
<1>0. search \in Models
  BY DEF SearchInv
<1>1. CASE UNCHANGED vars
  BY <1>1 DEF vars, ScopeInv
<1>2. CASE Keys
  <2>1. ASSUME NEW p \in Forms, EditForm(p) \/ ApplySaved(p) PROVE ScopeInv'
    BY <1>0, <2>1, OthersScoped DEF EditForm, ApplySaved, Models
  <2>2. CASE BackToForm \/ Enter \/ PrevPage
    BY <1>0, <2>2, OthersScoped DEF BackToForm, Enter, PrevPage, Models
  <2>3. CASE RunSearch
    <3>1. CASE search.opened /\ search.form \in Searches /\ Start(search, search.form)
      <4>1. search.form \in {None} \cup Searches
        BY <1>0, <3>1, ModelFields DEF Forms, Searches
      <4> QED
        BY <3>1, <4>1, StartScoped
    <3>2. CASE UNCHANGED <<search, requests, late>>
      BY <3>2, OthersScoped
    <3> QED
      BY <2>3, <3>1, <3>2 DEF RunSearch
  <2>4. CASE Rerun
    BY <1>0, <2>4, ModelFields, StartScoped DEF Rerun
  <2>5. CASE NextPage
    <3> SUFFICES ASSUME NEW here, here = search.page + 1 PROVE ScopeInv'
      OBVIOUS
    <3>1. CASE search' = [search EXCEPT !.page = here] /\ UNCHANGED <<requests, late, crashed>>
      BY <1>0, <3>1, OthersScoped DEF Models
    <3>2. CASE /\ Send(search, search.last, here, search.nexts[here], search.run)
               /\ late' = IF search.nexts[here].run \in late THEN late \cup {search.run} ELSE late
      BY <2>5, <3>2, AskedScoped DEF NextPage
    <3> QED
      BY <2>5, <3>1, <3>2 DEF NextPage
  <2> QED
    BY <1>2, <2>1, <2>2, <2>3, <2>4, <2>5, SearchesAreForms DEF Keys
<1>3. CASE Screens
  <2>1. ASSUME NEW a \in Asks, OpenSearch(a) PROVE ScopeInv'
    BY <2>1, OthersScoped DEF OpenSearch, Replace
  <2>2. ASSUME NEW a \in Asks, ShowSearch(a) PROVE ScopeInv'
    <3>1. CASE search.opened
      BY <2>2, <3>1, OthersScoped DEF ShowSearch
    <3>2. CASE ~search.opened
      <4>1. search.last = None
        BY <2>2, <3>2 DEF SearchInv, OnShow, InFront, ShowSearch
      <4>2. \A i \in DOMAIN requests : requests[i].run \in late \/ requests[i].params = None
        BY <4>1 DEF SearchInv, Settled, AllInTime, InTime, OfRun
      <4> QED
        BY <2>2, <4>2 DEF ScopeInv, Scoped, ShowSearch
    <3> QED
      BY <3>1, <3>2
  <2>3. ASSUME NEW a \in Asks, UseFilter(a) \/ ApplyFilter(a) PROVE ScopeInv'
    BY <1>0, <2>3, OthersScoped DEF UseFilter, ApplyFilter, Models
  <2>4. CASE LeaveSearch
    BY <2>4, OthersScoped DEF LeaveSearch
  <2> QED
    BY <1>3, <2>1, <2>2, <2>3, <2>4 DEF Screens
<1>4. CASE Sessions
  <2>1. CASE Disconnect
    BY <2>1, OthersScoped DEF Disconnect
  <2>2. CASE Connect
    BY <2>2, OthersScoped DEF Connect, NewSession, Replace
  <2>3. ASSUME NEW p \in Searches, Referral(p) PROVE ScopeInv'
    BY <2>3, OthersScoped DEF Referral, NewSession, Replace
  <2> QED
    BY <1>4, <2>1, <2>2, <2>3 DEF Sessions
<1>5. ASSUME NEW i \in Ids, Answer(i) \/ Deliver(i) PROVE ScopeInv'
  <2>1. search'.lastScp = search.lastScp
    BY <1>0, <1>5 DEF Answer, Deliver, Failed, Shown, Models
  <2>2. late' = late \/ late' = StillLate(late, requests', search')
    BY <1>5 DEF Answer, Deliver
  <2> QED
    BY <1>5, <2>1, <2>2, OthersScoped
<1> QED
  BY <1>1, <1>2, <1>3, <1>4, <1>5 DEF Next

\* The history gains the search whose first page has just come, unless that
\* page was overtaken; its scope may be another one only when the search was
\* sent again after the form's had been edited (search.go:287, 330-333).
THEOREM HistoryTells == Spec => HistoryTellsWhatRan
<1> DEFINE Told ==
      history' # history =>
        \E i \in DOMAIN requests :
           LET r == requests[i]
               item == history'[1].key
           IN  /\ i \notin DOMAIN requests' /\ r.state = "ok" /\ r.page = 0
               /\ \/ r.run \in late
                  \/ /\ item.ask = r.params.ask
                     /\ item.scope = r.params.scope \/ r.edited
<1>1. SearchInv /\ ScopeInv /\ [Next]_vars => [Told]_vars
  <2> SUFFICES ASSUME SearchInv, ScopeInv, Next, history' # history PROVE Told
    BY DEF vars
  <2>1. PICK i \in Ids : Deliver(i)
    BY DEF Next, Keys, Screens, Sessions, EditForm, ApplySaved, BackToForm, Enter, RunSearch,
       Rerun, NextPage, PrevPage, OpenSearch, ShowSearch, UseFilter, ApplyFilter, LeaveSearch,
       Disconnect, Connect, Referral, Answer
  <2>2. /\ i \in DOMAIN requests /\ requests' = Without(i)
        /\ requests[i].state = "ok" /\ requests[i].page = 0
        /\ history' = Push(history, Remembered(search), HistoryMax)
    BY <2>1 DEF Deliver
  <2>3. i \notin DOMAIN requests'
    BY <2>2 DEF Without
  <2>4. search \in Models /\ HistoryMax \in Nat /\ history \in Seq(Items)
    BY BoundsAssumption DEF SearchInv, Counters
  <2>5. history'[1] = Remembered(search)
    BY <2>2, <2>4, PushFacts, RememberedFacts
  <2>6. WellAsked(requests[i], runs)
    BY <2>2 DEF SearchInv, Settled, AllAsked
  <2>7. requests[i].params # None /\ requests[i].cookie = None
    BY <2>2, <2>6 DEF WellAsked
  <2>8. requests[i].run \in late \/ requests[i].params = search.last
    BY <2>2 DEF SearchInv, Settled, AllInTime, InTime, OfRun
  <2>9. requests[i].run \notin late => history'[1].key.ask = requests[i].params.ask
    BY <2>4, <2>5, <2>7, <2>8, RememberedFacts
  <2>10. requests[i].run \notin late /\ ~requests[i].edited
           => history'[1].key.scope = requests[i].params.scope
    BY <2>2, <2>4, <2>5, <2>7, RememberedFacts DEF ScopeInv, Scoped
  <2> QED
    BY <2>2, <2>3, <2>9, <2>10
<1>2. Init => ScopeInv
  <2>1. Init => DOMAIN requests = {}
    BY DEF Init
  <2> QED
    BY <2>1 DEF ScopeInv, Scoped
<1> QED
  BY <1>1, <1>2, ScopeNext, SearchAlways, PTL DEF Spec, HistoryTellsWhatRan

-----------------------------------------------------------------------------
(* Filters: rows and the rows below them.                                  *)

\* A list of rows that have depths.
Deep(s) == Listed(s) /\ \A i \in DOMAIN s : s[i].depth \in Nat

LEMMA DeepFacts ==
    ASSUME NEW s, Deep(s)
    PROVE  Len(s) \in Nat /\ DOMAIN s = 1 .. Len(s) /\ \A i \in 1 .. Len(s) : s[i].depth \in Nat
BY DEF Deep, Listed

\* A row in one list but not below an earlier one comes after a row no deeper
\* than that, which it is or is below.
LEMMA NotBelow ==
    ASSUME NEW s, Deep(s), NEW i \in DOMAIN s, NEW j \in DOMAIN s, i < j, j \notin Below(s, i)
    PROVE  \E k \in i + 1 .. j : s[k].depth <= s[i].depth /\ (k = j \/ j \in Below(s, k))
<1>0. Len(s) \in Nat /\ DOMAIN s = 1 .. Len(s) /\ \A k \in 1 .. Len(s) : s[k].depth \in Nat
  BY DeepFacts
<1> DEFINE T == {n \in Nat : n < j - i /\ s[j - n].depth <= s[i].depth}
<1>1. PICK k \in i + 1 .. j : ~(s[k].depth > s[i].depth)
  BY <1>0 DEF Below
<1>2. j - k \in T
  <2>1. j - k \in Nat /\ j - k < j - i /\ j - (j - k) = k /\ k \in 1 .. Len(s)
    BY <1>0
  <2> QED
    BY <1>0, <1>1, <2>1
<1>3. PICK n \in T : \A m \in T : n <= m
  <2>1. T # {} /\ T \in SUBSET Nat
    BY <1>2
  <2> HIDE DEF T
  <2> QED
    BY <2>1, LeastElement
<1>4. j - n \in i + 1 .. j /\ s[j - n].depth <= s[i].depth
  BY <1>0, <1>3
<1>5. ASSUME n # 0 PROVE j \in Below(s, j - n)
  <2>1. j \in (j - n) + 1 .. Len(s)
    BY <1>0, <1>3, <1>5
  <2>2. ASSUME NEW m \in (j - n) + 1 .. j PROVE s[m].depth > s[j - n].depth
    <3>1. j - m \in Nat /\ j - m < n /\ j - m < j - i /\ j - (j - m) = m /\ m \in 1 .. Len(s)
      BY <1>0, <1>3
    <3>2. j - m \notin T
      BY <1>3, <3>1
    <3>3. ~(s[m].depth <= s[i].depth)
      BY <3>1, <3>2
    <3>a. j - n \in 1 .. Len(s) /\ i \in 1 .. Len(s) /\ m \in 1 .. Len(s)
      BY <1>0, <1>4, <3>1
    <3>4. s[m].depth \in Nat /\ s[i].depth \in Nat /\ s[j - n].depth \in Nat
      BY <1>0, <3>a
    <3> QED
      BY <1>4, <3>3, <3>4
  <2> QED
    BY <2>1, <2>2 DEF Below
<1> QED
  BY <1>0, <1>4, <1>5

LEMMA BelowFacts ==
    ASSUME NEW s, Deep(s), NEW i \in DOMAIN s
    PROVE  /\ \A j \in Below(s, i) : /\ j \in DOMAIN s /\ i < j /\ s[j].depth > s[i].depth
                                     /\ Below(s, j) \subseteq Below(s, i)
           /\ \A j \in Below(s, i) : \A k \in i + 1 .. j : k \in Below(s, i)
           /\ \A j \in Below(s, i) : \A k \in DOMAIN s :
                j \in Below(s, k) => k = i \/ k \in Below(s, i) \/ i \in Below(s, k)
           /\ Kids(s, i) \subseteq Below(s, i)
<1>0. Len(s) \in Nat /\ DOMAIN s = 1 .. Len(s) /\ \A k \in 1 .. Len(s) : s[k].depth \in Nat
  BY DeepFacts
<1>1. ASSUME NEW j \in Below(s, i)
      PROVE  j \in DOMAIN s /\ i < j /\ s[j].depth > s[i].depth
  BY <1>0 DEF Below
<1>2. ASSUME NEW j \in Below(s, i), NEW k \in Below(s, j) PROVE k \in Below(s, i)
  <2>1. i < j /\ j \in DOMAIN s /\ j < k /\ k \in 1 .. Len(s)
    BY <1>0, <1>1 DEF Below
  <2>2. ASSUME NEW m \in i + 1 .. k PROVE s[m].depth > s[i].depth
    <3>1. CASE m <= j
      BY <1>0, <2>1, <3>1 DEF Below
    <3>2. CASE m > j
      <4>1. s[m].depth > s[j].depth
        BY <1>0, <2>1, <3>2 DEF Below
      <4>2. s[j].depth > s[i].depth
        BY <1>1
      <4>3. s[m].depth \in Nat /\ s[i].depth \in Nat /\ s[j].depth \in Nat
        BY <1>0, <2>1
      <4> QED
        BY <4>1, <4>2, <4>3
    <3> QED
      BY <1>0, <2>1, <3>1, <3>2
  <2> QED
    BY <1>0, <2>1, <2>2 DEF Below
<1>3. ASSUME NEW j \in Below(s, i), NEW k \in i + 1 .. j PROVE k \in Below(s, i)
  BY <1>0 DEF Below
<1>4. ASSUME NEW j \in Below(s, i), NEW k \in DOMAIN s, j \in Below(s, k)
      PROVE  k = i \/ k \in Below(s, i) \/ i \in Below(s, k)
  <2>1. i < j /\ k < j /\ i \in Nat /\ k \in Nat
    BY <1>0, <1>4 DEF Below
  <2>2. CASE i < k
    BY <2>1, <2>2, <1>0 DEF Below
  <2>3. CASE k < i
    BY <2>1, <2>3, <1>0, <1>4 DEF Below
  <2> QED
    BY <2>1, <2>2, <2>3
<1>5. Kids(s, i) \subseteq Below(s, i)
  BY DEF Kids
<1> QED
  BY <1>1, <1>2, <1>3, <1>4, <1>5

\* The rows below a row end at the list's end or before one no deeper.
LEMMA EndFacts ==
    ASSUME NEW s, Deep(s), NEW i \in DOMAIN s
    PROVE  /\ End(s, i) \in i .. Len(s) /\ Below(s, i) = i + 1 .. End(s, i)
           /\ End(s, i) < Len(s) => s[End(s, i) + 1].depth <= s[i].depth
<1>0. Len(s) \in Nat /\ DOMAIN s = 1 .. Len(s) /\ \A k \in 1 .. Len(s) : s[k].depth \in Nat
  BY DeepFacts
<1> DEFINE T == {n \in Nat : n > i /\ (n \in 1 .. Len(s) => s[n].depth <= s[i].depth)}
<1>1. Len(s) + 1 \in T
  BY <1>0
<1>2. PICK n \in T : \A m \in T : n <= m
  <2>1. T # {} /\ T \in SUBSET Nat
    BY <1>1
  <2> HIDE DEF T
  <2> QED
    BY <2>1, LeastElement
<1>3. n <= Len(s) + 1 /\ n \in Nat /\ n > i
  BY <1>1, <1>2
<1>4. ASSUME NEW k \in i + 1 .. n - 1 PROVE k \in 1 .. Len(s) /\ s[k].depth > s[i].depth
  <2>1. k \in 1 .. Len(s) /\ k < n /\ k \in Nat /\ k > i
    BY <1>0, <1>3
  <2>2. k \notin T
    BY <1>2, <2>1
  <2> QED
    BY <1>0, <2>1, <2>2
<1>5. Below(s, i) = i + 1 .. n - 1
  <2>1. ASSUME NEW j \in i + 1 .. n - 1 PROVE j \in Below(s, i)
    <3>1. j \in i + 1 .. Len(s)
      BY <1>0, <1>4
    <3>2. \A k \in i + 1 .. j : s[k].depth > s[i].depth
      BY <1>0, <1>3, <1>4
    <3> QED
      BY <3>1, <3>2 DEF Below
  <2>2. ASSUME NEW j \in Below(s, i) PROVE j \in i + 1 .. n - 1
    <3>1. j \in i + 1 .. Len(s) /\ \A k \in i + 1 .. j : s[k].depth > s[i].depth
      BY DEF Below
    <3>2. CASE j >= n
      <4>1. n \in i + 1 .. j /\ n \in 1 .. Len(s)
        BY <1>0, <1>3, <3>1, <3>2
      <4>2. s[n].depth <= s[i].depth /\ s[n].depth \in Nat /\ s[i].depth \in Nat
        BY <1>0, <1>2, <4>1
      <4> QED
        BY <3>1, <4>1, <4>2
    <3> QED
      BY <1>0, <1>3, <3>1, <3>2
  <2> QED
    BY <2>1, <2>2
<1>6. n - 1 \in i .. Len(s)
  BY <1>0, <1>3
<1>7. End(s, i) \in i .. Len(s) /\ Below(s, i) = i + 1 .. End(s, i)
  BY <1>5, <1>6 DEF End
<1>8. End(s, i) = n - 1
  <2> DEFINE e == End(s, i)
  <2>0. e \in i .. Len(s) /\ i + 1 .. e = i + 1 .. n - 1
    BY <1>5, <1>7
  <2> HIDE DEF e
  <2>1. ASSUME e < n - 1 PROVE FALSE
    <3>1. n - 1 \in i + 1 .. n - 1 /\ n - 1 \notin i + 1 .. e
      BY <1>0, <1>3, <2>0, <2>1
    <3> QED
      BY <2>0, <3>1
  <2>2. ASSUME e > n - 1 PROVE FALSE
    <3>1. e \in i + 1 .. e /\ e \notin i + 1 .. n - 1
      BY <1>0, <1>3, <2>0, <2>2
    <3> QED
      BY <2>0, <3>1
  <2>3. e = n - 1
    BY <1>0, <1>3, <2>0, <2>1, <2>2
  <2> QED
    BY <2>3 DEF e
<1>9. ASSUME n - 1 < Len(s) PROVE s[(n - 1) + 1].depth <= s[i].depth
  <2>1. n \in 1 .. Len(s) /\ (n - 1) + 1 = n
    BY <1>0, <1>3, <1>9
  <2> QED
    BY <1>2, <2>1
<1> QED
  BY <1>7, <1>8, <1>9

IsLeaf(n) == n.kind \in {"cond", "item"}

\* b may be the row after a.
Follows(a, b) == b.depth \in 1 .. a.depth + 1 /\ (IsLeaf(a) => b.depth <= a.depth)

LEMMA NestedFacts ==
    ASSUME NEW s
    PROVE  Nested(s) <=> s # <<>> /\ s[1].depth = 0 /\ \A i \in 2 .. Len(s) : Follows(s[i - 1], s[i])
BY DEF Nested, Follows, IsLeaf

\* In a tree each row but the first is right below a group, and all are below
\* the first.
LEMMA ParentFacts ==
    ASSUME NEW s, Deep(s), Nested(s), NEW i \in 2 .. Len(s)
    PROVE  /\ Parent(s, i) \in DOMAIN s /\ Parent(s, i) < i /\ i \in Kids(s, Parent(s, i))
           /\ ~IsLeaf(s[Parent(s, i)])
           /\ i \in Below(s, 1)
<1>0. Len(s) \in Nat /\ DOMAIN s = 1 .. Len(s) /\ \A k \in 1 .. Len(s) : s[k].depth \in Nat
  BY DeepFacts
<1>1. s[1].depth = 0 /\ \A k \in 2 .. Len(s) : Follows(s[k - 1], s[k])
  BY NestedFacts
<1>2. \A k \in 2 .. Len(s) : s[k].depth >= 1 /\ s[k].depth <= s[k - 1].depth + 1
  BY <1>0, <1>1 DEF Follows
<1>3. i \in Below(s, 1)
  BY <1>0, <1>1, <1>2 DEF Below
<1> DEFINE T == {n \in Nat : n < i /\ n >= 1 /\ s[i - n].depth < s[i].depth}
<1>4. i - 1 \in T
  BY <1>0, <1>1, <1>2
<1>5. PICK n \in T : \A m \in T : n <= m
  <2>1. T # {} /\ T \in SUBSET Nat
    BY <1>4
  <2> HIDE DEF T
  <2> QED
    BY <2>1, LeastElement
<1> DEFINE k == i - n
<1>6. k \in 1 .. i - 1 /\ k \in DOMAIN s /\ s[k].depth < s[i].depth
  BY <1>0, <1>5
<1>7. ASSUME NEW m \in k + 1 .. i - 1 PROVE ~(s[m].depth < s[i].depth)
  <2>1. i - m \in Nat /\ i - m < n /\ i - m >= 1 /\ i - (i - m) = m
    BY <1>0, <1>6
  <2>2. i - m < i
    BY <1>0, <1>6
  <2>3. i - m \notin T
    <3>1. n \in Nat /\ (i - m \in T => n <= i - m)
      BY <1>5
    <3> QED
      BY <2>1, <3>1
  <2> QED
    BY <2>1, <2>2, <2>3
<1> HIDE DEF k
<1>8. i \in Below(s, k)
  <2>1. ASSUME NEW m \in k + 1 .. i PROVE s[m].depth > s[k].depth
    <3>1. m \in 1 .. Len(s) /\ s[m].depth \in Nat /\ s[i].depth \in Nat /\ s[k].depth \in Nat
      BY <1>0, <1>6
    <3>2. m = i \/ ~(s[m].depth < s[i].depth)
      BY <1>6, <1>7
    <3> QED
      BY <1>6, <3>1, <3>2
  <2> QED
    BY <1>0, <1>6, <2>1 DEF Below
<1>9. s[i].depth = s[k].depth + 1 /\ ~IsLeaf(s[k])
  <2>1. k + 1 \in 2 .. Len(s) /\ (k + 1) - 1 = k
    BY <1>0, <1>6
  <2>2. Follows(s[k], s[k + 1])
    BY <1>1, <2>1
  <2>3. ~(s[k + 1].depth < s[i].depth)
    <3>1. CASE k + 1 = i
      BY <1>0, <3>1
    <3>2. CASE k + 1 # i
      BY <1>6, <1>7, <3>2
    <3> QED
      BY <3>1, <3>2
  <2>a. k + 1 \in 1 .. Len(s) /\ i \in 1 .. Len(s) /\ k \in 1 .. Len(s)
    BY <1>0, <1>6, <2>1
  <2>4. s[k + 1].depth \in Nat /\ s[i].depth \in Nat /\ s[k].depth \in Nat
    BY <1>0, <2>a
  <2>5. s[k + 1].depth <= s[k].depth + 1 /\ (IsLeaf(s[k]) => s[k + 1].depth <= s[k].depth)
    BY <2>2, <2>4 DEF Follows
  <2>6. s[k].depth < s[i].depth
    BY <1>6
  <2>7. \A x, y, z \in Nat : ~(x < y) /\ x <= z + 1 /\ z < y => y = z + 1 /\ ~(x <= z)
    OBVIOUS
  <2> QED
    BY <2>3, <2>4, <2>5, <2>6, <2>7
<1>10. i \in Kids(s, k)
  BY <1>8, <1>9 DEF Kids
<1>11. ASSUME NEW m \in DOMAIN s, i \in Kids(s, m) PROVE m = k
  <2>1. i \in Below(s, m) /\ s[i].depth = s[m].depth + 1
    BY <1>11 DEF Kids
  <2>2. m = k \/ m \in Below(s, k) \/ k \in Below(s, m)
    BY <1>6, <1>8, <2>1, BelowFacts
  <2>3. s[m].depth \in Nat /\ s[k].depth \in Nat
    BY <1>0, <1>6
  <2>4. ASSUME m \in Below(s, k) PROVE FALSE
    <3>1. s[m].depth > s[k].depth
      BY <1>6, <2>4, BelowFacts
    <3> QED
      BY <1>9, <2>1, <2>3, <3>1
  <2>5. ASSUME k \in Below(s, m) PROVE FALSE
    <3>1. s[k].depth > s[m].depth
      BY <2>5, BelowFacts
    <3> QED
      BY <1>9, <2>1, <2>3, <3>1
  <2> QED
    BY <2>2, <2>4, <2>5
<1>12. Parent(s, i) = k
  BY <1>6, <1>10, <1>11 DEF Parent
<1> QED
  BY <1>3, <1>6, <1>9, <1>10, <1>12

-----------------------------------------------------------------------------
(* Filters: rows added, replaced and removed.                              *)

\* t has rows in the place of what s has from i to j.
Spliced(t, s, i, j, rows) ==
    /\ Len(t) = (i - 1) + Len(rows) + (Len(s) - j)
    /\ \A k \in 1 .. i - 1 : t[k] = s[k]
    /\ \A k \in 1 .. Len(rows) : t[(i - 1) + k] = rows[k]
    /\ \A k \in 1 .. Len(s) - j : t[(i - 1) + Len(rows) + k] = s[j + k]

LEMMA SpliceFacts ==
    ASSUME NEW S, NEW s \in Seq(S), NEW rows \in Seq(S), NEW i \in 1 .. Len(s) + 1, NEW j \in i - 1 .. Len(s),
           NEW t, t = Splice(s, i, j, rows)
    PROVE  t \in Seq(S) /\ Spliced(t, s, i, j, rows)
<1> DEFINE a == SubSeq(s, 1, i - 1)
           b == SubSeq(s, j + 1, Len(s))
<1>0. Len(s) \in Nat /\ Len(rows) \in Nat /\ i \in Nat /\ j \in Nat
  OBVIOUS
<1>1. a \in Seq(S) /\ Len(a) = i - 1 /\ \A k \in 1 .. i - 1 : a[k] = s[k]
  <2>1. \A k \in 1 .. i - 1 : 1 + k - 1 = k /\ k \in 1 .. Len(s)
    BY <1>0
  <2> QED
    BY <1>0, <2>1, SubSeqProperties
<1>2. b \in Seq(S) /\ Len(b) = Len(s) - j /\ \A k \in 1 .. Len(s) - j : b[k] = s[j + k]
  <2>1. \A k \in 1 .. Len(s) - j : (j + 1) + k - 1 = j + k
    BY <1>0
  <2> QED
    BY <1>0, <2>1, SubSeqProperties
<1>3. t = (a \o rows) \o b
  BY DEF Splice
<1> HIDE DEF a, b
<1> DEFINE c == a \o rows
<1>4. c \in Seq(S) /\ Len(c) = (i - 1) + Len(rows)
  BY <1>1, ConcatProperties
<1>5. \A k \in 1 .. i - 1 : c[k] = s[k]
  BY <1>0, <1>1, ConcatProperties
<1>6. ASSUME NEW k \in 1 .. Len(rows) PROVE c[(i - 1) + k] = rows[k]
  <2>1. (i - 1) + k \in 1 .. Len(a) + Len(rows) /\ (i - 1) + k > Len(a) /\ ((i - 1) + k) - Len(a) = k
    BY <1>0, <1>1
  <2> QED
    BY <1>0, <1>1, <2>1, ConcatProperties
<1>7. t = c \o b
  BY <1>3
<1> HIDE DEF c
<1>8. t \in Seq(S) /\ Len(t) = Len(c) + Len(b) /\ \A k \in 1 .. Len(c) + Len(b) :
          t[k] = IF k <= Len(c) THEN c[k] ELSE b[k - Len(c)]
  <2>1. t \in Seq(S) /\ Len(t) = Len(c) + Len(b)
    BY <1>2, <1>4, <1>7, ConcatProperties
  <2>2. ASSUME NEW k \in 1 .. Len(c) + Len(b)
        PROVE  t[k] = IF k <= Len(c) THEN c[k] ELSE b[k - Len(c)]
    <3>1. b \in Seq(S) /\ c \in Seq(S) /\ t = c \o b
      BY <1>2, <1>4, <1>7
    <3> QED
      BY <3>1, ConcatProperties
  <2> QED
    BY <2>1, <2>2
<1>9. \A k \in 1 .. i - 1 : t[k] = s[k]
  <2> SUFFICES ASSUME NEW k \in 1 .. i - 1 PROVE t[k] = s[k]
    OBVIOUS
  <2>1. k \in 1 .. Len(c) + Len(b) /\ k <= Len(c)
    BY <1>0, <1>2, <1>4
  <2> QED
    BY <1>5, <1>8, <2>1
<1>10. \A k \in 1 .. Len(rows) : t[(i - 1) + k] = rows[k]
  <2> SUFFICES ASSUME NEW k \in 1 .. Len(rows) PROVE t[(i - 1) + k] = rows[k]
    OBVIOUS
  <2>1. (i - 1) + k \in 1 .. Len(c) + Len(b) /\ (i - 1) + k <= Len(c)
    BY <1>0, <1>2, <1>4
  <2> QED
    BY <1>6, <1>8, <2>1
<1>11. \A k \in 1 .. Len(s) - j : t[(i - 1) + Len(rows) + k] = s[j + k]
  <2> SUFFICES ASSUME NEW k \in 1 .. Len(s) - j PROVE t[(i - 1) + Len(rows) + k] = s[j + k]
    OBVIOUS
  <2>1. Len(c) + k \in 1 .. Len(c) + Len(b) /\ ~(Len(c) + k <= Len(c)) /\ (Len(c) + k) - Len(c) = k
    BY <1>0, <1>2, <1>4
  <2>2. t[Len(c) + k] = b[k]
    BY <1>8, <2>1
  <2> QED
    BY <1>2, <1>4, <2>2
<1> QED
  <2>1. Len(t) = (i - 1) + Len(rows) + (Len(s) - j)
    BY <1>2, <1>4, <1>8
  <2> QED
    BY <1>8, <1>9, <1>10, <1>11, <2>1 DEF Spliced

\* A tree stays one when what takes the place of some rows fits between those
\* before and after them.
LEMMA SpliceNested ==
    ASSUME NEW S, NEW s \in Seq(S), NEW rows \in Seq(S), Nested(s),
           NEW i \in 2 .. Len(s) + 1, NEW j \in i - 1 .. Len(s),
           \A k \in 2 .. Len(rows) : Follows(rows[k - 1], rows[k]),
           Len(rows) > 0 => /\ Follows(s[i - 1], rows[1])
                            /\ j < Len(s) => Follows(rows[Len(rows)], s[j + 1]),
           Len(rows) = 0 /\ j < Len(s) => Follows(s[i - 1], s[j + 1])
    PROVE  Nested(Splice(s, i, j, rows))
<1> DEFINE t == Splice(s, i, j, rows)
<1>0. Len(s) \in Nat /\ Len(rows) \in Nat /\ i \in Nat /\ j \in Nat
  OBVIOUS
<1>1. s # <<>> /\ s[1].depth = 0 /\ \A k \in 2 .. Len(s) : Follows(s[k - 1], s[k])
  BY NestedFacts
<1>2. /\ t \in Seq(S) /\ Len(t) = (i - 1) + Len(rows) + (Len(s) - j)
      /\ \A k \in 1 .. i - 1 : t[k] = s[k]
      /\ \A k \in 1 .. Len(rows) : t[(i - 1) + k] = rows[k]
      /\ \A k \in 1 .. Len(s) - j : t[(i - 1) + Len(rows) + k] = s[j + k]
  <2>1. i \in 1 .. Len(s) + 1
    BY <1>0
  <2> HIDE DEF t
  <2>2. t = Splice(s, i, j, rows)
    BY DEF t
  <2>3. t \in Seq(S) /\ Spliced(t, s, i, j, rows)
    BY <2>1, <2>2, SpliceFacts
  <2> QED
    BY <2>3 DEF Spliced
<1> HIDE DEF t
<1>3. t # <<>> /\ t[1] = s[1]
  <2>1. 1 \in 1 .. i - 1 /\ Len(t) > 0
    BY <1>0, <1>2
  <2> QED
    BY <1>2, <2>1
<1>4. ASSUME NEW k \in 2 .. Len(t) PROVE Follows(t[k - 1], t[k])
  <2>1. CASE k <= i - 1
    <3>1. k - 1 \in 1 .. i - 1 /\ k \in 1 .. i - 1 /\ k \in 2 .. Len(s)
      BY <1>0, <2>1
    <3> QED
      BY <1>1, <1>2, <3>1
  <2>2. CASE k = i
    <3>1. i - 1 \in 1 .. i - 1 /\ t[i - 1] = s[i - 1]
      BY <1>0, <1>2
    <3>2. CASE Len(rows) > 0
      <4>1. 1 \in 1 .. Len(rows) /\ (i - 1) + 1 = i
        BY <1>0, <3>2
      <4>2. t[i] = rows[1]
        BY <1>2, <4>1
      <4> QED
        BY <2>2, <3>1, <3>2, <4>2
    <3>3. CASE Len(rows) = 0
      <4>1. 1 \in 1 .. Len(s) - j /\ (i - 1) + Len(rows) + 1 = i /\ j < Len(s)
        BY <1>0, <1>2, <2>2, <3>3
      <4>2. t[i] = s[j + 1]
        BY <1>2, <4>1
      <4> QED
        BY <2>2, <3>1, <3>3, <4>1, <4>2
    <3> QED
      BY <1>0, <3>2, <3>3
  <2>3. CASE k > i /\ k <= (i - 1) + Len(rows)
    <3> DEFINE x == k - (i - 1)
    <3>1. x \in 2 .. Len(rows) /\ x - 1 \in 1 .. Len(rows) /\ x \in 1 .. Len(rows)
          /\ (i - 1) + x = k /\ (i - 1) + (x - 1) = k - 1
      BY <1>0, <2>3
    <3> HIDE DEF x
    <3>2. t[k] = rows[x] /\ t[k - 1] = rows[x - 1]
      <4>1. t[(i - 1) + x] = rows[x] /\ t[(i - 1) + (x - 1)] = rows[x - 1]
        BY <1>2, <3>1
      <4> QED
        BY <3>1, <4>1
    <3> QED
      BY <3>1, <3>2
  <2>4. CASE k > i /\ k = (i - 1) + Len(rows) + 1
    <3>1. Len(rows) \in 1 .. Len(rows) /\ (i - 1) + Len(rows) = k - 1 /\ Len(rows) > 0
          /\ 1 \in 1 .. Len(s) - j /\ j < Len(s)
      BY <1>0, <1>2, <2>4
    <3>2. t[k - 1] = rows[Len(rows)] /\ t[k] = s[j + 1]
      <4>1. t[(i - 1) + Len(rows)] = rows[Len(rows)] /\ t[(i - 1) + Len(rows) + 1] = s[j + 1]
        BY <1>2, <3>1
      <4> QED
        BY <2>4, <3>1, <4>1
    <3> QED
      BY <3>1, <3>2
  <2>5. CASE k > i /\ k > (i - 1) + Len(rows) + 1
    <3> DEFINE x == k - ((i - 1) + Len(rows))
    <3>0. k \in Nat /\ k <= (i - 1) + Len(rows) + (Len(s) - j) /\ (i - 1) + Len(rows) \in Nat
          /\ i - 1 \in Nat /\ j <= Len(s)
      BY <1>0, <1>2
    <3>a. x \in Nat /\ x >= 2 /\ x <= Len(s) - j /\ (i - 1) + Len(rows) + x = k
      <4>1. \A a, l, m, n \in Nat : m > a + 1 /\ m <= a + (l - n) =>
               m - a \in Nat /\ m - a >= 2 /\ m - a <= l - n /\ a + (m - a) = m
        OBVIOUS
      <4> QED
        BY <1>0, <2>5, <3>0, <4>1
    <3>1. x \in 1 .. Len(s) - j /\ x - 1 \in 1 .. Len(s) - j /\ (i - 1) + Len(rows) + x = k
          /\ (i - 1) + Len(rows) + (x - 1) = k - 1 /\ j + x \in 2 .. Len(s) /\ j + (x - 1) = (j + x) - 1
      <4> HIDE DEF x
      <4> QED
        BY <1>0, <3>0, <3>a
    <3> HIDE DEF x
    <3>2. t[k] = s[j + x] /\ t[k - 1] = s[(j + x) - 1]
      <4>1. t[(i - 1) + Len(rows) + x] = s[j + x] /\ t[(i - 1) + Len(rows) + (x - 1)] = s[j + (x - 1)]
        BY <1>2, <3>1
      <4> QED
        BY <3>1, <4>1
    <3> QED
      BY <1>1, <3>1, <3>2
  <2>0. k \in Nat /\ (i - 1) + Len(rows) \in Nat
    BY <1>0, <1>2
  <2>6. k <= i - 1 \/ k = i \/ k > i
    BY <1>0, <2>0
  <2>7. k <= (i - 1) + Len(rows) \/ k = (i - 1) + Len(rows) + 1 \/ k > (i - 1) + Len(rows) + 1
    <3>1. \A m \in Nat : k <= m \/ k = m + 1 \/ k > m + 1
      BY <2>0
    <3> QED
      BY <2>0, <3>1
  <2> QED
    BY <2>1, <2>2, <2>3, <2>4, <2>5, <2>6, <2>7
<1>5. Nested(t)
  BY <1>1, <1>3, <1>4, NestedFacts
<1> QED
  BY <1>5 DEF t

LEMMA SpliceElements ==
    ASSUME NEW S, NEW s \in Seq(S), NEW rows \in Seq(S), NEW i \in 1 .. Len(s) + 1, NEW j \in i - 1 .. Len(s),
           NEW k \in 1 .. Len(Splice(s, i, j, rows))
    PROVE  \/ \E x \in 1 .. Len(s) : Splice(s, i, j, rows)[k] = s[x]
           \/ \E x \in 1 .. Len(rows) : Splice(s, i, j, rows)[k] = rows[x]
<1> DEFINE t == Splice(s, i, j, rows)
<1>0. Len(s) \in Nat /\ Len(rows) \in Nat /\ i \in Nat /\ j \in Nat /\ k \in Nat
  <2>1. t \in Seq(S)
    BY SpliceFacts
  <2> QED
    BY <2>1
<1>1. Spliced(t, s, i, j, rows)
  BY SpliceFacts
<1> HIDE DEF t
<1>2. k <= Len(t) /\ k >= 1
  BY DEF t
<1>3. CASE k <= i - 1
  <2>1. k \in 1 .. i - 1 /\ k \in 1 .. Len(s)
    BY <1>0, <1>2, <1>3
  <2> QED
    BY <1>1, <2>1 DEF Spliced, t
<1>4. CASE k > i - 1 /\ k <= (i - 1) + Len(rows)
  <2>1. k - (i - 1) \in 1 .. Len(rows) /\ (i - 1) + (k - (i - 1)) = k
    BY <1>0, <1>4
  <2>2. t[(i - 1) + (k - (i - 1))] = rows[k - (i - 1)]
    BY <1>1, <2>1 DEF Spliced
  <2> QED
    BY <2>1, <2>2 DEF t
<1>5. CASE k > (i - 1) + Len(rows)
  <2> DEFINE x == k - ((i - 1) + Len(rows))
  <2>1. x \in 1 .. Len(s) - j /\ (i - 1) + Len(rows) + x = k /\ j + x \in 1 .. Len(s)
    BY <1>0, <1>1, <1>2, <1>5 DEF Spliced
  <2> HIDE DEF x
  <2>2. t[(i - 1) + Len(rows) + x] = s[j + x]
    BY <1>1, <2>1 DEF Spliced
  <2> QED
    BY <2>1, <2>2 DEF t
<1>6. k <= i - 1 \/ k > i - 1
  BY <1>0
<1>7. k <= (i - 1) + Len(rows) \/ k > (i - 1) + Len(rows)
  BY <1>0
<1> QED
  BY <1>3, <1>4, <1>5, <1>6, <1>7

LEMMA NodesDeep == \A s \in Seq(Nodes) : Deep(s)
<1> SUFFICES ASSUME NEW s \in Seq(Nodes) PROVE Deep(s)
  OBVIOUS
<1>1. \A i \in DOMAIN s : s[i] \in Nodes
  OBVIOUS
<1>2. \A i \in DOMAIN s : s[i].depth \in Nat
  BY <1>1 DEF Nodes
<1>3. Listed(s)
  BY DEF Listed, ToSet
<1> QED
  BY <1>2, <1>3 DEF Deep

\* A special value that was parsed stands escaped in its text.
Escaped(n) == n.raw /\ n.val.is = "special" => n.val.esc > 0

Piece(s) == s \in Seq(Nodes) /\ Nested(s) /\ \A i \in 1 .. Len(s) : Escaped(s[i])
Tree(s) == Piece(s) /\ s[1].kind \in {"and", "or"}

LEMMA DeeperFacts ==
    ASSUME NEW rows \in Seq(Nodes), NEW by \in Nat
    PROVE  /\ Deeper(rows, by) \in Seq(Nodes) /\ Len(Deeper(rows, by)) = Len(rows)
           /\ \A k \in 1 .. Len(rows) :
                 /\ Deeper(rows, by)[k] = [rows[k] EXCEPT !.depth = @ + by]
                 /\ Deeper(rows, by)[k].depth = rows[k].depth + by
                 /\ Deeper(rows, by)[k].kind = rows[k].kind
                 /\ Escaped(rows[k]) => Escaped(Deeper(rows, by)[k])
           /\ \A k \in 2 .. Len(rows) :
                 Follows(rows[k - 1], rows[k]) => Follows(Deeper(rows, by)[k - 1], Deeper(rows, by)[k])
<1> DEFINE r == Deeper(rows, by)
<1>0. Len(rows) \in Nat /\ DOMAIN rows = 1 .. Len(rows) /\ \A k \in 1 .. Len(rows) : rows[k] \in Nodes
  OBVIOUS
<1>1. DOMAIN r = 1 .. Len(rows) /\ \A k \in 1 .. Len(rows) : r[k] = [rows[k] EXCEPT !.depth = @ + by]
  BY <1>0 DEF Deeper
<1> HIDE DEF r
<1>2. ASSUME NEW k \in 1 .. Len(rows)
      PROVE  /\ r[k] \in Nodes /\ r[k].depth = rows[k].depth + by /\ r[k].kind = rows[k].kind
             /\ Escaped(rows[k]) => Escaped(r[k])
  <2>1. rows[k] \in Nodes /\ r[k] = [rows[k] EXCEPT !.depth = @ + by]
    BY <1>0, <1>1
  <2> QED
    BY <2>1 DEF Nodes, Escaped
<1>3. r \in Seq(Nodes) /\ Len(r) = Len(rows)
  <2>1. r = [k \in 1 .. Len(rows) |-> r[k]]
    BY <1>1 DEF r, Deeper
  <2> QED
    BY <1>0, <1>2, <2>1
<1>4. ASSUME NEW k \in 2 .. Len(rows), Follows(rows[k - 1], rows[k]) PROVE Follows(r[k - 1], r[k])
  <2>1. k - 1 \in 1 .. Len(rows) /\ k \in 1 .. Len(rows)
    BY <1>0
  <2>2. rows[k - 1].depth \in Nat /\ rows[k].depth \in Nat
    BY <1>0, <2>1 DEF Nodes
  <2>3. /\ r[k - 1].depth = rows[k - 1].depth + by /\ r[k - 1].kind = rows[k - 1].kind
        /\ r[k].depth = rows[k].depth + by
    BY <1>2, <2>1
  <2>4. rows[k].depth \in 1 .. rows[k - 1].depth + 1
        /\ (IsLeaf(rows[k - 1]) => rows[k].depth <= rows[k - 1].depth)
    BY <1>4 DEF Follows
  <2>5. r[k].depth \in 1 .. r[k - 1].depth + 1
    BY <2>2, <2>3, <2>4
  <2>6. IsLeaf(r[k - 1]) => r[k].depth <= r[k - 1].depth
    BY <2>2, <2>3, <2>4 DEF IsLeaf
  <2> QED
    BY <2>5, <2>6 DEF Follows
<1> QED
  BY <1>1, <1>2, <1>3, <1>4 DEF r

\* What comes of a tree when a piece of one takes the place of some rows.
LEMMA SpliceTree ==
    ASSUME NEW s, Tree(s), NEW rows \in Seq(Nodes), \A k \in 1 .. Len(rows) : Escaped(rows[k]),
           NEW i \in 2 .. Len(s) + 1, NEW j \in i - 1 .. Len(s), Nested(Splice(s, i, j, rows))
    PROVE  Tree(Splice(s, i, j, rows))
<1> DEFINE t == Splice(s, i, j, rows)
<1>0. s \in Seq(Nodes) /\ Len(s) \in Nat /\ i \in 1 .. Len(s) + 1 /\ i \in Nat
  BY DEF Tree, Piece
<1>1. t \in Seq(Nodes) /\ Spliced(t, s, i, j, rows)
  BY <1>0, SpliceFacts
<1>2. ASSUME NEW k \in 1 .. Len(t) PROVE Escaped(t[k])
  BY <1>0, SpliceElements DEF Tree, Piece
<1> HIDE DEF t
<1>3. t[1] = s[1]
  <2>1. 1 \in 1 .. i - 1
    BY <1>0
  <2> QED
    BY <1>1, <2>1 DEF Spliced
<1>4. Tree(t)
  BY <1>1, <1>2, <1>3 DEF Tree, Piece, t
<1> QED
  BY <1>4 DEF t

LEMMA AddTree ==
    ASSUME NEW s, Tree(s), NEW i \in DOMAIN s, ~IsCond(s[i]), NEW rows, Piece(rows)
    PROVE  /\ Tree(Add(s, i, rows)) /\ Len(Add(s, i, rows)) = Len(s) + Len(rows)
           /\ End(s, i) + 1 \in DOMAIN Add(s, i, rows)
<1> DEFINE e == End(s, i)
           r == Deeper(rows, s[i].depth + 1)
<1>0. s \in Seq(Nodes) /\ Deep(s) /\ Nested(s) /\ Len(s) \in Nat /\ DOMAIN s = 1 .. Len(s)
      /\ rows \in Seq(Nodes) /\ Len(rows) \in Nat /\ Len(rows) > 0 /\ i \in 1 .. Len(s) /\ s[i] \in Nodes
  <2>1. s \in Seq(Nodes) /\ rows \in Seq(Nodes) /\ rows # <<>>
    BY NestedFacts DEF Tree, Piece
  <2> QED
    BY <2>1, NodesDeep DEF Tree, Piece
<1>1. e \in i .. Len(s) /\ Below(s, i) = i + 1 .. e /\ (e < Len(s) => s[e + 1].depth <= s[i].depth)
  BY <1>0, EndFacts
<1>2. s[i].depth \in Nat /\ s[i].depth + 1 \in Nat /\ ~IsLeaf(s[i])
  BY <1>0 DEF Nodes, IsLeaf, IsCond
<1>3. /\ r \in Seq(Nodes) /\ Len(r) = Len(rows)
      /\ \A k \in 1 .. Len(rows) : Escaped(r[k]) /\ r[k].depth = rows[k].depth + (s[i].depth + 1)
      /\ \A k \in 2 .. Len(r) : Follows(r[k - 1], r[k])
  <2>1. \A k \in 2 .. Len(rows) : Follows(rows[k - 1], rows[k])
    BY NestedFacts DEF Piece
  <2>2. \A k \in 1 .. Len(rows) : Escaped(rows[k])
    BY DEF Piece
  <2>3. rows \in Seq(Nodes) /\ s[i].depth \in Nat /\ s[i].depth + 1 \in Nat
    BY <1>0, <1>2
  <2> QED
    BY <2>1, <2>2, <2>3, DeeperFacts
<1> HIDE DEF e, r
<1>4. e \in 1 .. Len(s) /\ e + 1 \in 2 .. Len(s) + 1 /\ (e + 1) - 1 = e /\ e \in (e + 1) - 1 .. Len(s)
  BY <1>0, <1>1
<1>5. Follows(s[e], r[1])
  <2>1. rows[1].depth = 0 /\ 1 \in 1 .. Len(rows) /\ r[1].depth = s[i].depth + 1
    <3>1. rows[1].depth = 0 /\ 1 \in 1 .. Len(rows)
      BY <1>0 DEF Piece, Nested
    <3> QED
      BY <1>2, <1>3, <3>1
  <2>2. s[e].depth \in Nat
    BY <1>0, <1>4, DeepFacts
  <2>3. CASE e = i
    BY <1>2, <2>1, <2>3 DEF Follows
  <2>4. CASE e # i
    <3>1. e \in Below(s, i)
      BY <1>0, <1>1, <2>4
    <3>2. s[e].depth > s[i].depth
      BY <1>0, <3>1, BelowFacts
    <3> QED
      BY <1>2, <2>1, <2>2, <3>2 DEF Follows
  <2> QED
    BY <2>3, <2>4
<1>6. ASSUME e < Len(s) PROVE Follows(r[Len(r)], s[e + 1])
  <2>1. Len(r) \in 1 .. Len(rows) /\ r[Len(r)].depth = rows[Len(r)].depth + (s[i].depth + 1)
    BY <1>0, <1>3
  <2>2. rows[Len(r)].depth \in Nat
    BY <1>0, <2>1, NodesDeep, DeepFacts
  <2>3. e + 1 \in 2 .. Len(s) /\ (e + 1) - 1 = e
    BY <1>4, <1>6, <1>0
  <2>4. s[e + 1].depth >= 1 /\ s[e + 1].depth \in Nat
    <3>1. Follows(s[(e + 1) - 1], s[e + 1])
      BY <1>0, <2>3, NestedFacts
    <3>2. e + 1 \in 1 .. Len(s)
      BY <1>0, <2>3
    <3> QED
      BY <1>0, <3>1, <3>2, DeepFacts DEF Follows
  <2>5. s[e + 1].depth <= s[i].depth
    BY <1>1, <1>6
  <2>6. \A x, y, z \in Nat : x >= 1 /\ x <= y => x <= z + (y + 1) /\ x \in 1 .. (z + (y + 1)) + 1
    OBVIOUS
  <2>7. /\ s[e + 1].depth <= rows[Len(r)].depth + (s[i].depth + 1)
        /\ s[e + 1].depth \in 1 .. (rows[Len(r)].depth + (s[i].depth + 1)) + 1
    BY <1>2, <2>2, <2>4, <2>5, <2>6
  <2> QED
    BY <2>1, <2>7 DEF Follows
<1>7. Nested(Splice(s, e + 1, e, r))
  <2>1. Len(r) > 0 /\ Len(r) # 0
    BY <1>0, <1>3
  <2>2. Len(r) > 0 => /\ Follows(s[(e + 1) - 1], r[1])
                      /\ e < Len(s) => Follows(r[Len(r)], s[e + 1])
    BY <1>4, <1>5, <1>6
  <2>3. Len(r) = 0 /\ e < Len(s) => Follows(s[(e + 1) - 1], s[e + 1])
    BY <2>1
  <2>4. \A k \in 2 .. Len(r) : Follows(r[k - 1], r[k])
    BY <1>3
  <2>5. s \in Seq(Nodes) /\ r \in Seq(Nodes) /\ Nested(s) /\ e + 1 \in 2 .. Len(s) + 1 /\ e \in (e + 1) - 1 .. Len(s)
    BY <1>0, <1>3, <1>4
  <2> QED
    BY <2>2, <2>3, <2>4, <2>5, SpliceNested
<1>8. Tree(Splice(s, e + 1, e, r))
  BY <1>3, <1>4, <1>7, SpliceTree
<1>9. Len(Splice(s, e + 1, e, r)) = Len(s) + Len(rows) /\ Splice(s, e + 1, e, r) \in Seq(Nodes)
  <2>1. e + 1 \in 1 .. Len(s) + 1
    BY <1>0, <1>4
  <2>2. Spliced(Splice(s, e + 1, e, r), s, e + 1, e, r) /\ Splice(s, e + 1, e, r) \in Seq(Nodes)
    BY <1>0, <1>3, <1>4, <2>1, SpliceFacts
  <2>3. Len(Splice(s, e + 1, e, r)) = ((e + 1) - 1) + Len(r) + (Len(s) - e)
    BY <2>2 DEF Spliced
  <2> QED
    BY <1>0, <1>3, <1>4, <2>2, <2>3
<1>10. Add(s, i, rows) = Splice(s, e + 1, e, r)
  BY DEF Add, e, r
<1>11. e + 1 \in 1 .. Len(s) + Len(rows)
  BY <1>0, <1>4
<1> QED
  BY <1>8, <1>9, <1>10, <1>11 DEF e

LEMMA PutTree ==
    ASSUME NEW s, Tree(s), NEW i \in DOMAIN s, IsCond(s[i]), NEW rows, Piece(rows)
    PROVE  Tree(Put(s, i, rows)) /\ Len(Put(s, i, rows)) = Len(s) - 1 + Len(rows)
<1> DEFINE r == Deeper(rows, s[i].depth)
<1>0. s \in Seq(Nodes) /\ Deep(s) /\ Nested(s) /\ Len(s) \in Nat /\ DOMAIN s = 1 .. Len(s)
      /\ rows \in Seq(Nodes) /\ Len(rows) \in Nat /\ Len(rows) > 0 /\ i \in 1 .. Len(s) /\ s[i] \in Nodes
  <2>1. s \in Seq(Nodes) /\ rows \in Seq(Nodes) /\ rows # <<>>
    BY NestedFacts DEF Tree, Piece
  <2> QED
    BY <2>1, NodesDeep DEF Tree, Piece
<1>1. i \in 2 .. Len(s) /\ i \in 2 .. Len(s) + 1 /\ i \in i - 1 .. Len(s)
  <2>1. i # 1
    BY DEF Tree, IsCond
  <2> QED
    BY <1>0, <2>1
<1>2. s[i].depth \in Nat /\ IsLeaf(s[i]) /\ Follows(s[i - 1], s[i])
  <2>1. s[i].depth \in Nat
    BY <1>0 DEF Nodes
  <2> QED
    BY <1>0, <1>1, <2>1, NestedFacts DEF IsLeaf, IsCond
<1>3. /\ r \in Seq(Nodes) /\ Len(r) = Len(rows)
      /\ \A k \in 1 .. Len(rows) : Escaped(r[k]) /\ r[k].depth = rows[k].depth + s[i].depth
      /\ \A k \in 2 .. Len(r) : Follows(r[k - 1], r[k])
  <2>1. \A k \in 2 .. Len(rows) : Follows(rows[k - 1], rows[k])
    BY NestedFacts DEF Piece
  <2>2. \A k \in 1 .. Len(rows) : Escaped(rows[k])
    BY DEF Piece
  <2>3. rows \in Seq(Nodes) /\ s[i].depth \in Nat /\ s[i].depth + 1 \in Nat
    BY <1>0, <1>2
  <2> QED
    BY <2>1, <2>2, <2>3, DeeperFacts
<1> HIDE DEF r
<1>4. Follows(s[i - 1], r[1])
  <2>1. rows[1].depth = 0 /\ 1 \in 1 .. Len(rows)
    BY <1>0 DEF Piece, Nested
  <2>2. r[1].depth = s[i].depth
    BY <1>2, <1>3, <2>1
  <2> QED
    BY <1>2, <2>2 DEF Follows
<1>5. ASSUME i < Len(s) PROVE Follows(r[Len(r)], s[i + 1])
  <2>1. Len(r) \in 1 .. Len(rows) /\ r[Len(r)].depth = rows[Len(r)].depth + s[i].depth
    BY <1>0, <1>3
  <2>2. rows[Len(r)].depth \in Nat
    BY <1>0, <2>1, NodesDeep, DeepFacts
  <2>3. i + 1 \in 2 .. Len(s) /\ (i + 1) - 1 = i /\ i + 1 \in 1 .. Len(s)
    BY <1>0, <1>5
  <2>4. Follows(s[i], s[i + 1]) /\ s[i + 1].depth \in Nat
    <3>1. Follows(s[(i + 1) - 1], s[i + 1])
      BY <1>0, <2>3, NestedFacts
    <3> QED
      BY <1>0, <2>3, <3>1, DeepFacts
  <2> QED
    BY <1>2, <2>1, <2>2, <2>4 DEF Follows
<1>6. Nested(Splice(s, i, i, r))
  <2>1. Len(r) > 0 /\ Len(r) # 0
    BY <1>0, <1>3
  <2>2. Len(r) > 0 => /\ Follows(s[i - 1], r[1])
                      /\ i < Len(s) => Follows(r[Len(r)], s[i + 1])
    BY <1>4, <1>5
  <2>3. Len(r) = 0 /\ i < Len(s) => Follows(s[i - 1], s[i + 1])
    BY <2>1
  <2>4. \A k \in 2 .. Len(r) : Follows(r[k - 1], r[k])
    BY <1>3
  <2>5. s \in Seq(Nodes) /\ r \in Seq(Nodes) /\ Nested(s)
    BY <1>0, <1>3
  <2> QED
    BY <1>1, <2>2, <2>3, <2>4, <2>5, SpliceNested
<1>7. Tree(Splice(s, i, i, r))
  BY <1>1, <1>3, <1>6, SpliceTree
<1>8. Len(Splice(s, i, i, r)) = Len(s) - 1 + Len(rows)
  <2>1. i \in 1 .. Len(s) + 1
    BY <1>0
  <2>2. Spliced(Splice(s, i, i, r), s, i, i, r)
    BY <1>0, <1>1, <1>3, <2>1, SpliceFacts
  <2>3. Len(Splice(s, i, i, r)) = (i - 1) + Len(r) + (Len(s) - i)
    BY <2>2 DEF Spliced
  <2>4. Len(r) = Len(rows)
    BY <1>3
  <2>5. \A m \in Nat : (i - 1) + m + (Len(s) - i) = Len(s) - 1 + m
    BY <1>0
  <2> QED
    BY <1>0, <2>3, <2>4, <2>5
<1> QED
  BY <1>7, <1>8 DEF Put, r

LEMMA RemovedTree ==
    ASSUME NEW s, Tree(s), NEW i \in 2 .. Len(s)
    PROVE  Tree(Removed(s, i)) /\ i - 1 \in DOMAIN Removed(s, i)
<1> DEFINE e == End(s, i)
<1>0. s \in Seq(Nodes) /\ Deep(s) /\ Nested(s) /\ Len(s) \in Nat /\ DOMAIN s = 1 .. Len(s)
      /\ i \in 1 .. Len(s) /\ i \in Nat /\ i >= 2
  <2>1. s \in Seq(Nodes)
    BY DEF Tree, Piece
  <2> QED
    BY <2>1, NodesDeep DEF Tree, Piece
<1>1. e \in i .. Len(s) /\ (e < Len(s) => s[e + 1].depth <= s[i].depth)
  BY <1>0, EndFacts
<1> HIDE DEF e
<1>2. i \in 2 .. Len(s) + 1 /\ e \in i - 1 .. Len(s) /\ i \in 1 .. Len(s) + 1
  BY <1>0, <1>1
<1>3. <<>> \in Seq(Nodes) /\ Len(<<>>) = 0
  OBVIOUS
<1>4. ASSUME e < Len(s) PROVE Follows(s[i - 1], s[e + 1])
  <2>1. e + 1 \in 2 .. Len(s) /\ (e + 1) - 1 = e /\ e + 1 \in 1 .. Len(s) /\ i - 1 \in 1 .. Len(s)
    BY <1>0, <1>1, <1>4
  <2>2. Follows(s[(e + 1) - 1], s[e + 1]) /\ Follows(s[i - 1], s[i])
    BY <1>0, <2>1, NestedFacts
  <2>3. s[e + 1].depth \in Nat /\ s[i].depth \in Nat /\ s[i - 1].depth \in Nat
    BY <1>0, <2>1, DeepFacts
  <2>4. s[e + 1].depth <= s[i].depth /\ s[(e + 1) - 1] = s[e]
    BY <1>1, <1>4, <2>1
  <2>5. s[e + 1].depth >= 1
    BY <2>2, <2>3 DEF Follows
  <2>6. s[i].depth <= s[i - 1].depth + 1 /\ (IsLeaf(s[i - 1]) => s[i].depth <= s[i - 1].depth)
    BY <2>2, <2>3 DEF Follows
  <2> QED
    BY <2>3, <2>4, <2>5, <2>6 DEF Follows
<1>5. Nested(Splice(s, i, e, <<>>))
  <2>1. \A k \in 2 .. Len(<<>>) : Follows(<<>>[k - 1], <<>>[k])
    BY <1>3
  <2>2. Len(<<>>) > 0 => FALSE
    BY <1>3
  <2> QED
    BY <1>0, <1>2, <1>3, <1>4, <2>1, <2>2, SpliceNested
<1>6. Tree(Splice(s, i, e, <<>>))
  <2>1. \A k \in 1 .. Len(<<>>) : Escaped(<<>>[k])
    BY <1>3
  <2> QED
    BY <1>2, <1>3, <1>5, <2>1, SpliceTree
<1>7. i - 1 \in DOMAIN Splice(s, i, e, <<>>)
  <2>1. Splice(s, i, e, <<>>) \in Seq(Nodes) /\ Spliced(Splice(s, i, e, <<>>), s, i, e, <<>>)
    BY <1>0, <1>2, <1>3, SpliceFacts
  <2>2. Len(Splice(s, i, e, <<>>)) = (i - 1) + Len(<<>>) + (Len(s) - e)
    BY <2>1 DEF Spliced
  <2>3. i - 1 \in 1 .. Len(Splice(s, i, e, <<>>))
    BY <1>0, <1>1, <1>3, <2>2
  <2> QED
    BY <2>1, <2>3
<1> QED
  BY <1>6, <1>7 DEF Removed, e

-----------------------------------------------------------------------------
(* Several sequences, one after the other, and where each has its place.    *)

\* t is the sequences of ss, the i-th after at[i] elements.
Places(at, ss, t) ==
    /\ at \in [1 .. Len(ss) + 1 -> Nat] /\ at[1] = 0 /\ at[Len(ss) + 1] = Len(t)
    /\ \A i \in 1 .. Len(ss) : at[i + 1] = at[i] + Len(ss[i])
    /\ \A i \in 1 .. Len(ss) : \A j \in 1 .. Len(ss[i]) : t[at[i] + j] = ss[i][j]

LEMMA FlattenPlaces ==
    ASSUME NEW S, NEW ss \in Seq(Seq(S))
    PROVE  \E at : Places(at, ss, FlattenSeq(ss))
<1>0. Len(ss) \in Nat /\ \A i \in 1 .. Len(ss) : ss[i] \in Seq(S)
  OBVIOUS
<1>1. PICK f \in [0 .. Len(ss) -> Seq(S)] : Joins(f, ss)
  BY JoinsExist
<1>2. FlattenSeq(ss) = f[Len(ss)]
  BY <1>1, FlattenFacts
<1> DEFINE t == FlattenSeq(ss)
           at == [i \in 1 .. Len(ss) + 1 |-> Len(f[i - 1])]
<1>3. ASSUME NEW i \in 1 .. Len(ss) + 1 PROVE at[i] \in Nat /\ i - 1 \in 0 .. Len(ss)
  <2>1. i - 1 \in 0 .. Len(ss)
    BY <1>0
  <2>2. f[i - 1] \in Seq(S)
    BY <1>1, <2>1
  <2> QED
    BY <2>1, <2>2
<1>4. at \in [1 .. Len(ss) + 1 -> Nat]
  BY <1>3
<1>5. at[1] = 0 /\ at[Len(ss) + 1] = Len(t)
  <2>1. 1 \in 1 .. Len(ss) + 1 /\ Len(ss) + 1 \in 1 .. Len(ss) + 1 /\ (Len(ss) + 1) - 1 = Len(ss) /\ 1 - 1 = 0
    BY <1>0
  <2>2. f[0] = <<>>
    BY <1>1 DEF Joins
  <2> QED
    BY <1>2, <2>1, <2>2
<1>6. ASSUME NEW i \in 1 .. Len(ss)
      PROVE  /\ at[i + 1] = at[i] + Len(ss[i])
             /\ \A j \in 1 .. Len(ss[i]) : t[at[i] + j] = ss[i][j]
  <2>1. i \in 1 .. Len(ss) + 1 /\ i + 1 \in 1 .. Len(ss) + 1 /\ (i + 1) - 1 = i
        /\ i - 1 \in 0 .. Len(ss) /\ i \in 0 .. Len(ss)
    BY <1>0
  <2>2. f[i] = f[i - 1] \o ss[i]
    BY <1>1 DEF Joins
  <2>3. f[i - 1] \in Seq(S) /\ f[i] \in Seq(S) /\ ss[i] \in Seq(S)
    BY <1>0, <1>1, <2>1
  <2>4. Len(f[i]) = Len(f[i - 1]) + Len(ss[i])
    BY <2>2, <2>3, ConcatProperties
  <2>5. at[i] = Len(f[i - 1]) /\ at[i + 1] = Len(f[i])
    BY <2>1
  <2>6. ASSUME NEW j \in 1 .. Len(ss[i]) PROVE t[at[i] + j] = ss[i][j]
    <3>1. Len(f[i - 1]) \in Nat /\ Len(ss[i]) \in Nat /\ j \in Nat /\ j >= 1 /\ j <= Len(ss[i])
      BY <2>3
    <3>2. Len(f[i - 1]) + j \in 1 .. Len(f[i - 1]) + Len(ss[i])
      <4>1. \A a, b \in Nat : \A c \in 1 .. b : a + c \in 1 .. a + b
        OBVIOUS
      <4> QED
        BY <3>1, <4>1
    <3>3. Len(f[i - 1]) + j > Len(f[i - 1]) /\ (Len(f[i - 1]) + j) - Len(f[i - 1]) = j
      BY <3>1
    <3>4. (f[i - 1] \o ss[i])[Len(f[i - 1]) + j] = ss[i][j]
      BY <2>3, <3>2, <3>3, ConcatProperties
    <3>5. Begins(f[i], f[Len(ss)])
      BY <1>1, <2>1, JoinsBegins
    <3>6. Len(f[i - 1]) + j \in 1 .. Len(f[i])
      BY <2>4, <3>2
    <3> QED
      BY <1>2, <2>2, <2>5, <3>4, <3>5, <3>6 DEF Begins
  <2> QED
    BY <2>4, <2>5, <2>6
<1>7. Places(at, ss, t)
  <2> HIDE DEF at, t
  <2> QED
    BY <1>4, <1>5, <1>6 DEF Places
<1> QED
  BY <1>7

Covers(at, ss, t) ==
    /\ \A i, j \in 1 .. Len(ss) + 1 : i <= j => at[i] <= at[j]
    /\ \A k \in 1 .. Len(t) : \E i \in 1 .. Len(ss) : \E j \in 1 .. Len(ss[i]) : k = at[i] + j

LEMMA PlacesFacts ==
    ASSUME NEW S, NEW ss \in Seq(Seq(S)), NEW t, NEW at, Places(at, ss, t)
    PROVE  Covers(at, ss, t)
<1>0. /\ Len(ss) \in Nat /\ \A i \in 1 .. Len(ss) : Len(ss[i]) \in Nat
      /\ \A i \in 1 .. Len(ss) + 1 : at[i] \in Nat
      /\ \A i \in 1 .. Len(ss) : at[i + 1] = at[i] + Len(ss[i])
  <2>1. \A i \in 1 .. Len(ss) : ss[i] \in Seq(S)
    OBVIOUS
  <2>2. \A i \in 1 .. Len(ss) : Len(ss[i]) \in Nat
    BY <2>1
  <2>3. \A i \in 1 .. Len(ss) + 1 : at[i] \in Nat
    BY DEF Places
  <2> QED
    BY <2>2, <2>3 DEF Places
<1>1. ASSUME NEW i \in 1 .. Len(ss) + 1, NEW j \in 1 .. Len(ss) + 1, i <= j PROVE at[i] <= at[j]
  <2> DEFINE T == {n \in Nat : i + n <= Len(ss) + 1 => at[i] <= at[i + n]}
  <2>1. 0 \in T
    BY <1>0
  <2>2. ASSUME NEW n \in Nat, n \in T PROVE n + 1 \in T
    <3> SUFFICES ASSUME i + (n + 1) <= Len(ss) + 1 PROVE at[i] <= at[i + (n + 1)]
      OBVIOUS
    <3>1. i + n \in 1 .. Len(ss) /\ i + (n + 1) = (i + n) + 1 /\ i + n \in 1 .. Len(ss) + 1
          /\ i + (n + 1) \in 1 .. Len(ss) + 1
      BY <1>0
    <3>2. at[(i + n) + 1] = at[i + n] + Len(ss[i + n]) /\ Len(ss[i + n]) \in Nat /\ at[i + n] \in Nat
      BY <1>0, <3>1
    <3>3. at[i] <= at[i + n]
      BY <1>0, <2>2, <3>1
    <3>4. at[i] \in Nat /\ at[i + (n + 1)] = at[i + n] + Len(ss[i + n])
      BY <1>0, <3>1, <3>2
    <3>5. \A a, b, c \in Nat : a <= b => a <= b + c
      OBVIOUS
    <3>6. at[i] <= at[i + n] + Len(ss[i + n])
      BY <3>2, <3>3, <3>4, <3>5
    <3> QED
      BY <3>4, <3>6
  <2> HIDE DEF T
  <2>a. \A n \in Nat : n \in T
    BY <2>1, <2>2, SetInduction
  <2>3. j - i \in T
    BY <1>0, <1>1, <2>a
  <2>4. i + (j - i) = j
    OBVIOUS
  <2> QED
    BY <2>3, <2>4 DEF T
<1>2. ASSUME NEW k \in 1 .. Len(t)
      PROVE  \E i \in 1 .. Len(ss) : \E j \in 1 .. Len(ss[i]) : k = at[i] + j
  <2> DEFINE T == {n \in Nat : n \in 1 .. Len(ss) + 1 /\ k <= at[n]}
  <2>0. at[1] = 0 /\ at[Len(ss) + 1] = Len(t) /\ Len(t) \in Nat /\ k \in Nat /\ k >= 1 /\ k <= Len(t)
    <3>1. at[1] = 0 /\ at[Len(ss) + 1] = Len(t) /\ Len(ss) + 1 \in 1 .. Len(ss) + 1
      BY <1>0 DEF Places
    <3> QED
      BY <1>0, <3>1
  <2>1. Len(ss) + 1 \in T
    BY <1>0, <2>0
  <2>2. PICK n \in T : \A m \in T : n <= m
    <3>1. T # {} /\ T \in SUBSET Nat
      BY <2>1
    <3> HIDE DEF T
    <3> QED
      BY <3>1, LeastElement
  <2>3. n \in 1 .. Len(ss) + 1 /\ k <= at[n] /\ n # 1
    BY <2>0, <2>2
  <2>4. n - 1 \in 1 .. Len(ss) /\ (n - 1) + 1 = n /\ n - 1 \in 1 .. Len(ss) + 1 /\ ~(n <= n - 1)
    BY <1>0, <2>3
  <2>5. ~(k <= at[n - 1])
    BY <2>2, <2>4
  <2>6. at[n] = at[n - 1] + Len(ss[n - 1]) /\ at[n - 1] \in Nat /\ Len(ss[n - 1]) \in Nat
    <3>1. at[(n - 1) + 1] = at[n - 1] + Len(ss[n - 1])
      BY <1>0, <2>4
    <3> QED
      BY <1>0, <2>4, <3>1
  <2>7. k - at[n - 1] \in 1 .. Len(ss[n - 1]) /\ k = at[n - 1] + (k - at[n - 1])
    <3>1. k <= at[n - 1] + Len(ss[n - 1]) /\ ~(k <= at[n - 1])
      BY <2>3, <2>5, <2>6
    <3>2. \A a, l, m \in Nat : m <= a + l /\ ~(m <= a) => m - a \in 1 .. l /\ m = a + (m - a)
      OBVIOUS
    <3> QED
      BY <2>0, <2>6, <3>1, <3>2
  <2> QED
    BY <2>4, <2>7
<1> QED
  BY <1>1, <1>2 DEF Covers

\* Lists whose sequences have the same lengths have them at the same places.
LEMMA SamePlaces ==
    ASSUME NEW S, NEW ss \in Seq(Seq(S)), NEW tt \in Seq(Seq(S)), Len(ss) = Len(tt),
           \A i \in 1 .. Len(ss) : Len(ss[i]) = Len(tt[i]),
           NEW s, NEW t, NEW at, Places(at, ss, s), NEW bt, Places(bt, tt, t)
    PROVE  \A i \in 1 .. Len(ss) + 1 : at[i] = bt[i]
<1>0. Len(ss) \in Nat
  OBVIOUS
<1> DEFINE T == {n \in Nat : n <= Len(ss) => at[n + 1] = bt[n + 1]}
<1>1. 0 \in T
  BY DEF Places
<1>2. ASSUME NEW n \in Nat, n \in T PROVE n + 1 \in T
  <2> SUFFICES ASSUME n + 1 <= Len(ss) PROVE at[(n + 1) + 1] = bt[(n + 1) + 1]
    OBVIOUS
  <2>1. n + 1 \in 1 .. Len(ss) /\ n + 1 \in 1 .. Len(tt) /\ n <= Len(ss)
    BY <1>0
  <2>2. at[(n + 1) + 1] = at[n + 1] + Len(ss[n + 1]) /\ bt[(n + 1) + 1] = bt[n + 1] + Len(tt[n + 1])
    BY <2>1 DEF Places
  <2> QED
    BY <1>2, <2>1, <2>2
<1> HIDE DEF T
<1>3. \A n \in Nat : n \in T
  BY <1>1, <1>2, SetInduction
<1> QED
  <2> SUFFICES ASSUME NEW i \in 1 .. Len(ss) + 1 PROVE at[i] = bt[i]
    OBVIOUS
  <2>1. i - 1 \in Nat /\ i - 1 <= Len(ss) /\ (i - 1) + 1 = i
    BY <1>0
  <2>2. i - 1 \in T
    BY <1>3, <2>1
  <2> QED
    BY <2>1, <2>2 DEF T

\* Sequences of one element each.
LEMMA FlattenSingles ==
    ASSUME NEW S, NEW s \in Seq(S), NEW ss, ss = [i \in 1 .. Len(s) |-> <<s[i]>>]
    PROVE  FlattenSeq(ss) = s
<1>0. Len(s) \in Nat /\ \A i \in 1 .. Len(s) : s[i] \in S
  OBVIOUS
<1>1. ss \in Seq(Seq(S)) /\ Len(ss) = Len(s)
  <2>1. \A i \in 1 .. Len(s) : <<s[i]>> \in Seq(S)
    BY <1>0
  <2> QED
    BY <1>0, <2>1
<1>2. \A i \in 1 .. Len(s) : ss[i] = <<s[i]>> /\ Len(ss[i]) = 1 /\ ss[i][1] = s[i]
  OBVIOUS
<1> DEFINE t == FlattenSeq(ss)
<1>3. t \in Seq(S)
  BY <1>1, FlattenType
<1>4. PICK at : Places(at, ss, t)
  BY <1>1, FlattenPlaces
<1> HIDE DEF t
<1> DEFINE T == {n \in Nat : n <= Len(s) => at[n + 1] = n}
<1>5. 0 \in T
  BY <1>4 DEF Places
<1>6. ASSUME NEW n \in Nat, n \in T PROVE n + 1 \in T
  <2> SUFFICES ASSUME n + 1 <= Len(s) PROVE at[(n + 1) + 1] = n + 1
    OBVIOUS
  <2>1. n + 1 \in 1 .. Len(s) /\ n <= Len(s)
    BY <1>0
  <2>2. at[(n + 1) + 1] = at[n + 1] + Len(ss[n + 1])
    BY <1>1, <1>4, <2>1 DEF Places
  <2> QED
    BY <1>2, <1>6, <2>1, <2>2
<1> HIDE DEF T
<1>7. \A n \in Nat : n \in T
  BY <1>5, <1>6, SetInduction
<1>8. Len(t) = Len(s)
  <2>1. at[Len(s) + 1] = Len(s)
    BY <1>0, <1>7 DEF T
  <2> QED
    BY <1>1, <1>4, <2>1 DEF Places
<1>9. ASSUME NEW i \in 1 .. Len(s) PROVE t[i] = s[i]
  <2>1. i - 1 \in Nat /\ i - 1 <= Len(s) /\ (i - 1) + 1 = i /\ 1 \in 1 .. Len(ss[i])
    BY <1>0, <1>2
  <2>2. at[i] = i - 1
    <3>1. i - 1 \in T
      BY <1>7, <2>1
    <3> QED
      BY <2>1, <3>1 DEF T
  <2>3. t[at[i] + 1] = ss[i][1]
    <3>1. \A x \in 1 .. Len(s) : \A j \in 1 .. Len(ss[x]) : t[at[x] + j] = ss[x][j]
      BY <1>1, <1>4 DEF Places
    <3> QED
      BY <2>1, <3>1
  <2> QED
    BY <1>2, <2>1, <2>2, <2>3
<1>10. t = s
  BY <1>3, <1>8, <1>9, SeqEqual
<1> QED
  BY <1>10 DEF t

-----------------------------------------------------------------------------
(* Filters: some of the rows of a tree.                                    *)

\* t has the rows p of s, each c less deep, and with a row those above it.
Thinned(t, s, p, c) ==
    /\ p \in [DOMAIN t -> DOMAIN s]
    /\ \A a, b \in DOMAIN t : a < b => p[a] < p[b]
    /\ \A a \in DOMAIN t : s[p[a]].depth = t[a].depth + c
    /\ \A a, b \in DOMAIN t : \A k \in DOMAIN s :
          p[a] < k /\ p[b] \in Below(s, k) => \E x \in DOMAIN t : p[x] = k

LEMMA ThinnedBelow ==
    ASSUME NEW s, Deep(s), NEW t, Deep(t), NEW p, NEW c \in Nat, Thinned(t, s, p, c),
           NEW a \in DOMAIN t, NEW b \in DOMAIN t
    PROVE  /\ b \in Below(t, a) <=> p[b] \in Below(s, p[a])
           /\ b \in Kids(t, a) <=> p[b] \in Kids(s, p[a])
<1>0. /\ Len(s) \in Nat /\ DOMAIN s = 1 .. Len(s) /\ \A k \in 1 .. Len(s) : s[k].depth \in Nat
      /\ Len(t) \in Nat /\ DOMAIN t = 1 .. Len(t) /\ \A k \in 1 .. Len(t) : t[k].depth \in Nat
  BY DeepFacts
<1>1. \A x \in DOMAIN t : p[x] \in DOMAIN s /\ s[p[x]].depth = t[x].depth + c
  BY DEF Thinned
<1>2. \A x, y \in DOMAIN t : x < y => p[x] < p[y]
  BY DEF Thinned
<1>3. ASSUME p[b] \in Below(s, p[a]) PROVE b \in Below(t, a)
  <2>1. p[a] < p[b]
    BY <1>1, <1>3, BelowFacts
  <2>2. a < b
    <3>1. a \in Nat /\ b \in Nat /\ p[a] \in Nat /\ p[b] \in Nat
      BY <1>0, <1>1
    <3>2. a # b /\ ~(b < a)
      BY <1>2, <2>1, <3>1
    <3> QED
      BY <3>1, <3>2
  <2>3. ASSUME NEW k \in a + 1 .. b PROVE t[k].depth > t[a].depth
    <3>1. k \in DOMAIN t /\ a < k /\ (k = b \/ k < b)
      BY <1>0
    <3>2. p[k] \in p[a] + 1 .. p[b]
      <4>1. p[a] < p[k] /\ (p[k] = p[b] \/ p[k] < p[b])
        BY <1>2, <3>1
      <4> QED
        BY <1>0, <1>1, <3>1, <4>1
    <3>3. p[k] \in Below(s, p[a])
      BY <1>1, <1>3, <3>2, BelowFacts
    <3>4. s[p[k]].depth > s[p[a]].depth
      BY <1>1, <3>3, BelowFacts
    <3>5. t[k].depth + c > t[a].depth + c /\ t[k].depth \in Nat /\ t[a].depth \in Nat
      BY <1>0, <1>1, <3>1, <3>4
    <3> QED
      BY <3>5
  <2> QED
    BY <1>0, <2>2, <2>3 DEF Below
<1>4. ASSUME b \in Below(t, a) PROVE p[b] \in Below(s, p[a])
  <2> SUFFICES ASSUME p[b] \notin Below(s, p[a]) PROVE FALSE
    OBVIOUS
  <2>1. a < b
    BY <1>4, BelowFacts
  <2>2. p[a] < p[b] /\ p[a] \in DOMAIN s /\ p[b] \in DOMAIN s
    BY <1>1, <1>2, <2>1
  <2>3. PICK k \in p[a] + 1 .. p[b] : s[k].depth <= s[p[a]].depth /\ (k = p[b] \/ p[b] \in Below(s, k))
    BY <2>2, NotBelow
  <2>4. k \in DOMAIN s /\ p[a] < k /\ k <= p[b]
    BY <1>0, <2>2
  <2>5. PICK x \in DOMAIN t : p[x] = k
    <3>1. CASE k = p[b]
      BY <3>1
    <3>2. CASE p[b] \in Below(s, k)
      BY <2>4, <3>2 DEF Thinned
    <3> QED
      BY <2>3, <3>1, <3>2
  <2>6. x \in a + 1 .. b
    <3>1. a \in Nat /\ b \in Nat /\ x \in Nat /\ p[a] \in Nat /\ p[b] \in Nat /\ k \in Nat
      BY <1>0, <2>2, <2>4
    <3>2. a # x /\ ~(x < a) /\ ~(b < x)
      BY <1>2, <2>4, <2>5, <3>1
    <3> QED
      BY <3>1, <3>2
  <2>7. t[x].depth > t[a].depth
    <3>1. x \in Below(t, a)
      BY <1>4, <2>6, BelowFacts
    <3> QED
      BY <3>1, BelowFacts
  <2>8. t[x].depth + c <= t[a].depth + c /\ t[x].depth \in Nat /\ t[a].depth \in Nat
    BY <1>0, <1>1, <2>3, <2>5
  <2> QED
    BY <2>7, <2>8
<1>5. b \in Kids(t, a) <=> p[b] \in Kids(s, p[a])
  <2>1. t[a].depth \in Nat /\ t[b].depth \in Nat
    BY <1>0
  <2>2. t[b].depth = t[a].depth + 1 <=> s[p[b]].depth = s[p[a]].depth + 1
    BY <1>1, <2>1
  <2> QED
    BY <1>3, <1>4, <2>2 DEF Kids
<1> QED
  BY <1>3, <1>4, <1>5

\* Every group has a row below it.
Full(s) == \A i \in 1 .. Len(s) : ~IsLeaf(s[i]) => i < Len(s) /\ i + 1 \in Kids(s, i)

LEMMA NextKid ==
    ASSUME NEW s, Deep(s), Nested(s), NEW i \in DOMAIN s, Below(s, i) # {}
    PROVE  i < Len(s) /\ i + 1 \in Kids(s, i)
<1>0. Len(s) \in Nat /\ DOMAIN s = 1 .. Len(s) /\ \A k \in 1 .. Len(s) : s[k].depth \in Nat
  BY DeepFacts
<1>1. PICK j \in Below(s, i) : TRUE
  OBVIOUS
<1>2. j \in DOMAIN s /\ i < j
  BY BelowFacts
<1>3. i < Len(s) /\ i + 1 \in i + 1 .. j /\ i + 1 \in 2 .. Len(s) /\ (i + 1) - 1 = i /\ i + 1 \in 1 .. Len(s)
  BY <1>0, <1>2
<1>4. i + 1 \in Below(s, i)
  BY <1>3, BelowFacts
<1>5. s[i + 1].depth > s[i].depth
  BY <1>4, BelowFacts
<1>6. Follows(s[i], s[i + 1])
  <2>1. Follows(s[(i + 1) - 1], s[i + 1])
    BY <1>3, NestedFacts
  <2> QED
    BY <1>3, <2>1
<1>7. s[i + 1].depth = s[i].depth + 1
  <2>1. s[i + 1].depth \in Nat /\ s[i].depth \in Nat
    BY <1>0, <1>3
  <2> QED
    BY <1>5, <1>6, <2>1 DEF Follows
<1> QED
  BY <1>3, <1>4, <1>7 DEF Kids

LEMMA SaysFull ==
    ASSUME NEW s \in Seq(Nodes), Nested(s)
    PROVE  Full(s) <=> \A i \in 1 .. Len(s) : Says(s, i)
<1>0. Deep(s) /\ Len(s) \in Nat /\ DOMAIN s = 1 .. Len(s) /\ \A i \in 1 .. Len(s) : s[i] \in Nodes
  BY NodesDeep
<1>1. ASSUME Full(s), NEW i \in 1 .. Len(s) PROVE Says(s, i)
  <2> DEFINE e == End(s, i)
  <2>1. e \in i .. Len(s) /\ Below(s, i) = i + 1 .. e
    BY <1>0, EndFacts
  <2>2. e \in 1 .. Len(s) /\ (e = i \/ e \in Below(s, i))
    BY <1>0, <2>1
  <2>3. CASE IsLeaf(s[e])
    <3>1. IsCond(s[e])
      BY <1>0, <2>2, <2>3 DEF Nodes, IsLeaf, IsCond
    <3> QED
      BY <2>2, <3>1 DEF Says
  <2>4. CASE ~IsLeaf(s[e])
    <3>1. e + 1 \in Kids(s, e)
      BY <1>1, <2>2, <2>4 DEF Full
    <3>2. e + 1 \in Below(s, e)
      BY <1>0, <2>2, <3>1, BelowFacts
    <3>3. e + 1 \in Below(s, i)
      BY <1>0, <2>2, <3>2, BelowFacts
    <3>4. e + 1 \notin i + 1 .. e
      BY <1>0, <2>2
    <3> QED
      BY <2>1, <3>3, <3>4
  <2> QED
    BY <2>3, <2>4
<1>2. ASSUME \A i \in 1 .. Len(s) : Says(s, i) PROVE Full(s)
  <2>1. ASSUME NEW i \in 1 .. Len(s), ~IsLeaf(s[i]) PROVE i < Len(s) /\ i + 1 \in Kids(s, i)
    <3>1. PICK j \in {i} \cup Below(s, i) : IsCond(s[j])
      BY <1>2 DEF Says
    <3>2. Below(s, i) # {}
      BY <2>1, <3>1 DEF IsLeaf, IsCond
    <3> QED
      BY <1>0, <3>2, NextKid
  <2> QED
    BY <2>1 DEF Full
<1> QED
  BY <1>1, <1>2

-----------------------------------------------------------------------------
(* Filters: the rows that are left when empty groups are.                  *)

\* t has the rows p of s, which are those that say something.
PrunedBy(t, s, p) ==
    /\ t \in Seq(Nodes)
    /\ p \in [DOMAIN t -> DOMAIN s]
    /\ \A a, b \in DOMAIN t : a < b => p[a] < p[b]
    /\ \A a \in DOMAIN t : t[a] = s[p[a]] /\ Says(s, p[a])
    /\ \A i \in DOMAIN s : Says(s, i) => \E a \in DOMAIN t : p[a] = i

LEMMA PrunedRows ==
    ASSUME NEW s \in Seq(Nodes)
    PROVE  \E p : PrunedBy(Pruned(s), s, p)
<1> DEFINE ss == [i \in DOMAIN s |-> IF Says(s, i) THEN <<s[i]>> ELSE <<>>]
<1>0. Len(s) \in Nat /\ DOMAIN s = 1 .. Len(s) /\ \A i \in 1 .. Len(s) : s[i] \in Nodes
  OBVIOUS
<1>1. ss \in Seq(Seq(Nodes)) /\ Len(ss) = Len(s) /\ DOMAIN ss = 1 .. Len(s)
  <2>1. ss = [i \in 1 .. Len(s) |-> IF Says(s, i) THEN <<s[i]>> ELSE <<>>]
    BY <1>0
  <2>2. \A i \in 1 .. Len(s) : (IF Says(s, i) THEN <<s[i]>> ELSE <<>>) \in Seq(Nodes)
    BY <1>0
  <2> QED
    BY <1>0, <2>1, <2>2
<1>2. ASSUME NEW i \in 1 .. Len(s)
      PROVE  /\ Says(s, i) => Len(ss[i]) = 1 /\ ss[i][1] = s[i]
             /\ ~Says(s, i) => Len(ss[i]) = 0
  <2>1. ss[i] = IF Says(s, i) THEN <<s[i]>> ELSE <<>>
    BY <1>0
  <2> QED
    BY <2>1
<1> DEFINE t == FlattenSeq(ss)
<1>3. t = Pruned(s)
  BY DEF Pruned
<1>4. t \in Seq(Nodes)
  BY <1>1, FlattenType
<1>5. PICK at : Places(at, ss, t)
  BY <1>1, FlattenPlaces
<1> HIDE DEF ss, t
<1>6. /\ \A i, j \in 1 .. Len(s) + 1 : i <= j => at[i] <= at[j]
      /\ \A k \in 1 .. Len(t) : \E i \in 1 .. Len(s) : \E j \in 1 .. Len(ss[i]) : k = at[i] + j
  <2>1. Covers(at, ss, t)
    BY <1>1, <1>5, PlacesFacts
  <2> QED
    BY <1>1, <2>1 DEF Covers
<1>7. /\ \A i \in 1 .. Len(s) + 1 : at[i] \in Nat
      /\ at[Len(s) + 1] = Len(t)
      /\ \A i \in 1 .. Len(s) : Says(s, i) => at[i + 1] = at[i] + 1 /\ t[at[i] + 1] = s[i]
  <2>1. \A i \in 1 .. Len(s) + 1 : at[i] \in Nat
    BY <1>1, <1>5 DEF Places
  <2>2. ASSUME NEW i \in 1 .. Len(s), Says(s, i) PROVE at[i + 1] = at[i] + 1 /\ t[at[i] + 1] = s[i]
    <3>1. Len(ss[i]) = 1 /\ ss[i][1] = s[i] /\ 1 \in 1 .. Len(ss[i])
      BY <1>2, <2>2
    <3> QED
      BY <1>1, <1>5, <3>1 DEF Places
  <2> QED
    BY <1>1, <1>5, <2>1, <2>2 DEF Places
<1> DEFINE p == [k \in DOMAIN t |-> CHOOSE i \in DOMAIN s : Says(s, i) /\ k = at[i] + 1]
<1>8. ASSUME NEW k \in DOMAIN t PROVE p[k] \in DOMAIN s /\ Says(s, p[k]) /\ k = at[p[k]] + 1
  <2>1. k \in 1 .. Len(t)
    BY <1>4
  <2>2. PICK i \in 1 .. Len(s) : \E j \in 1 .. Len(ss[i]) : k = at[i] + j
    BY <1>6, <2>1
  <2>3. PICK j \in 1 .. Len(ss[i]) : k = at[i] + j
    BY <2>2
  <2>4. Says(s, i) /\ j = 1
    <3>1. Len(ss[i]) = 0 => FALSE
      OBVIOUS
    <3>2. Says(s, i)
      BY <1>2, <3>1
    <3>3. Len(ss[i]) = 1
      BY <1>2, <3>2
    <3> QED
      BY <3>2, <3>3
  <2> QED
    BY <1>0, <2>3, <2>4
<1> HIDE DEF p
<1>9. p \in [DOMAIN t -> DOMAIN s]
  <2>1. p = [k \in DOMAIN t |-> p[k]]
    BY DEF p
  <2> QED
    BY <1>8, <2>1
<1>10. ASSUME NEW a \in DOMAIN t, NEW b \in DOMAIN t, a < b PROVE p[a] < p[b]
  <2>1. p[a] \in 1 .. Len(s) /\ p[b] \in 1 .. Len(s) /\ a = at[p[a]] + 1 /\ b = at[p[b]] + 1
    BY <1>0, <1>8
  <2>2. at[p[a]] \in Nat /\ at[p[b]] \in Nat /\ p[a] \in 1 .. Len(s) + 1 /\ p[b] \in 1 .. Len(s) + 1
        /\ p[a] \in Nat /\ p[b] \in Nat
    BY <1>0, <1>7, <2>1
  <2>3. ~(at[p[b]] <= at[p[a]])
    BY <1>10, <2>1, <2>2
  <2>4. ~(p[b] <= p[a])
    BY <1>6, <2>2, <2>3
  <2> QED
    BY <2>2, <2>4
<1>11. ASSUME NEW a \in DOMAIN t PROVE t[a] = s[p[a]] /\ Says(s, p[a])
  <2>1. p[a] \in 1 .. Len(s) /\ a = at[p[a]] + 1 /\ Says(s, p[a])
    BY <1>0, <1>8
  <2> QED
    BY <1>7, <2>1
<1>12. ASSUME NEW i \in DOMAIN s, Says(s, i) PROVE \E a \in DOMAIN t : p[a] = i
  <2>1. i \in 1 .. Len(s) /\ i \in 1 .. Len(s) + 1 /\ i + 1 \in 1 .. Len(s) + 1
        /\ Len(s) + 1 \in 1 .. Len(s) + 1 /\ i + 1 <= Len(s) + 1
    BY <1>0
  <2>2. at[i + 1] = at[i] + 1 /\ at[i] \in Nat /\ at[i + 1] <= Len(t)
    BY <1>6, <1>7, <1>12, <2>1
  <2>3. at[i] + 1 \in DOMAIN t
    BY <1>4, <2>2
  <2> DEFINE x == p[at[i] + 1]
  <2>4. x \in 1 .. Len(s) /\ Says(s, x) /\ at[i] + 1 = at[x] + 1
    BY <1>0, <1>8, <2>3
  <2> HIDE DEF x
  <2>5. x \in 1 .. Len(s) + 1 /\ x + 1 \in 1 .. Len(s) + 1 /\ x \in Nat /\ i \in Nat
        /\ at[x] \in Nat /\ at[x + 1] = at[x] + 1
    BY <1>0, <1>7, <2>1, <2>4
  <2>6. ~(x < i)
    <3> SUFFICES ASSUME x < i PROVE FALSE
      OBVIOUS
    <3>1. x + 1 <= i
      BY <2>5
    <3>2. at[x + 1] <= at[i]
      BY <1>6, <2>1, <2>5, <3>1
    <3> QED
      BY <2>2, <2>4, <2>5, <3>2
  <2>7. ~(i < x)
    <3> SUFFICES ASSUME i < x PROVE FALSE
      OBVIOUS
    <3>1. i + 1 <= x
      BY <2>5
    <3>2. at[i + 1] <= at[x]
      BY <1>6, <2>1, <2>5, <3>1
    <3> QED
      BY <2>2, <2>4, <2>5, <3>2
  <2>8. x = i
    BY <2>5, <2>6, <2>7
  <2> QED
    BY <2>3, <2>8 DEF x
<1>13. PrunedBy(t, s, p)
  BY <1>4, <1>9, <1>10, <1>11, <1>12 DEF PrunedBy
<1> QED
  BY <1>3, <1>13

LEMMA PrunedFacts ==
    ASSUME NEW s \in Seq(Nodes), Nested(s), Says(s, 1), NEW t, NEW p, PrunedBy(t, s, p)
    PROVE  /\ Thinned(t, s, p, 0) /\ Nested(t) /\ Full(t)
           /\ 1 \in DOMAIN t /\ p[1] = 1
<1>0. /\ Deep(s) /\ Len(s) \in Nat /\ DOMAIN s = 1 .. Len(s) /\ \A i \in 1 .. Len(s) : s[i].depth \in Nat
      /\ Len(s) >= 1 /\ s[1].depth = 0
  <2>1. Deep(s) /\ s # <<>> /\ s[1].depth = 0
    BY NodesDeep DEF Nested
  <2> QED
    BY <2>1, DeepFacts
<1>1. t \in Seq(Nodes) /\ Deep(t) /\ Len(t) \in Nat /\ DOMAIN t = 1 .. Len(t)
  <2>1. t \in Seq(Nodes)
    BY DEF PrunedBy
  <2> QED
    BY <2>1, NodesDeep
<1>2. /\ \A a \in DOMAIN t : p[a] \in DOMAIN s /\ t[a] = s[p[a]] /\ Says(s, p[a])
      /\ \A a, b \in DOMAIN t : a < b => p[a] < p[b]
      /\ \A i \in DOMAIN s : Says(s, i) => \E a \in DOMAIN t : p[a] = i
  BY DEF PrunedBy
<1>3. ASSUME NEW k \in DOMAIN s, NEW i \in DOMAIN s, Says(s, i), i \in Below(s, k) PROVE Says(s, k)
  <2>1. PICK j \in {i} \cup Below(s, i) : IsCond(s[j])
    BY <1>3 DEF Says
  <2>2. j \in Below(s, k)
    BY <1>0, <1>3, BelowFacts
  <2> QED
    BY <2>1, <2>2 DEF Says
<1>4. Thinned(t, s, p, 0)
  <2>1. ASSUME NEW a \in DOMAIN t PROVE s[p[a]].depth = t[a].depth + 0
    <3>1. t[a].depth \in Nat /\ t[a] = s[p[a]]
      BY <1>1, <1>2, DeepFacts
    <3> QED
      BY <3>1
  <2>2. ASSUME NEW b \in DOMAIN t, NEW k \in DOMAIN s, p[b] \in Below(s, k) PROVE \E x \in DOMAIN t : p[x] = k
    BY <1>2, <1>3, <2>2
  <2>3. p \in [DOMAIN t -> DOMAIN s]
    BY DEF PrunedBy
  <2> QED
    BY <1>2, <2>1, <2>2, <2>3 DEF Thinned
<1>5. 1 \in DOMAIN t /\ p[1] = 1
  <2>1. 1 \in DOMAIN s
    BY <1>0
  <2>2. PICK a \in DOMAIN t : p[a] = 1
    BY <1>2, <2>1
  <2>3. 1 \in DOMAIN t /\ a \in Nat
    BY <1>1
  <2>4. p[1] \in 1 .. Len(s)
    BY <1>0, <1>2, <2>3
  <2>5. a = 1
    <3> SUFFICES ASSUME a # 1 PROVE FALSE
      OBVIOUS
    <3>1. 1 < a
      BY <1>1
    <3>2. p[1] < p[a]
      BY <1>2, <2>3, <3>1
    <3> QED
      BY <2>2, <2>4, <3>2
  <2> QED
    BY <2>2, <2>3, <2>5
<1>6. ASSUME NEW i \in 2 .. Len(t) PROVE Follows(t[i - 1], t[i])
  <2> DEFINE a == p[i - 1]
             b == p[i]
  <2>1. i - 1 \in DOMAIN t /\ i \in DOMAIN t /\ i - 1 < i
    BY <1>1
  <2>2. a \in 1 .. Len(s) /\ b \in 1 .. Len(s) /\ a < b /\ t[i - 1] = s[a] /\ t[i] = s[b] /\ Says(s, b)
    BY <1>0, <1>2, <2>1
  <2>a. a = p[i - 1] /\ b = p[i]
    OBVIOUS
  <2> HIDE DEF a, b
  <2>3. \A x \in DOMAIN t : p[x] < b => p[x] <= a
    <3> SUFFICES ASSUME NEW x \in DOMAIN t, p[x] < b PROVE p[x] <= a
      OBVIOUS
    <3>1. p[x] \in Nat /\ x \in Nat /\ i \in Nat /\ a \in Nat /\ b \in Nat
      BY <1>0, <1>1, <1>2, <2>2
    <3>2. x # i
      BY <2>a, <3>1
    <3>3. ASSUME i < x PROVE FALSE
      <4>1. p[i] < p[x]
        BY <1>2, <2>1, <3>3
      <4> QED
        BY <2>a, <3>1, <4>1
    <3>4. x = i - 1 \/ x < i - 1
      BY <3>1, <3>2, <3>3
    <3>5. CASE x = i - 1
      BY <2>a, <3>1, <3>5
    <3>6. CASE x < i - 1
      <4>1. p[x] < p[i - 1]
        BY <1>2, <2>1, <3>6
      <4> QED
        BY <2>a, <3>1, <4>1
    <3> QED
      BY <3>4, <3>5, <3>6
  <2> DEFINE k == Parent(s, b)
  <2>4. b \in 2 .. Len(s)
    BY <1>0, <2>2
  <2>5. k \in DOMAIN s /\ k < b /\ b \in Kids(s, k) /\ ~IsLeaf(s[k])
    BY <1>0, <2>4, ParentFacts
  <2> HIDE DEF k
  <2>6. b \in Below(s, k) /\ s[b].depth = s[k].depth + 1
    BY <2>5 DEF Kids
  <2>7. k <= a
    <3>1. Says(s, k)
      BY <1>0, <1>3, <2>2, <2>5, <2>6
    <3>2. PICK x \in DOMAIN t : p[x] = k
      BY <1>2, <2>5, <3>1
    <3> QED
      BY <2>3, <2>5, <3>2
  <2>8. s[k].depth \in Nat /\ s[a].depth \in Nat /\ s[b].depth \in Nat
    BY <1>0, <2>2, <2>5
  <2>9. CASE k = a
    BY <2>2, <2>5, <2>6, <2>8, <2>9 DEF Follows
  <2>10. CASE k < a
    <3>1. a \in k + 1 .. b
      BY <1>0, <2>2, <2>5, <2>10
    <3>2. a \in Below(s, k)
      BY <1>0, <2>5, <2>6, <3>1, BelowFacts
    <3>3. s[a].depth > s[k].depth
      BY <1>0, <2>5, <3>2, BelowFacts
    <3>4. s[b].depth <= s[a].depth /\ s[b].depth >= 1
      BY <2>6, <2>8, <3>3
    <3> QED
      BY <2>2, <2>8, <3>4 DEF Follows
  <2> QED
    BY <1>0, <2>2, <2>5, <2>7, <2>9, <2>10
<1>7. Nested(t)
  <2>1. t # <<>>
    BY <1>5
  <2>2. t[1].depth = 0
    BY <1>0, <1>2, <1>5
  <2> QED
    BY <1>6, <2>1, <2>2, NestedFacts
<1>8. Full(t)
  <2>1. ASSUME NEW i \in 1 .. Len(t) PROVE Says(t, i)
    <3>1. i \in DOMAIN t /\ Says(s, p[i]) /\ p[i] \in DOMAIN s
      BY <1>1, <1>2
    <3>2. PICK j \in {p[i]} \cup Below(s, p[i]) : IsCond(s[j])
      BY <3>1 DEF Says
    <3>3. j \in DOMAIN s
      BY <1>0, <3>1, BelowFacts
    <3>4. Says(s, j)
      BY <3>2 DEF Says
    <3>5. PICK x \in DOMAIN t : p[x] = j
      BY <1>2, <3>3, <3>4
    <3>6. IsCond(t[x])
      BY <1>2, <3>2, <3>5
    <3>7. CASE j = p[i]
      BY <1>2, <3>1, <3>2, <3>7 DEF Says
    <3>8. CASE j \in Below(s, p[i])
      <4>1. x \in Below(t, i)
        BY <1>0, <1>1, <1>4, <3>1, <3>5, <3>8, ThinnedBelow
      <4> QED
        BY <3>6, <4>1 DEF Says
    <3> QED
      BY <3>7, <3>8
  <2> QED
    BY <1>1, <1>7, <2>1, SaysFull
<1> QED
  BY <1>4, <1>5, <1>7, <1>8

-----------------------------------------------------------------------------
(* Filters: groups of one at the top.                                      *)

LEMMA TopExists ==
    ASSUME NEW s \in Seq(Nodes), Nested(s)
    PROVE  /\ Top(s) \in DOMAIN s /\ ~Single(s, Top(s)) /\ \A k \in 1 .. Top(s) - 1 : Single(s, k)
           /\ \A i \in DOMAIN s : ~Single(s, i) /\ (\A k \in 1 .. i - 1 : Single(s, k)) => i = Top(s)
<1>0. Deep(s) /\ Len(s) \in Nat /\ DOMAIN s = 1 .. Len(s) /\ Len(s) >= 1
  <2>1. s # <<>>
    BY NestedFacts
  <2> QED
    BY <2>1, NodesDeep
<1> DEFINE T == {n \in Nat : n \in DOMAIN s /\ ~Single(s, n)}
<1>1. Len(s) \in T
  <2>1. Below(s, Len(s)) = {}
    BY <1>0 DEF Below
  <2>2. Kids(s, Len(s)) = {}
    BY <2>1 DEF Kids
  <2> QED
    BY <1>0, <2>2 DEF Single
<1>2. PICK n \in T : \A m \in T : n <= m
  <2>1. T # {} /\ T \in SUBSET Nat
    BY <1>1
  <2> HIDE DEF T
  <2> QED
    BY <2>1, LeastElement
<1>3. ASSUME NEW k \in 1 .. n - 1 PROVE Single(s, k)
  <2>1. k \in DOMAIN s /\ k \in Nat /\ ~(n <= k)
    BY <1>0, <1>2
  <2> QED
    BY <1>2, <2>1
<1> DEFINE Is(i) == ~Single(s, i) /\ \A k \in 1 .. i - 1 : Single(s, k)
<1>4. n \in DOMAIN s /\ Is(n)
  BY <1>2, <1>3
<1>5. Top(s) = CHOOSE i \in DOMAIN s : Is(i)
  BY DEF Top
<1>6. Top(s) \in DOMAIN s /\ Is(Top(s))
  <2> HIDE DEF Is
  <2> QED
    BY <1>4, <1>5
<1>7. ASSUME NEW i \in DOMAIN s, NEW j \in DOMAIN s, Is(i), Is(j) PROVE i = j
  <2>1. i \in Nat /\ j \in Nat /\ i >= 1 /\ j >= 1
    BY <1>0
  <2>2. ~(i < j)
    <3> SUFFICES ASSUME i < j PROVE FALSE
      OBVIOUS
    <3>1. i \in 1 .. j - 1
      BY <2>1
    <3> QED
      BY <1>7, <3>1
  <2>3. ~(j < i)
    <3> SUFFICES ASSUME j < i PROVE FALSE
      OBVIOUS
    <3>1. j \in 1 .. i - 1
      BY <2>1
    <3> QED
      BY <1>7, <3>1
  <2> QED
    BY <2>1, <2>2, <2>3
<1> QED
  BY <1>6, <1>7

\* i rows down in the chain at the top.
Chained(s, i) ==
    /\ s[i].depth = i - 1
    /\ \A k \in i + 1 .. Len(s) : k \in Below(s, i)

LEMMA TopChain ==
    ASSUME NEW s \in Seq(Nodes), Nested(s), Full(s)
    PROVE  /\ \A i \in 1 .. Top(s) : Chained(s, i)
           /\ \A i \in 1 .. Top(s) - 1 : Kids(s, i) = {i + 1}
<1>0. Deep(s) /\ Len(s) \in Nat /\ DOMAIN s = 1 .. Len(s) /\ \A i \in 1 .. Len(s) : s[i].depth \in Nat
  BY NodesDeep, DeepFacts
<1>1. Top(s) \in 1 .. Len(s) /\ \A k \in 1 .. Top(s) - 1 : Single(s, k)
  BY <1>0, TopExists
<1> DEFINE m == Top(s)
           T == {n \in Nat : n + 1 <= m => Chained(s, n + 1)}
<1>2. 0 \in T
  <2>1. ASSUME NEW k \in 1 + 1 .. Len(s) PROVE k \in Below(s, 1)
    BY <1>0, ParentFacts
  <2>2. s[1].depth = 1 - 1
    BY DEF Nested
  <2> QED
    BY <2>1, <2>2 DEF Chained
<1>3. ASSUME NEW i \in 1 .. m - 1, Chained(s, i) PROVE Chained(s, i + 1) /\ Kids(s, i) = {i + 1}
  <2>1. i \in 1 .. Len(s) /\ i + 1 \in 1 .. Len(s) /\ i \in Nat /\ Single(s, i)
    BY <1>0, <1>1
  <2>2. i + 1 \in Kids(s, i)
    <3>1. ~IsLeaf(s[i])
      BY <2>1 DEF Single, IsLeaf
    <3> QED
      BY <2>1, <3>1 DEF Full
  <2>3. Kids(s, i) = {i + 1}
    BY <2>1, <2>2 DEF Single
  <2>4. s[i + 1].depth = s[i].depth + 1 /\ s[i].depth = i - 1
    BY <1>3, <2>2 DEF Kids, Chained
  <2>5. s[i + 1].depth = (i + 1) - 1
    BY <2>1, <2>4
  <2>6. ASSUME NEW k \in (i + 1) + 1 .. Len(s) PROVE k \in Below(s, i + 1)
    <3> SUFFICES ASSUME k \notin Below(s, i + 1) PROVE FALSE
      OBVIOUS
    <3>1. k \in DOMAIN s /\ i + 1 < k /\ k \in i + 1 .. Len(s)
      BY <1>0, <2>1
    <3>2. PICK x \in (i + 1) + 1 .. k : s[x].depth <= s[i + 1].depth
      BY <1>0, <2>1, <3>1, NotBelow
    <3>3. x \in 1 .. Len(s) /\ x # i + 1 /\ x \in i + 1 .. Len(s)
      BY <1>0, <2>1, <3>1
    <3>4. x \in Below(s, i)
      BY <1>3, <3>3 DEF Chained
    <3>5. s[x].depth > s[i].depth
      BY <1>0, <2>1, <3>4, BelowFacts
    <3>6. s[x].depth = s[i].depth + 1
      <4>1. s[x].depth \in Nat /\ s[i].depth \in Nat
        BY <1>0, <2>1, <3>3
      <4> QED
        BY <2>4, <3>2, <3>5, <4>1
    <3>7. x \in Kids(s, i)
      BY <3>4, <3>6 DEF Kids
    <3> QED
      BY <2>3, <3>3, <3>7
  <2> QED
    BY <2>3, <2>5, <2>6 DEF Chained
<1>4. ASSUME NEW n \in Nat, n \in T PROVE n + 1 \in T
  <2> SUFFICES ASSUME (n + 1) + 1 <= m PROVE Chained(s, (n + 1) + 1)
    OBVIOUS
  <2>1. n + 1 \in 1 .. m - 1
    BY <1>1
  <2>2. Chained(s, n + 1)
    BY <1>1, <1>4, <2>1
  <2> QED
    BY <1>3, <2>1, <2>2
<1> HIDE DEF T
<1>5. \A n \in Nat : n \in T
  BY <1>2, <1>4, SetInduction
<1>6. ASSUME NEW i \in 1 .. m PROVE Chained(s, i)
  <2>1. i - 1 \in Nat /\ (i - 1) + 1 = i /\ i <= m
    BY <1>1
  <2>2. i - 1 \in T
    BY <1>5, <2>1
  <2>3. (i - 1) + 1 <= m => Chained(s, (i - 1) + 1)
    BY <2>2 DEF T
  <2> QED
    BY <2>1, <2>3
<1>7. ASSUME NEW i \in 1 .. m - 1 PROVE Kids(s, i) = {i + 1}
  <2>1. i \in 1 .. m
    BY <1>1
  <2> QED
    BY <1>3, <1>6, <2>1
<1> QED
  BY <1>6, <1>7

\* t has the rows of s but the first c, at the depths they have without those.
Lifted(t, s, c) ==
    /\ t \in Seq(Nodes) /\ Len(t) = Len(s) - c
    /\ \A a \in 1 .. Len(t) : t[a] = [s[a + c] EXCEPT !.depth = @ - c] /\ s[a + c].depth = t[a].depth + c

LEMMA LiftedFacts ==
    ASSUME NEW s \in Seq(Nodes), NEW t, NEW c \in Nat, Lifted(t, s, c)
    PROVE  /\ DOMAIN t = 1 .. Len(t) /\ Len(t) \in Nat /\ Deep(t)
           /\ \A a \in 1 .. Len(t) :
                 /\ a + c \in DOMAIN s /\ t[a].kind = s[a + c].kind /\ t[a].attr = s[a + c].attr
                 /\ t[a].op = s[a + c].op /\ t[a].val = s[a + c].val /\ t[a].raw = s[a + c].raw
           /\ Thinned(t, s, [a \in 1 .. Len(t) |-> a + c], c)
<1>0. Len(s) \in Nat /\ DOMAIN s = 1 .. Len(s) /\ \A i \in 1 .. Len(s) : s[i] \in Nodes
  OBVIOUS
<1>1. t \in Seq(Nodes) /\ DOMAIN t = 1 .. Len(t) /\ Len(t) \in Nat /\ Deep(t) /\ Len(t) = Len(s) - c
  <2>1. t \in Seq(Nodes) /\ Len(t) = Len(s) - c
    BY DEF Lifted
  <2> QED
    BY <2>1, NodesDeep
<1>2. \A a \in 1 .. Len(t) : a + c \in 1 .. Len(s)
  BY <1>0, <1>1
<1>3. ASSUME NEW a \in 1 .. Len(t)
      PROVE  /\ t[a].kind = s[a + c].kind /\ t[a].attr = s[a + c].attr
             /\ t[a].op = s[a + c].op /\ t[a].val = s[a + c].val /\ t[a].raw = s[a + c].raw
  <2>1. s[a + c] \in Nodes /\ t[a] = [s[a + c] EXCEPT !.depth = @ - c]
    BY <1>0, <1>2 DEF Lifted
  <2> QED
    BY <2>1 DEF Nodes
<1> DEFINE p == [a \in 1 .. Len(t) |-> a + c]
<1>4. Thinned(t, s, p, c)
  <2>1. p \in [DOMAIN t -> DOMAIN s]
    BY <1>0, <1>1, <1>2
  <2>2. \A a \in 1 .. Len(t) : p[a] = a + c
    OBVIOUS
  <2> HIDE DEF p
  <2>3. \A a, b \in DOMAIN t : a < b => p[a] < p[b]
    BY <1>1, <2>2
  <2>4. \A a \in DOMAIN t : s[p[a]].depth = t[a].depth + c
    BY <1>1, <2>2 DEF Lifted
  <2>5. ASSUME NEW a \in DOMAIN t, NEW k \in DOMAIN s, p[a] < k PROVE \E x \in DOMAIN t : p[x] = k
    <3>1. a \in 1 .. Len(t) /\ p[a] = a + c /\ k \in 1 .. Len(s)
      BY <1>0, <1>1, <2>2
    <3>2. k - c \in 1 .. Len(t) /\ (k - c) + c = k
      BY <1>0, <1>1, <2>5, <3>1
    <3> QED
      BY <1>1, <2>2, <3>2
  <2> QED
    BY <2>1, <2>3, <2>4, <2>5 DEF Thinned
<1> QED
  BY <1>0, <1>1, <1>2, <1>3, <1>4

LEMMA CollapsedFacts ==
    ASSUME NEW s \in Seq(Nodes), Nested(s), Full(s), NEW t, t = Collapsed(s)
    PROVE  /\ Lifted(t, s, Top(s) - 1) /\ Top(s) - 1 \in Nat
           /\ Nested(t) /\ Full(t) /\ ~Single(t, 1)
<1>0. Deep(s) /\ Len(s) \in Nat /\ DOMAIN s = 1 .. Len(s)
      /\ \A i \in 1 .. Len(s) : s[i] \in Nodes /\ s[i].depth \in Nat
  BY NodesDeep, DeepFacts
<1> DEFINE m == Top(s)
           c == m - 1
<1>1. m \in 1 .. Len(s) /\ ~Single(s, m)
  BY <1>0, TopExists
<1>2. \A i \in 1 .. m : Chained(s, i)
  BY TopChain
<1>3. c \in Nat /\ c + 1 = m
  BY <1>1
<1>4. t = [i \in 1 .. Len(s) - c |-> [s[i + c] EXCEPT !.depth = @ - c]]
  BY DEF Collapsed
<1> HIDE DEF m
<1>5. s[m].depth = c /\ \A i \in m + 1 .. Len(s) : s[i].depth > c
  <2>1. Chained(s, m) /\ s[m].depth = c
    BY <1>1, <1>2 DEF Chained
  <2>2. ASSUME NEW i \in m + 1 .. Len(s) PROVE s[i].depth > c
    <3>1. i \in Below(s, m)
      BY <2>1, <2>2 DEF Chained
    <3>2. s[i].depth > s[m].depth
      BY <1>0, <1>1, <3>1, BelowFacts
    <3> QED
      BY <2>1, <3>2
  <2> QED
    BY <2>1, <2>2
<1> HIDE DEF c
<1>6. ASSUME NEW a \in 1 .. Len(s) - c
      PROVE  /\ a + c \in 1 .. Len(s) /\ t[a] \in Nodes /\ t[a] = [s[a + c] EXCEPT !.depth = @ - c]
             /\ s[a + c].depth = t[a].depth + c /\ t[a].depth \in Nat /\ t[a].kind = s[a + c].kind
             /\ a # 1 => t[a].depth >= 1
  <2>1. a + c \in 1 .. Len(s) /\ (a + c = m \/ a + c \in m + 1 .. Len(s)) /\ (a # 1 => a + c \in m + 1 .. Len(s))
    BY <1>0, <1>1, <1>3
  <2>2. s[a + c] \in Nodes /\ s[a + c].depth \in Nat /\ s[a + c].depth >= c /\ (a # 1 => s[a + c].depth > c)
    <3>1. s[a + c] \in Nodes /\ s[a + c].depth \in Nat
      BY <1>0, <2>1
    <3> QED
      BY <1>3, <1>5, <2>1, <3>1
  <2>3. t[a] = [s[a + c] EXCEPT !.depth = @ - c]
    BY <1>4
  <2>4. s[a + c].depth - c \in Nat /\ (a # 1 => s[a + c].depth - c >= 1)
    BY <1>3, <2>2
  <2>5. t[a] \in Nodes /\ t[a].depth = s[a + c].depth - c /\ t[a].kind = s[a + c].kind
    BY <2>2, <2>3, <2>4 DEF Nodes
  <2> QED
    BY <1>3, <2>1, <2>2, <2>3, <2>4, <2>5
<1>7. t \in Seq(Nodes) /\ Len(t) = Len(s) - c /\ Len(t) \in Nat /\ Len(t) >= 1
  <2>1. Len(s) - c \in Nat /\ Len(s) - c >= 1
    BY <1>0, <1>1, <1>3
  <2>2. t = [a \in 1 .. Len(s) - c |-> t[a]]
    BY <1>4
  <2>3. \A a \in 1 .. Len(s) - c : t[a] \in Nodes
    BY <1>6
  <2>4. t \in Seq(Nodes) /\ Len(t) = Len(s) - c
    <3>1. \A n \in Nat : t = [a \in 1 .. n |-> t[a]] /\ (\A a \in 1 .. n : t[a] \in Nodes) => t \in Seq(Nodes) /\ Len(t) = n
      OBVIOUS
    <3> QED
      BY <2>1, <2>2, <2>3, <3>1
  <2> QED
    BY <2>1, <2>4
<1>8. Lifted(t, s, c)
  BY <1>6, <1>7 DEF Lifted
<1> DEFINE p == [a \in 1 .. Len(t) |-> a + c]
<1>9. DOMAIN t = 1 .. Len(t) /\ Deep(t) /\ Thinned(t, s, p, c) /\ \A a \in 1 .. Len(t) : a + c \in DOMAIN s
  BY <1>3, <1>8, LiftedFacts
<1>10. \A a \in 1 .. Len(t) : p[a] = a + c
  OBVIOUS
<1> HIDE DEF p
<1>11. \A a, b \in 1 .. Len(t) : b \in Kids(t, a) <=> b + c \in Kids(s, a + c)
  <2> SUFFICES ASSUME NEW a \in 1 .. Len(t), NEW b \in 1 .. Len(t)
               PROVE  b \in Kids(t, a) <=> b + c \in Kids(s, a + c)
    OBVIOUS
  <2>1. b \in Kids(t, a) <=> p[b] \in Kids(s, p[a])
    BY <1>0, <1>3, <1>9, ThinnedBelow
  <2> QED
    BY <1>10, <2>1
<1>12. Nested(t)
  <2>1. t # <<>>
    BY <1>7
  <2>2. t[1].depth = 0
    <3>1. 1 \in 1 .. Len(s) - c /\ 1 + c = m
      BY <1>3, <1>7
    <3>2. s[m].depth = t[1].depth + c /\ t[1].depth \in Nat
      BY <1>6, <3>1
    <3>3. \A x, y \in Nat : y = x + y => x = 0
      OBVIOUS
    <3> QED
      BY <1>3, <1>5, <3>2, <3>3
  <2>3. ASSUME NEW i \in 2 .. Len(t) PROVE Follows(t[i - 1], t[i])
    <3>1. i \in 1 .. Len(s) - c /\ i - 1 \in 1 .. Len(s) - c /\ i # 1 /\ i + c \in 2 .. Len(s)
          /\ (i + c) - 1 = (i - 1) + c
      BY <1>0, <1>3, <1>7
    <3>2. Follows(s[(i - 1) + c], s[i + c])
      BY <3>1, NestedFacts
    <3>3. /\ s[i + c].depth = t[i].depth + c /\ t[i].depth \in Nat /\ t[i].depth >= 1
          /\ s[(i - 1) + c].depth = t[i - 1].depth + c /\ t[i - 1].depth \in Nat
          /\ t[i - 1].kind = s[(i - 1) + c].kind
      BY <1>6, <3>1
    <3>4. IsLeaf(s[(i - 1) + c]) <=> IsLeaf(t[i - 1])
      BY <3>3 DEF IsLeaf
    <3>5. t[i].depth + c <= (t[i - 1].depth + c) + 1 /\ (IsLeaf(t[i - 1]) => t[i].depth + c <= t[i - 1].depth + c)
      BY <1>3, <3>2, <3>3, <3>4 DEF Follows
    <3>6. t[i].depth <= t[i - 1].depth + 1 /\ (IsLeaf(t[i - 1]) => t[i].depth <= t[i - 1].depth)
      <4>1. \A x, y, z \in Nat : /\ x + z <= (y + z) + 1 => x <= y + 1
                                 /\ x + z <= y + z => x <= y
        OBVIOUS
      <4>2. t[i].depth \in Nat /\ t[i - 1].depth \in Nat /\ c \in Nat
        BY <1>3, <3>3
      <4>3. t[i].depth <= t[i - 1].depth + 1
        BY <3>5, <4>1, <4>2
      <4>4. ASSUME IsLeaf(t[i - 1]) PROVE t[i].depth <= t[i - 1].depth
        BY <3>5, <4>1, <4>2, <4>4
      <4> QED
        BY <4>3, <4>4
    <3> QED
      BY <3>3, <3>6 DEF Follows
  <2> QED
    BY <2>1, <2>2, <2>3, NestedFacts
<1>13. Full(t)
  <2>1. ASSUME NEW i \in 1 .. Len(t), ~IsLeaf(t[i]) PROVE i < Len(t) /\ i + 1 \in Kids(t, i)
    <3>1. i + c \in 1 .. Len(s) /\ t[i].kind = s[i + c].kind
      BY <1>6, <1>7
    <3>2. i + c < Len(s) /\ (i + c) + 1 \in Kids(s, i + c)
      BY <2>1, <3>1 DEF Full, IsLeaf
    <3>3. i < Len(t) /\ i + 1 \in 1 .. Len(t) /\ (i + 1) + c = (i + c) + 1
      BY <1>0, <1>3, <1>7, <3>2
    <3> QED
      BY <1>11, <3>2, <3>3
  <2> QED
    BY <2>1 DEF Full
<1>14. ~Single(t, 1)
  <2> SUFFICES ASSUME Single(t, 1) PROVE FALSE
    OBVIOUS
  <2>1. t[1].kind \in {"and", "or"} /\ \E j \in Kids(t, 1) : Kids(t, 1) = {j}
    BY DEF Single
  <2>2. PICK j \in Kids(t, 1) : Kids(t, 1) = {j}
    BY <2>1
  <2>3. 1 \in 1 .. Len(t) /\ 1 \in 1 .. Len(s) - c /\ 1 + c = m /\ j \in 1 .. Len(t)
    <3>1. 1 \in 1 .. Len(t) /\ 1 \in 1 .. Len(s) - c /\ 1 + c = m
      BY <1>3, <1>7
    <3>2. j \in DOMAIN t
      BY <1>9, <3>1, BelowFacts
    <3> QED
      BY <1>9, <3>1, <3>2
  <2>4. s[m].kind \in {"and", "or"}
    BY <1>6, <2>1, <2>3
  <2>5. j + c \in Kids(s, m)
    BY <1>11, <2>3
  <2>6. ASSUME NEW x \in Kids(s, m) PROVE x = j + c
    <3>1. x \in 1 .. Len(s) /\ m < x
      BY <1>0, <1>1, BelowFacts
    <3>2. x - c \in 1 .. Len(t) /\ (x - c) + c = x
      BY <1>0, <1>3, <1>7, <1>1, <3>1
    <3>3. x - c \in Kids(t, 1)
      BY <1>11, <2>3, <3>2
    <3> QED
      BY <2>2, <3>2, <3>3
  <2> QED
    BY <1>1, <2>4, <2>5, <2>6 DEF Single
<1>15. Lifted(t, s, Top(s) - 1) /\ Top(s) - 1 \in Nat
  BY <1>3, <1>8 DEF c, m
<1> QED
  BY <1>12, <1>13, <1>14, <1>15

-----------------------------------------------------------------------------
(* Filters: trees from texts and conditions, and texts from trees.         *)

LEMMA EscapeTyped ==
    ASSUME NEW v \in Values, NEW op
    PROVE  EscapeValue(op, v) \in Values
<1>1. CASE v.is \in {"word", "padded"} \/ (op = "=" /\ Wild(v))
  BY <1>1 DEF EscapeValue
<1>2. CASE ~(v.is \in {"word", "padded"} \/ (op = "=" /\ Wild(v)))
  <2>1. v \in [is : {"star", "pattern", "special"}, esc : Nat]
    BY <1>2 DEF Values
  <2>2. [v EXCEPT !.esc = @ + 1] \in [is : {"star", "pattern", "special"}, esc : Nat]
    BY <2>1
  <2>3. EscapeValue(op, v) = [v EXCEPT !.esc = @ + 1]
    BY <1>2 DEF EscapeValue
  <2> QED
    BY <2>2, <2>3 DEF Values
<1> QED
  BY <1>1, <1>2

LEMMA ValuesTyped == Word \in Values /\ Star \in Values /\ \A v \in Values : Trimmed(v) \in Values
<1>1. Word \in Values /\ Star \in Values
  BY DEF Word, Star, Values
<1>2. \A v \in Values : Trimmed(v) \in Values
  BY <1>1 DEF Trimmed
<1> QED
  BY <1>1, <1>2

LEMMA OperatorsTyped == "=" \in Operators /\ "" \in Operators
BY LiteralAssumption DEF Operators

\* How deep a row is printed.
Around(s, i) == {k \in Wrapped(s) : i \in Below(s, k)}
Shift(s, i) == Cardinality(Around(s, i))

LEMMA AroundFinite ==
    ASSUME NEW s, Deep(s), NEW i
    PROVE  IsFiniteSet(Around(s, i)) /\ Shift(s, i) \in Nat
<1>1. Len(s) \in Nat /\ DOMAIN s = 1 .. Len(s)
  BY DeepFacts
<1>2. IsFiniteSet(1 .. Len(s))
  BY <1>1, FS_Interval
<1>3. Around(s, i) \in SUBSET (1 .. Len(s))
  BY <1>1 DEF Around, Wrapped
<1> QED
  BY <1>2, <1>3, FS_Subset, FS_CardinalityType DEF Shift

LEMMA PrintedTyped ==
    ASSUME NEW s \in Seq(Nodes), NEW i \in DOMAIN s
    PROVE  Printed(s, i) \in Seq(TextRows)
<1>1. s[i] \in Nodes /\ Shift(s, i) \in Nat
  BY NodesDeep, AroundFinite
<1> DEFINE n == s[i]
           d == n.depth + Cardinality({k \in Wrapped(s) : i \in Below(s, k)})
<1>2. d \in Nat /\ d + 1 \in Nat
  <2>1. d = s[i].depth + Shift(s, i)
    BY DEF Shift, Around
  <2> QED
    BY <1>1, <2>1 DEF Nodes
<1> HIDE DEF d
<1>3. n.val \in Values /\ EscapeValue(n.op, n.val) \in Values /\ n.attr \in STRING /\ n.op \in Operators
  BY <1>1, EscapeTyped DEF Nodes
<1>4. Word \in Values /\ Star \in Values /\ "=" \in Operators /\ "" \in Operators
  BY ValuesTyped, OperatorsTyped
<1>5. ASSUME NEW v \in Values PROVE <<Item(n.attr, n.op, v, d)>> \in Seq(TextRows)
  <2>1. Item(n.attr, n.op, v, d) \in TextRows
    BY <1>2, <1>3 DEF Item, TextRows
  <2>2. \A a \in TextRows : <<a>> \in Seq(TextRows)
    OBVIOUS
  <2> QED
    BY <2>1, <2>2
<1>6. ASSUME NEW kind \in {"and", "or", "not"}, NEW e \in Nat PROVE Text(kind, e) \in TextRows
  BY <1>4, LiteralAssumption DEF Text, TextRows
<1>7. Item("objectClass", "=", Star, d + 1) \in TextRows
  BY <1>2, <1>4, LiteralAssumption DEF Item, TextRows
<1>8. Printed(s, i) =
        IF IsCond(n) THEN <<Item(n.attr, n.op, IF n.raw THEN n.val ELSE EscapeValue(n.op, n.val), d)>>
        ELSE IF i \in Wrapped(s) THEN <<Text("not", d), Text("and", d + 1)>>
        ELSE IF n.kind = "not" /\ Kids(s, i) = {}
             THEN <<Text("not", d), Item("objectClass", "=", Star, d + 1)>>
        ELSE <<Text(n.kind, d)>>
  BY DEF Printed, d
<1>9. IsCond(n) \/ n.kind \in {"and", "or", "not"}
  BY <1>1 DEF Nodes, IsCond
<1>10. CASE IsCond(n)
  BY <1>3, <1>5, <1>8, <1>10
<1>11. CASE ~IsCond(n)
  <2>1. Text("not", d) \in TextRows /\ Text("and", d + 1) \in TextRows /\ Text(n.kind, d) \in TextRows
    BY <1>2, <1>6, <1>9, <1>11
  <2>2. \A a, b \in TextRows : <<a>> \in Seq(TextRows) /\ <<a, b>> \in Seq(TextRows)
    OBVIOUS
  <2> QED
    BY <1>7, <1>8, <1>11, <2>1, <2>2
<1> QED
  BY <1>10, <1>11

LEMMA ToTextTyped ==
    ASSUME NEW s \in Seq(Nodes)
    PROVE  /\ [i \in DOMAIN s |-> Printed(s, i)] \in Seq(Seq(TextRows))
           /\ ToText(s) \in Seq(TextRows)
<1>1. [i \in DOMAIN s |-> Printed(s, i)] \in Seq(Seq(TextRows))
  <2>1. Len(s) \in Nat /\ DOMAIN s = 1 .. Len(s)
    OBVIOUS
  <2>2. \A i \in 1 .. Len(s) : Printed(s, i) \in Seq(TextRows)
    BY PrintedTyped
  <2> QED
    BY <2>1, <2>2
<1> QED
  BY <1>1, FlattenType DEF ToText

LEMMA OutputTyped ==
    ASSUME NEW s \in Seq(Nodes), Nested(s)
    PROVE  Output(s) \in Seq(TextRows)
<1>1. CASE ~Says(s, 1)
  BY <1>1 DEF Output, Blank
<1>2. CASE Says(s, 1)
  <2>1. PICK p : PrunedBy(Pruned(s), s, p)
    BY PrunedRows
  <2>2. Pruned(s) \in Seq(Nodes) /\ Nested(Pruned(s)) /\ Full(Pruned(s))
    <3>1. Pruned(s) \in Seq(Nodes)
      BY <2>1 DEF PrunedBy
    <3>2. Nested(Pruned(s)) /\ Full(Pruned(s))
      BY <1>2, <2>1, PrunedFacts
    <3> QED
      BY <3>1, <3>2
  <2>3. Collapsed(Pruned(s)) \in Seq(Nodes)
    BY <2>2, CollapsedFacts DEF Lifted
  <2> QED
    BY <1>2, <2>3, ToTextTyped DEF Output
<1> QED
  BY <1>1, <1>2

\* A row of a text as one of a tree.
AsNode(n) ==
    [kind |-> IF n.kind = "item" THEN "cond" ELSE n.kind, depth |-> n.depth,
     attr |-> n.attr, op |-> n.op, val |-> n.val, raw |-> n.kind = "item"]

LEMMA AsNodeFacts ==
    ASSUME NEW n \in TextRows, n.kind # "broken"
    PROVE  /\ AsNode(n) \in Nodes /\ n.kind \in {"and", "or", "not", "item"}
           /\ AsNode(n).depth = n.depth /\ AsNode(n).attr = n.attr
           /\ AsNode(n).op = n.op /\ AsNode(n).val = n.val
           /\ n.kind = "item" => AsNode(n).kind = "cond" /\ AsNode(n).raw
           /\ n.kind # "item" => AsNode(n).kind = n.kind /\ ~AsNode(n).raw
           /\ IsLeaf(AsNode(n)) <=> IsLeaf(n)
<1>1. /\ n.depth \in Nat /\ n.attr \in STRING /\ n.op \in Operators /\ n.val \in Values
      /\ n.kind \in {"and", "or", "not", "item"}
  BY DEF TextRows
<1>2. CASE n.kind = "item"
  <2>1. (n.kind = "item") = TRUE
    BY <1>2
  <2>2. AsNode(n) = [kind |-> "cond", depth |-> n.depth, attr |-> n.attr, op |-> n.op, val |-> n.val, raw |-> TRUE]
    BY <1>2, <2>1, Zenon DEF AsNode
  <2> QED
    BY <1>1, <1>2, <2>2 DEF Nodes, IsLeaf
<1>3. CASE n.kind # "item"
  <2>1. (n.kind = "item") = FALSE
    BY <1>3
  <2>2. AsNode(n) = [kind |-> n.kind, depth |-> n.depth, attr |-> n.attr, op |-> n.op, val |-> n.val, raw |-> FALSE]
    BY <1>3, <2>1, Zenon DEF AsNode
  <2> QED
    BY <1>1, <1>3, <2>2 DEF Nodes, IsLeaf
<1> QED
  BY <1>2, <1>3

LEMMA ParsedPiece ==
    ASSUME NEW t \in Seq(TextRows), Sound(t)
    PROVE  /\ Piece(Parsed(t)) /\ Len(Parsed(t)) = Len(t)
           /\ \A i \in 1 .. Len(t) : Parsed(t)[i] = AsNode(t[i]) /\ t[i].kind # "broken"
<1> DEFINE s == Parsed(t)
<1>0. Len(t) \in Nat /\ DOMAIN t = 1 .. Len(t) /\ \A i \in 1 .. Len(t) : t[i] \in TextRows
  OBVIOUS
<1>1. s = [i \in 1 .. Len(t) |-> AsNode(t[i])]
  BY <1>0, Zenon DEF Parsed, AsNode
<1>2. ASSUME NEW i \in 1 .. Len(t)
      PROVE  /\ s[i] \in Nodes /\ Escaped(s[i]) /\ t[i].kind # "broken" /\ s[i] = AsNode(t[i])
             /\ s[i].depth = t[i].depth /\ (IsLeaf(s[i]) <=> IsLeaf(t[i]))
  <2> HIDE DEF s
  <2>1. t[i] \in TextRows /\ t[i].kind # "broken"
        /\ (t[i].kind = "item" => (t[i].val.is = "special" => t[i].val.esc > 0))
    BY <1>0 DEF Sound
  <2>2. s[i] = AsNode(t[i])
    BY <1>1
  <2>3. Escaped(s[i])
    BY <2>1, <2>2, AsNodeFacts DEF Escaped
  <2> QED
    BY <2>1, <2>2, <2>3, AsNodeFacts
<1>3. s \in Seq(Nodes) /\ Len(s) = Len(t)
  <2>1. DOMAIN s = 1 .. Len(t) /\ s = [i \in 1 .. Len(t) |-> s[i]]
    BY <1>1
  <2> HIDE DEF s
  <2> QED
    BY <1>0, <1>2, <2>1
<1>4. Nested(t)
  BY DEF Sound
<1> HIDE DEF s
<1>5. Nested(s)
  <2>1. t # <<>> /\ t[1].depth = 0 /\ Len(t) >= 1
    <3>1. t # <<>> /\ t[1].depth = 0
      BY <1>4, NestedFacts
    <3> QED
      BY <3>1
  <2>2. s # <<>> /\ s[1].depth = 0
    BY <1>0, <1>2, <1>3, <2>1
  <2>3. ASSUME NEW i \in 2 .. Len(s) PROVE Follows(s[i - 1], s[i])
    <3>1. i \in 2 .. Len(t) /\ i - 1 \in 1 .. Len(t) /\ i \in 1 .. Len(t)
      BY <1>0, <1>3
    <3>2. Follows(t[i - 1], t[i])
      BY <1>4, <3>1, NestedFacts
    <3> QED
      BY <1>2, <3>1, <3>2 DEF Follows
  <2> QED
    BY <2>2, <2>3, NestedFacts
<1>6. Piece(s)
  BY <1>2, <1>3, <1>5 DEF Piece
<1> QED
  BY <1>1, <1>2, <1>3, <1>6 DEF s

LEMMA GroupTyped ==
    \A kind \in {"and", "or", "not"} :
       /\ Group(kind) \in Nodes /\ Group(kind).kind = kind /\ Group(kind).depth = 0 /\ Escaped(Group(kind))
BY ValuesTyped, OperatorsTyped, LiteralAssumption DEF Group, Nodes, Escaped

LEMMA SinglePiece ==
    ASSUME NEW n \in Nodes, n.depth = 0, Escaped(n)
    PROVE  Piece(<<n>>) /\ Len(<<n>>) = 1 /\ <<n>>[1] = n
<1>1. <<n>> \in Seq(Nodes) /\ Len(<<n>>) = 1 /\ <<n>>[1] = n
  OBVIOUS
<1> DEFINE s == <<n>>
<1> HIDE DEF s
<1>2. s \in Seq(Nodes) /\ Len(s) = 1 /\ s[1] = n
  BY <1>1 DEF s
<1>3. Nested(s)
  <2>1. s # <<>> /\ s[1].depth = 0 /\ \A i \in 2 .. Len(s) : FALSE
    BY <1>2
  <2> QED
    BY <2>1, NestedFacts
<1>4. Piece(s)
  BY <1>2, <1>3 DEF Piece
<1> QED
  BY <1>1, <1>4 DEF s

\* r is x and then d.
Leads(r, x, d) == Len(r) = Len(d) + 1 /\ r[1] = x /\ \A k \in 1 .. Len(d) : r[k + 1] = d[k]

LEMMA FirstFacts ==
    ASSUME NEW S, NEW x \in S, NEW d \in Seq(S)
    PROVE  <<x>> \o d \in Seq(S) /\ Leads(<<x>> \o d, x, d)
<1> DEFINE g == <<x>>
           r == g \o d
<1>1. g \in Seq(S) /\ Len(g) = 1 /\ g[1] = x /\ r = g \o d /\ Len(d) \in Nat
  OBVIOUS
<1> HIDE DEF g, r
<1>2. g \o d \in Seq(S) /\ Len(g \o d) = Len(g) + Len(d)
  BY <1>1, ConcatProperties
<1>3. r[1] = x
  <2>1. 1 \in 1 .. Len(g) + Len(d) /\ 1 <= Len(g)
    BY <1>1
  <2>2. (g \o d)[1] = g[1]
    BY <1>1, <2>1, ConcatProperties
  <2> QED
    BY <1>1, <2>2
<1>4. ASSUME NEW k \in 1 .. Len(d) PROVE r[k + 1] = d[k]
  <2> DEFINE m == k + 1
  <2>1. m \in 1 .. Len(g) + Len(d) /\ ~(m <= Len(g)) /\ m - Len(g) = k
    BY <1>1
  <2> HIDE DEF m
  <2>2. (g \o d)[m] = d[m - Len(g)]
    BY <1>1, <2>1, ConcatProperties
  <2>3. r[m] = d[k]
    BY <1>1, <2>1, <2>2
  <2> QED
    BY <2>3 DEF m
<1>5. r \in Seq(S) /\ Leads(r, x, d)
  BY <1>1, <1>2, <1>3, <1>4 DEF Leads
<1> QED
  BY <1>5 DEF r, g

\* A piece under a group.
LEMMA UnderGroup ==
    ASSUME NEW s, Piece(s), NEW kind \in {"and", "or", "not"}, NEW r, r = <<Group(kind)>> \o Deeper(s, 1)
    PROVE  /\ Piece(r) /\ Len(r) = Len(s) + 1 /\ r[1] = Group(kind)
           /\ Lifted(s, r, 1)
<1> DEFINE d == Deeper(s, 1)
<1>0. s \in Seq(Nodes) /\ Len(s) \in Nat /\ Len(s) >= 1 /\ Nested(s) /\ s[1].depth = 0
      /\ \A k \in 1 .. Len(s) : s[k] \in Nodes /\ s[k].depth \in Nat
  <2>1. s \in Seq(Nodes) /\ s # <<>> /\ Nested(s) /\ s[1].depth = 0
    BY DEF Piece, Nested
  <2> QED
    BY <2>1, NodesDeep, DeepFacts
<1>2. /\ d \in Seq(Nodes) /\ Len(d) = Len(s)
      /\ \A k \in 1 .. Len(s) : d[k] = [s[k] EXCEPT !.depth = @ + 1] /\ d[k].depth = s[k].depth + 1 /\ Escaped(d[k])
      /\ \A k \in 2 .. Len(s) : Follows(d[k - 1], d[k])
  <2>1. \A k \in 2 .. Len(s) : Follows(s[k - 1], s[k])
    BY <1>0, NestedFacts
  <2> QED
    BY <1>0, <2>1, DeeperFacts DEF Piece
<1> HIDE DEF d
<1>3. r \in Seq(Nodes) /\ Len(r) = Len(d) + 1 /\ r[1] = Group(kind) /\ \A k \in 1 .. Len(d) : r[k + 1] = d[k]
  <2>1. r = <<Group(kind)>> \o d
    BY DEF d
  <2>2. Group(kind) \in Nodes /\ d \in Seq(Nodes)
    BY <1>2, GroupTyped
  <2>3. r \in Seq(Nodes) /\ Leads(r, Group(kind), d)
    BY <2>1, <2>2, FirstFacts
  <2> QED
    BY <2>3 DEF Leads
<1>4. r \in Seq(Nodes) /\ Len(r) = Len(s) + 1
  BY <1>2, <1>3
<1>5. r[1] = Group(kind)
  BY <1>3
<1>6. \A k \in 1 .. Len(s) : r[k + 1] = d[k]
  BY <1>2, <1>3
<1>7. Nested(r)
  <2>1. r # <<>> /\ r[1].depth = 0
    BY <1>0, <1>4, <1>5, GroupTyped
  <2>2. ASSUME NEW i \in 2 .. Len(r) PROVE Follows(r[i - 1], r[i])
    <3>1. CASE i = 2
      <4>1. 1 \in 1 .. Len(s) /\ i - 1 = 1
        BY <1>0, <3>1
      <4>2. r[2] = d[1] /\ d[1].depth = 1
        <5>1. r[1 + 1] = d[1] /\ d[1].depth = s[1].depth + 1
          BY <1>2, <1>6, <4>1
        <5> QED
          BY <1>0, <5>1
      <4>3. r[1].depth = 0 /\ ~IsLeaf(r[1])
        BY <1>5, GroupTyped DEF IsLeaf
      <4> QED
        BY <3>1, <4>1, <4>2, <4>3 DEF Follows
    <3>2. CASE i # 2
      <4>1. i - 1 \in 2 .. Len(s) /\ i - 1 \in 1 .. Len(s) /\ (i - 1) - 1 \in 1 .. Len(s)
            /\ (i - 1) + 1 = i /\ ((i - 1) - 1) + 1 = i - 1
        BY <1>0, <1>4, <3>2
      <4>2. Follows(d[(i - 1) - 1], d[i - 1])
        BY <1>2, <4>1
      <4>3. r[(i - 1) + 1] = d[i - 1] /\ r[((i - 1) - 1) + 1] = d[(i - 1) - 1]
        BY <1>6, <4>1
      <4> QED
        BY <4>1, <4>2, <4>3
    <3> QED
      BY <3>1, <3>2
  <2> QED
    BY <2>1, <2>2, NestedFacts
<1>8. ASSUME NEW i \in 1 .. Len(r) PROVE Escaped(r[i])
  <2>1. CASE i = 1
    BY <1>5, <2>1, GroupTyped
  <2>2. CASE i # 1
    <3>1. i - 1 \in 1 .. Len(s) /\ (i - 1) + 1 = i
      BY <1>0, <1>4, <2>2
    <3>2. r[(i - 1) + 1] = d[i - 1] /\ Escaped(d[i - 1])
      BY <1>2, <1>6, <3>1
    <3> QED
      BY <3>1, <3>2
  <2> QED
    BY <2>1, <2>2
<1>9. Lifted(s, r, 1)
  <2>1. ASSUME NEW a \in 1 .. Len(s)
        PROVE  s[a] = [r[a + 1] EXCEPT !.depth = @ - 1] /\ r[a + 1].depth = s[a].depth + 1
    <3>0. r[a + 1].depth = s[a].depth + 1
      BY <1>2, <1>6
    <3>1. r[a + 1] = [s[a] EXCEPT !.depth = @ + 1] /\ s[a] \in Nodes /\ s[a].depth \in Nat
      BY <1>0, <1>2, <1>6
    <3>2. r[a + 1].depth = s[a].depth + 1 /\ r[a + 1].depth - 1 = s[a].depth
      <4>1. \A x \in Nat : (x + 1) - 1 = x
        OBVIOUS
      <4> QED
        BY <3>0, <3>1, <4>1
    <3>3. [r[a + 1] EXCEPT !.depth = s[a].depth] = s[a]
      BY <3>1 DEF Nodes
    <3> QED
      BY <3>2, <3>3
  <2>2. Len(s) = Len(r) - 1
    BY <1>0, <1>4
  <2> QED
    BY <1>0, <2>1, <2>2 DEF Lifted
<1> QED
  BY <1>4, <1>5, <1>7, <1>8, <1>9 DEF Piece

LEMMA EmptyTree == Tree(Empty) /\ Len(Empty) = 1
<1>1. Group("and") \in Nodes /\ Group("and").kind = "and" /\ Group("and").depth = 0 /\ Escaped(Group("and"))
  BY GroupTyped
<1>2. Piece(<<Group("and")>>) /\ Len(<<Group("and")>>) = 1 /\ <<Group("and")>>[1] = Group("and")
  BY <1>1, SinglePiece
<1> QED
  BY <1>1, <1>2 DEF Tree, Empty

LEMMA RootedTree ==
    ASSUME NEW s, Piece(s)
    PROVE  Tree(Rooted(s))
<1>1. CASE s[1].kind \in {"cond", "not"}
  <2>1. Rooted(s) = <<Group("and")>> \o Deeper(s, 1)
    BY <1>1 DEF Rooted, Empty
  <2>2. Piece(Rooted(s)) /\ Rooted(s)[1] = Group("and")
    BY <2>1, UnderGroup
  <2> QED
    BY <2>2, GroupTyped DEF Tree
<1>2. CASE s[1].kind \notin {"cond", "not"}
  <2>1. s[1] \in Nodes
    <3>1. s \in Seq(Nodes) /\ s # <<>>
      BY DEF Piece, Nested
    <3>2. 1 \in DOMAIN s
      BY <3>1
    <3> QED
      BY <3>1, <3>2
  <2>2. s[1].kind \in {"and", "or"}
    BY <1>2, <2>1 DEF Nodes
  <2> QED
    BY <1>2, <2>2 DEF Tree, Rooted
<1> QED
  BY <1>1, <1>2

LEMMA TreeOfTree ==
    ASSUME NEW t \in Seq(TextRows)
    PROVE  Tree(TreeOf(t))
<1>1. CASE Sound(t)
  BY <1>1, ParsedPiece, RootedTree DEF TreeOf
<1>2. CASE ~Sound(t)
  BY <1>2, EmptyTree DEF TreeOf
<1> QED
  BY <1>1, <1>2

LEMMA ConditionPiece ==
    ASSUME NEW e \in Exprs
    PROVE  Piece(ParseCondition(e))
<1> DEFINE c == IF e.op = "present" THEN NewCond(e.attr, "=", Star)
                ELSE NewCond(e.attr, e.op, Trimmed(e.val))
<1>1. e.attr \in STRING /\ e.op \in STRING /\ e.val \in Values
  BY DEF Exprs
<1>2. Trimmed(e.val) \in Values /\ Star \in Values /\ "=" \in Operators
  BY <1>1, ValuesTyped, OperatorsTyped
<1>3. c \in Nodes /\ c.depth = 0 /\ Escaped(c)
  <2>1. \A op \in Operators, v \in Values :
           NewCond(e.attr, op, v) \in Nodes /\ NewCond(e.attr, op, v).depth = 0 /\ Escaped(NewCond(e.attr, op, v))
    BY <1>1 DEF NewCond, Nodes, Escaped
  <2>2. e.op # "present" => e.op \in Operators
    BY <1>1 DEF Operators
  <2> QED
    BY <1>2, <2>1, <2>2
<1> HIDE DEF c
<1>4. Piece(<<c>>)
  BY <1>3, SinglePiece
<1>5. Piece(<<Group("not")>> \o Deeper(<<c>>, 1))
  BY <1>4, UnderGroup
<1>6. ParseCondition(e) = IF e.neg THEN <<Group("not")>> \o Deeper(<<c>>, 1) ELSE <<c>>
  BY DEF ParseCondition, c
<1> QED
  BY <1>4, <1>5, <1>6

LEMMA CondExprTyped ==
    ASSUME NEW n \in Nodes
    PROVE  CondExpr(n) \in Exprs
<1>1. n.attr \in STRING /\ n.op \in STRING /\ n.val \in Values
  BY DEF Nodes, Operators
<1>2. \A op \in STRING, v \in Values : Expr(FALSE, n.attr, op, v) \in Exprs
  BY <1>1 DEF Expr, Exprs
<1> QED
  BY <1>1, <1>2, ValuesTyped, LiteralAssumption DEF CondExpr

-----------------------------------------------------------------------------
(* Filters: what trees and texts mean.                                     *)

\* Whether row i holds when H says which rows below it do.
Verdict(s, leaf, kids, H, i) ==
    \/ s[i].kind \in {"cond", "item"} /\ i \in leaf
    \/ s[i].kind = "and" /\ \A j \in kids[i] : H[j]
    \/ s[i].kind = "or" /\ \E j \in kids[i] : H[j]
    \/ s[i].kind = "not" /\ ~\A j \in kids[i] : H[j]

Judges(H, s, leaf, kids) == \A i \in DOMAIN s : H[i] <=> Verdict(s, leaf, kids, H, i)

\* The rows that count for a row come after it.
Judgeable(s, kids) ==
    /\ Len(s) \in Nat /\ DOMAIN s = 1 .. Len(s) /\ 1 \in DOMAIN s
    /\ \A i \in 1 .. Len(s) : s[i].kind \in {"and", "or", "not", "cond", "item"}
    /\ \A i \in 1 .. Len(s) : \A j \in kids[i] : j \in i + 1 .. Len(s)

LEMMA VerdictFacts ==
    ASSUME NEW s, NEW leaf, NEW kids, NEW H, NEW i
    PROVE  /\ IsLeaf(s[i]) => (Verdict(s, leaf, kids, H, i) <=> i \in leaf)
           /\ s[i].kind = "and" => (Verdict(s, leaf, kids, H, i) <=> \A j \in kids[i] : H[j])
           /\ s[i].kind = "or" => (Verdict(s, leaf, kids, H, i) <=> \E j \in kids[i] : H[j])
           /\ s[i].kind = "not" => (Verdict(s, leaf, kids, H, i) <=> ~\A j \in kids[i] : H[j])
<1>1. ASSUME IsLeaf(s[i]) PROVE Verdict(s, leaf, kids, H, i) <=> i \in leaf
  <2>1. s[i].kind = "cond" \/ s[i].kind = "item"
    BY <1>1 DEF IsLeaf
  <2> QED
    BY <2>1 DEF Verdict
<1>2. ASSUME s[i].kind = "and" PROVE Verdict(s, leaf, kids, H, i) <=> \A j \in kids[i] : H[j]
  BY <1>2 DEF Verdict
<1>3. ASSUME s[i].kind = "or" PROVE Verdict(s, leaf, kids, H, i) <=> \E j \in kids[i] : H[j]
  BY <1>3 DEF Verdict
<1>4. ASSUME s[i].kind = "not" PROVE Verdict(s, leaf, kids, H, i) <=> ~\A j \in kids[i] : H[j]
  BY <1>4 DEF Verdict
<1> QED
  BY <1>1, <1>2, <1>3, <1>4

\* The verdict on a row is decided by those on the rows that count for it.
LEMMA VerdictOf ==
    ASSUME NEW s, NEW leaf, NEW kids, NEW H, NEW G, NEW i,
           s[i].kind \in {"and", "or", "not", "cond", "item"}, \A j \in kids[i] : H[j] <=> G[j]
    PROVE  Verdict(s, leaf, kids, H, i) <=> Verdict(s, leaf, kids, G, i)
<1>1. CASE IsLeaf(s[i])
  BY <1>1, VerdictFacts
<1>2. CASE s[i].kind = "and"
  BY <1>2, VerdictFacts
<1>3. CASE s[i].kind = "or"
  BY <1>3, VerdictFacts
<1>4. CASE s[i].kind = "not"
  BY <1>4, VerdictFacts
<1> QED
  BY <1>1, <1>2, <1>3, <1>4 DEF IsLeaf

LEMMA VerdictsExist ==
    ASSUME NEW s, NEW leaf, NEW kids, Judgeable(s, kids)
    PROVE  \E H \in [DOMAIN s -> BOOLEAN] : Judges(H, s, leaf, kids)
<1>0. /\ Len(s) \in Nat /\ DOMAIN s = 1 .. Len(s)
      /\ \A i \in 1 .. Len(s) : s[i].kind \in {"and", "or", "not", "cond", "item"}
      /\ \A i \in 1 .. Len(s) : \A j \in kids[i] : j \in i + 1 .. Len(s)
  BY DEF Judgeable
<1> DEFINE V == [1 .. Len(s) -> BOOLEAN]
           Next1(n, H) == [i \in 1 .. Len(s) |-> IF i = Len(s) - n THEN Verdict(s, leaf, kids, H, i) = TRUE ELSE H[i]]
           none == [i \in 1 .. Len(s) |-> FALSE]
           g == [n \in Nat |-> [H \in V |-> Next1(n, H)]]
<1>1. ASSUME NEW n \in Nat, NEW H \in V PROVE Next1(n, H) \in V
  <2>1. ASSUME NEW i \in 1 .. Len(s)
        PROVE  (IF i = Len(s) - n THEN Verdict(s, leaf, kids, H, i) = TRUE ELSE H[i]) \in BOOLEAN
    <3>1. (Verdict(s, leaf, kids, H, i) = TRUE) \in BOOLEAN
      BY Zenon
    <3>2. H[i] \in BOOLEAN
      BY Zenon
    <3> QED
      BY <3>1, <3>2, Zenon
  <2> QED
    BY <2>1, Zenon
<1>2. g \in [Nat -> [V -> V]] /\ none \in V
  <2>1. none \in V
    BY Zenon
  <2> HIDE DEF V, Next1
  <2>2. \A n \in Nat : [H \in V |-> Next1(n, H)] \in [V -> V]
    BY <1>1
  <2> QED
    BY <2>1, <2>2
<1>3. PICK f : Recursive(f, V, none, g)
  <2> HIDE DEF V, g, none
  <2> QED
    BY <1>2, Recursion
<1>4. \A n \in Nat : f[n] \in V /\ f[n + 1] = Next1(n, f[n])
  <2> HIDE DEF V, Next1, none
  <2>1. \A n \in Nat : f[n] \in V /\ f[n + 1] = g[n][f[n]]
    BY <1>3 DEF Recursive
  <2> QED
    BY <2>1
<1>5. ASSUME NEW n \in Nat, NEW i \in 1 .. Len(s), i # Len(s) - n PROVE f[n + 1][i] = f[n][i]
  <2>1. Next1(n, f[n])[i] = f[n][i]
    BY <1>5, Zenon
  <2> HIDE DEF Next1
  <2> QED
    BY <1>4, <2>1
<1>6. ASSUME NEW n \in Nat, NEW i \in 1 .. Len(s), i = Len(s) - n
      PROVE  f[n + 1][i] <=> Verdict(s, leaf, kids, f[n], i)
  <2>1. Next1(n, f[n])[i] = (Verdict(s, leaf, kids, f[n], i) = TRUE)
    BY <1>6, Zenon
  <2> HIDE DEF Next1
  <2>2. f[n + 1][i] = (Verdict(s, leaf, kids, f[n], i) = TRUE)
    BY <1>4, <2>1
  <2>3. Verdict(s, leaf, kids, f[n], i) \in BOOLEAN
    BY Zenon DEF Verdict
  <2> QED
    BY <2>2, <2>3, Zenon
<1> HIDE DEF Next1, g, none
<1>7. ASSUME NEW i \in 1 .. Len(s), NEW n \in Nat PROVE f[(Len(s) - i) + 1 + n][i] = f[(Len(s) - i) + 1][i]
  <2> DEFINE b == (Len(s) - i) + 1
             T == {k \in Nat : f[b + k][i] = f[b][i]}
  <2>0. b \in Nat
    BY <1>0
  <2>1. 0 \in T
    <3> HIDE DEF b
    <3>1. b + 0 = b
      BY <2>0
    <3> QED
      BY <3>1
  <2>2. ASSUME NEW k \in Nat, k \in T PROVE k + 1 \in T
    <3>1. b + k \in Nat /\ i # Len(s) - (b + k) /\ (b + k) + 1 = b + (k + 1)
      BY <1>0
    <3> HIDE DEF b
    <3>2. f[(b + k) + 1][i] = f[b + k][i]
      BY <1>5, <3>1
    <3> QED
      BY <2>2, <3>1, <3>2
  <2> HIDE DEF T, b
  <2>3. n \in T
    BY <2>1, <2>2, SetInduction
  <2> QED
    BY <2>3 DEF T, b
<1> DEFINE H == f[Len(s) + 1]
<1>8. H \in V
  <2>1. Len(s) + 1 \in Nat
    BY <1>0
  <2> HIDE DEF V
  <2> QED
    BY <1>4, <2>1
<1>9. ASSUME NEW i \in 1 .. Len(s), NEW m \in Nat, m > Len(s) - i, m <= Len(s) + 1 PROVE f[m][i] = H[i]
  <2>1. m - ((Len(s) - i) + 1) \in Nat /\ (Len(s) - i) + 1 + (m - ((Len(s) - i) + 1)) = m
        /\ i \in Nat /\ (Len(s) - i) + 1 + i = Len(s) + 1
    BY <1>0, <1>9
  <2>2. f[(Len(s) - i) + 1 + (m - ((Len(s) - i) + 1))][i] = f[(Len(s) - i) + 1][i]
    BY <1>7, <2>1
  <2>3. f[(Len(s) - i) + 1 + i][i] = f[(Len(s) - i) + 1][i]
    BY <1>7, <2>1
  <2> QED
    BY <2>1, <2>2, <2>3
<1> HIDE DEF H
<1>10. ASSUME NEW i \in 1 .. Len(s) PROVE H[i] <=> Verdict(s, leaf, kids, H, i)
  <2> DEFINE n == Len(s) - i
  <2>1. n \in Nat /\ i = Len(s) - n /\ n + 1 \in Nat /\ n + 1 > Len(s) - i /\ n + 1 <= Len(s) + 1
    BY <1>0
  <2> HIDE DEF n
  <2>2. f[n + 1][i] <=> Verdict(s, leaf, kids, f[n], i)
    BY <1>6, <2>1
  <2>3. f[n + 1][i] = H[i]
    BY <1>9, <2>1
  <2>4. ASSUME NEW j \in kids[i] PROVE f[n][j] = H[j]
    <3>1. j \in 1 .. Len(s) /\ n > Len(s) - j /\ n <= Len(s) + 1
      BY <1>0, <2>1 DEF n
    <3> QED
      BY <1>9, <2>1, <3>1
  <2>5. Verdict(s, leaf, kids, f[n], i) <=> Verdict(s, leaf, kids, H, i)
    BY <1>0, <2>4, VerdictOf
  <2> QED
    BY <2>2, <2>3, <2>5, Zenon
<1>11. Judges(H, s, leaf, kids)
  BY <1>0, <1>10 DEF Judges
<1> QED
  BY <1>0, <1>8, <1>11

-----------------------------------------------------------------------------
(* The filter builder's invariant.                                         *)

Offered(asks, offer) ==
    /\ asks \in {"add", "edit", "raw"}
    /\ asks = "edit" => offer \in Exprs
    /\ asks = "raw" => offer \in Seq(TextRows)

Message(m) ==
    \/ m.kind = "open" /\ Offered(m.asks, m.offer)
    \/ m.kind \in {"add", "edit"} /\ m.what \in Exprs
    \/ m.kind = "raw" /\ m.what \in Seq(TextRows)

\* The tree is one whose parsed special values stand escaped, what is offered
\* and answered is a condition or a text, and nothing is posted while a prompt
\* is open.
BuilderInv ==
    /\ building \in BOOLEAN /\ handed \in Seq(TextRows)
    /\ Tree(root) /\ cur \in DOMAIN root
    /\ prompt = NoPrompt \/ Offered(prompt.asks, prompt.offer)
    /\ prompt # NoPrompt => posted = {}
    /\ posted = {} \/ \E m : posted = {m} /\ Message(m)

LEMMA TreeFacts ==
    ASSUME NEW s, Tree(s)
    PROVE  /\ s \in Seq(Nodes) /\ Deep(s) /\ Nested(s) /\ Len(s) \in Nat /\ DOMAIN s = 1 .. Len(s)
           /\ 1 \in DOMAIN s /\ s[1].kind \in {"and", "or"} /\ s[1].depth = 0
           /\ \A i \in 1 .. Len(s) : s[i] \in Nodes /\ Escaped(s[i])
<1>1. s \in Seq(Nodes) /\ Nested(s) /\ s # <<>> /\ s[1].depth = 0 /\ s[1].kind \in {"and", "or"}
      /\ \A i \in 1 .. Len(s) : Escaped(s[i])
  BY DEF Tree, Piece, Nested
<1> QED
  BY <1>1, NodesDeep

LEMMA ToggledTree ==
    ASSUME NEW s, Tree(s), NEW i \in DOMAIN s, s[i].kind \in {"and", "or"}, NEW kind \in {"and", "or"}
    PROVE  Tree([s EXCEPT ![i].kind = kind]) /\ DOMAIN [s EXCEPT ![i].kind = kind] = DOMAIN s
<1> DEFINE t == [s EXCEPT ![i].kind = kind]
<1>1. s \in Seq(Nodes) /\ Nested(s) /\ Len(s) \in Nat /\ DOMAIN s = 1 .. Len(s)
      /\ 1 \in DOMAIN s /\ s[1].kind \in {"and", "or"} /\ s[1].depth = 0
      /\ \A k \in 1 .. Len(s) : s[k] \in Nodes /\ Escaped(s[k])
  BY TreeFacts
<1>2. /\ DOMAIN t = DOMAIN s /\ t[i] = [s[i] EXCEPT !.kind = kind]
      /\ \A k \in 1 .. Len(s) : k # i => t[k] = s[k]
  BY <1>1
<1>3. t \in Seq(Nodes) /\ Len(t) = Len(s)
  <2>1. [s[i] EXCEPT !.kind = kind] \in Nodes
    BY <1>1 DEF Nodes
  <2> QED
    BY <1>1, <2>1
<1> HIDE DEF t
<1>4. ASSUME NEW k \in 1 .. Len(s)
      PROVE  t[k].depth = s[k].depth /\ Escaped(t[k]) /\ (IsLeaf(t[k]) <=> IsLeaf(s[k]))
             /\ (s[k].kind \in {"and", "or"} => t[k].kind \in {"and", "or"})
  <2>1. CASE k = i
    <3>1. t[k] = [s[k] EXCEPT !.kind = kind] /\ s[k] \in Nodes /\ Escaped(s[k]) /\ s[k].kind \in {"and", "or"}
      BY <1>1, <1>2, <2>1
    <3> QED
      BY <3>1 DEF Nodes, Escaped, IsLeaf
  <2>2. CASE k # i
    BY <1>1, <1>2, <2>2
  <2> QED
    BY <2>1, <2>2
<1>5. Nested(t)
  <2>1. t # <<>> /\ t[1].depth = 0
    BY <1>1, <1>2, <1>3, <1>4
  <2>2. ASSUME NEW k \in 2 .. Len(t) PROVE Follows(t[k - 1], t[k])
    <3>1. k \in 2 .. Len(s) /\ k - 1 \in 1 .. Len(s) /\ k \in 1 .. Len(s)
      BY <1>1, <1>3
    <3>2. Follows(s[k - 1], s[k])
      BY <1>1, <3>1, NestedFacts
    <3> QED
      BY <1>4, <3>1, <3>2 DEF Follows
  <2> QED
    BY <2>1, <2>2, NestedFacts
<1>6. Tree(t)
  BY <1>1, <1>3, <1>4, <1>5 DEF Tree, Piece
<1> QED
  BY <1>2, <1>6 DEF t

LEMMA TargetFacts ==
    ASSUME Tree(root), cur \in DOMAIN root
    PROVE  Target \in DOMAIN root /\ ~IsCond(root[Target])
<1>1. CASE IsCond(root[cur])
  <2>1. cur \in 2 .. Len(root)
    <3>1. cur # 1
      BY <1>1, TreeFacts DEF IsCond
    <3> QED
      BY <3>1, TreeFacts
  <2>2. Parent(root, cur) \in DOMAIN root /\ ~IsLeaf(root[Parent(root, cur)])
    BY <2>1, TreeFacts, ParentFacts
  <2> QED
    BY <1>1, <2>2 DEF Target, Selected, IsLeaf, IsCond
<1>2. CASE ~IsCond(root[cur])
  BY <1>2 DEF Target, Selected
<1> QED
  BY <1>1, <1>2

LEMMA BuilderInitially == BuilderInit => BuilderInv
<1>1. <<>> \in Seq(TextRows) /\ 1 \in DOMAIN Empty
  BY EmptyTree, TreeFacts
<1> QED
  BY <1>1, EmptyTree DEF BuilderInit, BuilderInv, Blank

LEMMA BuilderKeys ==
    ASSUME BuilderInv, Move \/ Toggle \/ Delete \/ Use \/ Leave \/ \E kind \in {"and", "or", "not"} : AddGroup(kind)
    PROVE  BuilderInv'
<1>0. Tree(root) /\ cur \in DOMAIN root
  BY DEF BuilderInv
<1>1. CASE Move
  <2>1. cur' \in DOMAIN root
    BY <1>1 DEF Move
  <2> QED
    BY <1>1, <2>1 DEF Move, BuilderInv
<1>2. CASE Toggle
  <2>1. PICK kind \in {"and", "or"} : root' = [root EXCEPT ![cur].kind = kind]
    <3>1. root' = [root EXCEPT ![cur].kind = IF @ = "and" THEN "or" ELSE "and"]
      BY <1>2 DEF Toggle
    <3>2. CASE root[cur].kind = "and"
      <4>1. root' = [root EXCEPT ![cur].kind = "or"]
        BY <3>1, <3>2
      <4> QED
        BY <4>1
    <3>3. CASE root[cur].kind # "and"
      <4>1. root' = [root EXCEPT ![cur].kind = "and"]
        BY <3>1, <3>3
      <4> QED
        BY <4>1
    <3> QED
      BY <3>2, <3>3
  <2>2. Tree(root') /\ DOMAIN root' = DOMAIN root
    <3>1. root[cur].kind \in {"and", "or"}
      BY <1>2 DEF Toggle, Selected
    <3>2. Tree([root EXCEPT ![cur].kind = kind]) /\ DOMAIN [root EXCEPT ![cur].kind = kind] = DOMAIN root
      BY <1>0, <3>1, ToggledTree
    <3> QED
      BY <2>1, <3>2
  <2> QED
    BY <1>2, <2>2 DEF Toggle, BuilderInv
<1>3. CASE Delete
  <2>1. cur \in 2 .. Len(root)
    BY <1>0, <1>3, TreeFacts DEF Delete
  <2>2. Tree(root') /\ cur' \in DOMAIN root'
    <3>1. Tree(Removed(root, cur)) /\ cur - 1 \in DOMAIN Removed(root, cur)
      BY <1>0, <2>1, RemovedTree
    <3>2. root' = Removed(root, cur) /\ cur' = cur - 1
      BY <1>3, <2>1 DEF Delete, CursorAfterDelete
    <3> QED
      BY <3>1, <3>2
  <2> QED
    BY <1>3, <2>2 DEF Delete, BuilderInv
<1>4. CASE Use
  <2>1. Output(root) \in Seq(TextRows)
    BY <1>0, TreeFacts, OutputTyped
  <2> QED
    BY <1>4, <2>1 DEF Use, BuilderInv
<1>5. CASE Leave
  BY <1>5 DEF Leave, BuilderInv
<1>6. CASE \E kind \in {"and", "or", "not"} : AddGroup(kind)
  <2>1. PICK kind \in {"and", "or", "not"} : AddGroup(kind)
    BY <1>6
  <2>2. Piece(<<Group(kind)>>)
    BY GroupTyped, SinglePiece
  <2>3. Target \in DOMAIN root /\ ~IsCond(root[Target])
    BY <1>0, TargetFacts
  <2>4. Tree(root') /\ cur' \in DOMAIN root'
    <3>1. Tree(Add(root, Target, <<Group(kind)>>)) /\ End(root, Target) + 1 \in DOMAIN Add(root, Target, <<Group(kind)>>)
      BY <1>0, <2>2, <2>3, AddTree
    <3> QED
      BY <2>1, <3>1 DEF AddGroup
  <2> QED
    BY <2>1, <2>4 DEF AddGroup, BuilderInv
<1> QED
  BY <1>1, <1>2, <1>3, <1>4, <1>5, <1>6

LEMMA BuilderOpens ==
    ASSUME BuilderInv, Ask \/ OpenBuilder
    PROVE  BuilderInv'
<1>0. Tree(root) /\ cur \in DOMAIN root
  BY DEF BuilderInv
<1>1. CASE Ask
  <2>1. PICK m : posted' = {m} /\ Message(m)
    <3>1. CASE posted' = {Opening("add", Blank)}
      <4>1. Message(Opening("add", Blank))
        BY DEF Message, Opening, Offered
      <4> QED
        BY <3>1, <4>1
    <3>2. CASE posted' = {Opening("edit", CondExpr(Selected))}
      <4>1. CondExpr(Selected) \in Exprs
        BY <1>0, TreeFacts, CondExprTyped DEF Selected
      <4>2. Message(Opening("edit", CondExpr(Selected)))
        BY <4>1 DEF Message, Opening, Offered
      <4> QED
        BY <3>2, <4>2
    <3>3. CASE posted' = {Opening("raw", Output(root))}
      <4>1. Output(root) \in Seq(TextRows)
        BY <1>0, TreeFacts, OutputTyped
      <4>2. Message(Opening("raw", Output(root)))
        BY <4>1 DEF Message, Opening, Offered
      <4> QED
        BY <3>3, <4>2
    <3> QED
      BY <1>1, <3>1, <3>2, <3>3 DEF Ask
  <2> QED
    BY <1>1, <2>1 DEF Ask, Key, BuilderInv
<1>2. CASE OpenBuilder
  <2>1. Tree(root') /\ cur' \in DOMAIN root'
    <3>1. PICK t \in {handed} \cup RawTexts : root' = TreeOf(t)
      BY <1>2 DEF OpenBuilder
    <3>2. t \in Seq(TextRows)
      BY <3>1, InputAssumption DEF BuilderInv
    <3>3. Tree(root') /\ cur' = 1
      BY <1>2, <3>1, <3>2, TreeOfTree DEF OpenBuilder
    <3> QED
      BY <3>3, TreeFacts
  <2>2. handed' \in Seq(TextRows) /\ building' \in BOOLEAN
    BY <1>2 DEF OpenBuilder, Blank
  <2> QED
    BY <1>2, <2>1, <2>2 DEF OpenBuilder, BuilderInv
<1> QED
  BY <1>1, <1>2

LEMMA BuilderPrompts ==
    ASSUME BuilderInv, OpenPrompt \/ Submit \/ Cancel
    PROVE  BuilderInv'
<1>1. CASE OpenPrompt
  <2>1. PICK m \in posted : m.kind = "open" /\ prompt' = Prompt(m.asks, m.offer) /\ posted' = {}
                            /\ UNCHANGED <<building, handed, root, cur>>
    BY <1>1 DEF OpenPrompt
  <2>2. Message(m)
    BY DEF BuilderInv
  <2>3. Offered(m.asks, m.offer)
    BY <2>1, <2>2 DEF Message
  <2>4. prompt'.asks = m.asks /\ prompt'.offer = m.offer
    BY <2>1 DEF Prompt
  <2> QED
    BY <2>1, <2>3, <2>4 DEF BuilderInv
<1>2. CASE Submit
  <2>1. /\ prompt # NoPrompt /\ prompt' = NoPrompt /\ UNCHANGED <<building, handed, root, cur>>
        /\ Offered(prompt.asks, prompt.offer)
    BY <1>2 DEF Submit, BuilderInv
  <2>2. PICK what \in CASE prompt.asks = "add" -> Typed
                        [] prompt.asks = "edit" -> Typed \cup {prompt.offer}
                        [] prompt.asks = "raw" -> RawTexts \cup {prompt.offer} :
          posted' = {Answered(prompt.asks, what)}
    BY <1>2 DEF Submit
  <2>3. Message(Answered(prompt.asks, what))
    <3>1. CASE prompt.asks \in {"add", "edit"}
      <4>1. what \in Exprs
        BY <2>1, <2>2, <3>1, InputAssumption DEF Offered
      <4> QED
        BY <3>1, <4>1 DEF Message, Answered
    <3>2. CASE prompt.asks = "raw"
      <4>1. what \in Seq(TextRows)
        BY <2>1, <2>2, <3>2, InputAssumption DEF Offered
      <4> QED
        BY <3>2, <4>1 DEF Message, Answered
    <3> QED
      BY <2>1, <3>1, <3>2 DEF Offered
  <2> QED
    BY <2>1, <2>2, <2>3 DEF BuilderInv
<1>3. CASE Cancel
  BY <1>3 DEF Cancel, BuilderInv
<1> QED
  BY <1>1, <1>2, <1>3

LEMMA BuilderAnswers ==
    ASSUME BuilderInv, AddCond \/ EditCond \/ SetRaw
    PROVE  BuilderInv'
<1>0. Tree(root) /\ cur \in DOMAIN root /\ \A m \in posted : Message(m)
  BY DEF BuilderInv
<1>1. CASE AddCond
  <2>1. PICK m \in posted :
          /\ m.kind = "add" /\ posted' = {} /\ UNCHANGED <<building, handed, cur, prompt>>
          /\ root' = IF Refused(m.what) THEN root ELSE Add(root, Target, ParseCondition(m.what))
    BY <1>1 DEF AddCond
  <2>2. Piece(ParseCondition(m.what))
    BY <1>0, <2>1, ConditionPiece DEF Message
  <2>3. Target \in DOMAIN root /\ ~IsCond(root[Target])
    BY <1>0, TargetFacts
  <2>4. Tree(Add(root, Target, ParseCondition(m.what)))
        /\ Len(Add(root, Target, ParseCondition(m.what))) = Len(root) + Len(ParseCondition(m.what))
    BY <1>0, <2>2, <2>3, AddTree
  <2>5. Tree(root') /\ cur' \in DOMAIN root'
    <3>1. CASE Refused(m.what)
      BY <1>0, <2>1, <3>1
    <3>2. CASE ~Refused(m.what)
      <4>1. root' = Add(root, Target, ParseCondition(m.what)) /\ Len(ParseCondition(m.what)) \in Nat
        BY <2>1, <2>2, <3>2 DEF Piece
      <4>2. cur \in 1 .. Len(root) /\ Len(root) \in Nat
        BY <1>0, TreeFacts
      <4>3. Tree(root') /\ DOMAIN root' = 1 .. Len(root') /\ Len(root') = Len(root) + Len(ParseCondition(m.what))
        BY <2>4, <4>1, TreeFacts
      <4> QED
        BY <2>1, <4>1, <4>2, <4>3
    <3> QED
      BY <3>1, <3>2
  <2> QED
    BY <2>1, <2>5 DEF BuilderInv
<1>2. CASE EditCond
  <2>1. PICK m \in posted :
          /\ m.kind = "edit" /\ posted' = {} /\ UNCHANGED <<building, handed, cur, prompt>>
          /\ root' = IF Refused(m.what) \/ ~IsCond(Selected) THEN root
                     ELSE Put(root, cur, ParseCondition(m.what))
    BY <1>2 DEF EditCond
  <2>2. Tree(root') /\ cur' \in DOMAIN root'
    <3>1. CASE Refused(m.what) \/ ~IsCond(Selected)
      BY <1>0, <2>1, <3>1
    <3>2. CASE ~(Refused(m.what) \/ ~IsCond(Selected))
      <4>1. Piece(ParseCondition(m.what)) /\ IsCond(root[cur])
        BY <1>0, <2>1, <3>2, ConditionPiece DEF Message, Selected
      <4>2. root' = Put(root, cur, ParseCondition(m.what))
        BY <2>1, <3>2
      <4>3. Tree(root') /\ Len(root') = Len(root) - 1 + Len(ParseCondition(m.what))
        BY <1>0, <4>1, <4>2, PutTree
      <4>4. Len(ParseCondition(m.what)) \in Nat /\ Len(ParseCondition(m.what)) >= 1
        <5>1. ParseCondition(m.what) \in Seq(Nodes) /\ ParseCondition(m.what) # <<>>
          BY <4>1 DEF Piece, Nested
        <5> QED
          BY <5>1
      <4>5. cur \in 1 .. Len(root) /\ Len(root) \in Nat /\ DOMAIN root' = 1 .. Len(root')
        BY <1>0, <4>3, TreeFacts
      <4> QED
        BY <2>1, <4>3, <4>4, <4>5
    <3> QED
      BY <3>1, <3>2
  <2> QED
    BY <2>1, <2>2 DEF BuilderInv
<1>3. CASE SetRaw
  <2>1. PICK m \in posted :
          /\ m.kind = "raw" /\ posted' = {} /\ UNCHANGED <<building, handed, prompt>>
          /\ IF Sound(m.what)
             THEN root' = TreeOf(m.what) /\ cur' = 1
             ELSE UNCHANGED <<root, cur>>
    BY <1>3 DEF SetRaw
  <2>2. Tree(root') /\ cur' \in DOMAIN root'
    <3>1. CASE Sound(m.what)
      <4>1. m.what \in Seq(TextRows)
        BY <1>0, <2>1 DEF Message
      <4>2. Tree(root') /\ cur' = 1
        BY <2>1, <3>1, <4>1, TreeOfTree
      <4> QED
        BY <4>2, TreeFacts
    <3>2. CASE ~Sound(m.what)
      BY <1>0, <2>1, <3>2
    <3> QED
      BY <3>1, <3>2
  <2> QED
    BY <2>1, <2>2 DEF BuilderInv
<1> QED
  BY <1>1, <1>2, <1>3

LEMMA BuilderInductive == BuilderInv /\ [BuilderNext]_builderVars => BuilderInv'
<1> SUFFICES ASSUME BuilderInv, [BuilderNext]_builderVars PROVE BuilderInv'
  OBVIOUS
<1>1. CASE BuilderNext
  BY <1>1, BuilderKeys, BuilderOpens, BuilderPrompts, BuilderAnswers DEF BuilderNext
<1>2. CASE UNCHANGED builderVars
  BY <1>2 DEF builderVars, BuilderInv
<1> QED
  BY <1>1, <1>2

LEMMA BuilderInvariant == BuilderSpec => []BuilderInv
BY BuilderInitially, BuilderInductive, PTL DEF BuilderSpec

\* Whatever is typed, asked and answered in whichever order, the tree of the
\* builder has a conjunction or a disjunction at its root and no row below a
\* condition, and the cursor is on one of its rows (filterbuilder.go:94, 180).
THEOREM BuilderTyped == BuilderSpec => []BuilderTypeOK
<1>1. BuilderInv => BuilderTypeOK
  <2> SUFFICES ASSUME BuilderInv PROVE BuilderTypeOK
    OBVIOUS
  <2>1. Tree(root) /\ cur \in DOMAIN root /\ building \in BOOLEAN
        /\ (prompt = NoPrompt \/ prompt.asks \in {"add", "edit", "raw"})
    BY DEF BuilderInv, Offered
  <2>2. posted = {} \/ \E m \in posted : posted = {m}
    BY DEF BuilderInv
  <2>3. root \in Seq(Nodes) /\ Nested(root) /\ root[1].kind \in {"and", "or"}
    BY <2>1, TreeFacts
  <2> QED
    BY <2>1, <2>2, <2>3 DEF BuilderTypeOK
<1> QED
  BY <1>1, BuilderInvariant, PTL

\* Judged follows the verdicts.
LEMMA JudgedFacts ==
    ASSUME NEW s, NEW leaf, NEW kids, Judgeable(s, kids)
    PROVE  \E H \in [1 .. Len(s) -> BOOLEAN] : Judges(H, s, leaf, kids) /\ Judged(s, leaf, kids) = H[1]
<1>0. /\ Len(s) \in Nat /\ DOMAIN s = 1 .. Len(s) /\ 1 \in DOMAIN s
      /\ \A i \in 1 .. Len(s) : s[i].kind \in {"and", "or", "not", "cond", "item"}
  BY DEF Judgeable
<1> DEFINE Step(h, i) == Verdict(s, leaf, kids, h, i)
           Solves(h) == h = [i \in DOMAIN s |-> Step(h, i)]
           holds == CHOOSE h : Solves(h)
<1>1. Judged(s, leaf, kids) = holds[1]
  BY DEF Judged, Verdict
<1>2. ASSUME NEW h, NEW i \in 1 .. Len(s)
      PROVE  Step(h, i) \in BOOLEAN /\ (Step(h, i) <=> Verdict(s, leaf, kids, h, i))
  BY Zenon DEF Verdict
<1>3. PICK e \in [1 .. Len(s) -> BOOLEAN] : Judges(e, s, leaf, kids)
  BY <1>0, VerdictsExist
<1>4. Solves(e)
  <2>1. \A i \in 1 .. Len(s) : e[i] = Step(e, i)
    <3> SUFFICES ASSUME NEW i \in 1 .. Len(s) PROVE e[i] = Step(e, i)
      OBVIOUS
    <3>1. e[i] \in BOOLEAN
      OBVIOUS
    <3>2. e[i] <=> Verdict(s, leaf, kids, e, i)
      BY <1>0, <1>3 DEF Judges
    <3> HIDE DEF Step
    <3> QED
      BY <1>2, <3>1, <3>2, Zenon
  <2>2. e = [i \in DOMAIN s |-> e[i]]
    BY <1>0
  <2> HIDE DEF Step
  <2> QED
    BY <1>0, <2>1, <2>2
<1>5. Solves(holds)
  <2> HIDE DEF Solves
  <2> QED
    BY <1>4
<1>6. \A i \in 1 .. Len(s) : holds[i] = Step(holds, i)
  <2> HIDE DEF holds, Step
  <2> QED
    BY <1>0, <1>5
<1>7. holds \in [1 .. Len(s) -> BOOLEAN]
  <2> HIDE DEF Step
  <2>1. holds = [i \in DOMAIN s |-> Step(holds, i)]
    BY <1>5
  <2> HIDE DEF holds
  <2>2. \A i \in 1 .. Len(s) : Step(holds, i) \in BOOLEAN
    BY <1>2
  <2>3. [i \in 1 .. Len(s) |-> Step(holds, i)] \in [1 .. Len(s) -> BOOLEAN]
    BY <2>2
  <2>4. holds = [i \in 1 .. Len(s) |-> Step(holds, i)]
    BY <1>0, <2>1
  <2> QED
    BY <2>3, <2>4, Zenon
<1>8. Judges(holds, s, leaf, kids)
  <2> HIDE DEF holds, Step
  <2>1. ASSUME NEW i \in 1 .. Len(s) PROVE holds[i] <=> Verdict(s, leaf, kids, holds, i)
    BY <1>2, <1>6, Zenon
  <2> QED
    BY <1>0, <2>1 DEF Judges
<1> HIDE DEF holds
<1> QED
  BY <1>1, <1>7, <1>8

\* Row i counts in s as row p[i] does in t: both are conditions that hold or do
\* not, or groups of one kind with the same rows, in t with a conjunction
\* between a negation and its rows, or it is a group of one row that counts so.
Reads(s, leaf, kids, t, tleaf, tkids, p, i) ==
    \/ IsLeaf(s[i]) /\ IsLeaf(t[p[i]]) /\ (i \in leaf <=> p[i] \in tleaf)
    \/ ~IsLeaf(s[i]) /\ t[p[i]].kind = s[i].kind /\ tkids[p[i]] = {p[j] : j \in kids[i]}
    \/ /\ s[i].kind = "not" /\ t[p[i]].kind = "not"
       /\ \E b \in DOMAIN t : /\ tkids[p[i]] = {b} /\ t[b].kind = "and"
                              /\ tkids[b] = {p[j] : j \in kids[i]}
    \/ s[i].kind \in {"and", "or"} /\ \E j \in kids[i] : kids[i] = {j} /\ p[i] = p[j]

LEMMA ReadsVerdict ==
    ASSUME NEW s, NEW leaf, NEW kids, Judgeable(s, kids), NEW H, Judges(H, s, leaf, kids),
           NEW t, NEW tleaf, NEW tkids, Judgeable(t, tkids), NEW G, Judges(G, t, tleaf, tkids),
           NEW p \in [1 .. Len(s) -> 1 .. Len(t)], NEW i \in 1 .. Len(s),
           Reads(s, leaf, kids, t, tleaf, tkids, p, i), \A j \in kids[i] : H[j] <=> G[p[j]]
    PROVE  H[i] <=> G[p[i]]
<1>0. /\ DOMAIN s = 1 .. Len(s) /\ DOMAIN t = 1 .. Len(t) /\ p[i] \in 1 .. Len(t)
      /\ s[i].kind \in {"and", "or", "not", "cond", "item"}
  BY DEF Judgeable
<1>1. /\ H[i] <=> Verdict(s, leaf, kids, H, i)
      /\ \A b \in DOMAIN t : G[b] <=> Verdict(t, tleaf, tkids, G, b)
  BY <1>0 DEF Judges
<1>2. CASE IsLeaf(s[i]) /\ IsLeaf(t[p[i]]) /\ (i \in leaf <=> p[i] \in tleaf)
  BY <1>0, <1>1, <1>2, VerdictFacts
<1>3. ASSUME NEW K, K = {p[j] : j \in kids[i]}
      PROVE  /\ (\A b \in K : G[b]) <=> (\A j \in kids[i] : H[j])
             /\ (\E b \in K : G[b]) <=> (\E j \in kids[i] : H[j])
  BY <1>3
<1>4. CASE ~IsLeaf(s[i]) /\ t[p[i]].kind = s[i].kind /\ tkids[p[i]] = {p[j] : j \in kids[i]}
  <2>1. /\ (\A b \in tkids[p[i]] : G[b]) <=> (\A j \in kids[i] : H[j])
        /\ (\E b \in tkids[p[i]] : G[b]) <=> (\E j \in kids[i] : H[j])
    BY <1>3, <1>4
  <2>2. G[p[i]] <=> Verdict(t, tleaf, tkids, G, p[i])
    BY <1>0, <1>1
  <2>3. s[i].kind = "and" \/ s[i].kind = "or" \/ s[i].kind = "not"
    BY <1>0, <1>4 DEF IsLeaf
  <2>4. CASE s[i].kind = "and"
    <3>1. Verdict(s, leaf, kids, H, i) <=> \A j \in kids[i] : H[j]
      BY <2>4, VerdictFacts
    <3>2. Verdict(t, tleaf, tkids, G, p[i]) <=> \A j \in tkids[p[i]] : G[j]
      BY <1>4, <2>4, VerdictFacts
    <3> QED
      BY <1>1, <2>1, <2>2, <3>1, <3>2
  <2>5. CASE s[i].kind = "or"
    <3>1. Verdict(s, leaf, kids, H, i) <=> \E j \in kids[i] : H[j]
      BY <2>5, VerdictFacts
    <3>2. Verdict(t, tleaf, tkids, G, p[i]) <=> \E j \in tkids[p[i]] : G[j]
      BY <1>4, <2>5, VerdictFacts
    <3> QED
      BY <1>1, <2>1, <2>2, <3>1, <3>2
  <2>6. CASE s[i].kind = "not"
    <3>1. Verdict(s, leaf, kids, H, i) <=> ~\A j \in kids[i] : H[j]
      BY <2>6, VerdictFacts
    <3>2. Verdict(t, tleaf, tkids, G, p[i]) <=> ~\A j \in tkids[p[i]] : G[j]
      BY <1>4, <2>6, VerdictFacts
    <3> QED
      BY <1>1, <2>1, <2>2, <3>1, <3>2
  <2> QED
    BY <2>3, <2>4, <2>5, <2>6
<1>5. ASSUME s[i].kind = "not", t[p[i]].kind = "not",
             NEW b \in DOMAIN t, tkids[p[i]] = {b}, t[b].kind = "and", tkids[b] = {p[j] : j \in kids[i]}
      PROVE  H[i] <=> G[p[i]]
  <2>1. (\A c \in tkids[b] : G[c]) <=> (\A j \in kids[i] : H[j])
    BY <1>3, <1>5
  <2>2. Verdict(s, leaf, kids, H, i) <=> ~\A j \in kids[i] : H[j]
    BY <1>5, VerdictFacts
  <2>3. Verdict(t, tleaf, tkids, G, p[i]) <=> ~\A j \in tkids[p[i]] : G[j]
    BY <1>5, VerdictFacts
  <2>4. Verdict(t, tleaf, tkids, G, b) <=> \A c \in tkids[b] : G[c]
    BY <1>5, VerdictFacts
  <2>5. (\A j \in tkids[p[i]] : G[j]) <=> G[b]
    BY <1>5
  <2>6. /\ G[p[i]] <=> Verdict(t, tleaf, tkids, G, p[i])
        /\ G[b] <=> Verdict(t, tleaf, tkids, G, b)
    BY <1>0, <1>1
  <2> QED
    BY <1>1, <2>1, <2>2, <2>3, <2>4, <2>5, <2>6
<1>6. ASSUME s[i].kind \in {"and", "or"}, NEW j \in kids[i], kids[i] = {j}, p[i] = p[j]
      PROVE  H[i] <=> G[p[i]]
  <2>1. H[j] <=> G[p[i]]
    BY <1>6
  <2>2. (\A k \in kids[i] : H[k]) <=> H[j]
    BY <1>6
  <2>3. (\E k \in kids[i] : H[k]) <=> H[j]
    BY <1>6
  <2>4. CASE s[i].kind = "and"
    BY <1>1, <2>1, <2>2, <2>4, VerdictFacts
  <2>5. CASE s[i].kind = "or"
    BY <1>1, <2>1, <2>3, <2>5, VerdictFacts
  <2> QED
    BY <1>6, <2>4, <2>5
<1> QED
  BY <1>2, <1>4, <1>5, <1>6 DEF Reads

\* Two lists of rows come to one verdict when one reads as the other.
LEMMA SameVerdicts ==
    ASSUME NEW s, NEW leaf, NEW kids, Judgeable(s, kids),
           NEW t, NEW tleaf, NEW tkids, Judgeable(t, tkids),
           NEW p \in [1 .. Len(s) -> 1 .. Len(t)], p[1] = 1,
           \A i \in 1 .. Len(s) : Reads(s, leaf, kids, t, tleaf, tkids, p, i)
    PROVE  Judged(s, leaf, kids) = Judged(t, tleaf, tkids)
<1>0. /\ Len(s) \in Nat /\ 1 \in 1 .. Len(s) /\ 1 \in 1 .. Len(t)
      /\ \A i \in 1 .. Len(s) : \A j \in kids[i] : j \in i + 1 .. Len(s)
  BY DEF Judgeable
<1>1. PICK H \in [1 .. Len(s) -> BOOLEAN] : Judges(H, s, leaf, kids) /\ Judged(s, leaf, kids) = H[1]
  BY JudgedFacts
<1>2. PICK G \in [1 .. Len(t) -> BOOLEAN] : Judges(G, t, tleaf, tkids) /\ Judged(t, tleaf, tkids) = G[1]
  BY JudgedFacts
<1> DEFINE T == {n \in Nat : \A i \in 1 .. Len(s) : i > Len(s) - n => (H[i] <=> G[p[i]])}
<1>3. 0 \in T
  BY <1>0
<1>4. ASSUME NEW n \in Nat, n \in T PROVE n + 1 \in T
  <2> SUFFICES ASSUME NEW i \in 1 .. Len(s), i > Len(s) - (n + 1) PROVE H[i] <=> G[p[i]]
    OBVIOUS
  <2>1. ASSUME NEW j \in kids[i] PROVE H[j] <=> G[p[j]]
    <3>1. j \in 1 .. Len(s) /\ j > Len(s) - n
      BY <1>0
    <3> QED
      BY <1>4, <3>1
  <2> HIDE DEF T
  <2>2. Judges(H, s, leaf, kids) /\ Judges(G, t, tleaf, tkids)
    BY <1>1, <1>2
  <2>3. Reads(s, leaf, kids, t, tleaf, tkids, p, i)
    OBVIOUS
  <2>4. \A j \in kids[i] : H[j] <=> G[p[j]]
    BY <2>1
  <2> QED
    BY <2>2, <2>3, <2>4, ReadsVerdict
<1> HIDE DEF T
<1>5. Len(s) \in T
  BY <1>0, <1>3, <1>4, SetInduction
<1>6. H[1] <=> G[p[1]]
  BY <1>0, <1>5 DEF T
<1>7. H[1] \in BOOLEAN /\ G[1] \in BOOLEAN
  BY <1>0
<1> QED
  BY <1>1, <1>2, <1>6, <1>7, Zenon

-----------------------------------------------------------------------------
(* Filters: leaving out and collapsing change no meaning.                  *)

\* How a tree is judged with all of its rows.
Holding(s, world) == {i \in DOMAIN s : Asserted(s[i]) \in world}
AllKids(s) == [i \in DOMAIN s |-> Kids(s, i)]
SayingKids(s) == [i \in DOMAIN s |-> {j \in Kids(s, i) : Says(s, j)}]
Weighed(s, world) == Judged(s, Holding(s, world), AllKids(s))

LEMMA RowsJudgeable ==
    ASSUME NEW s \in Seq(Nodes), s # <<>>
    PROVE  Judgeable(s, AllKids(s)) /\ Judgeable(s, SayingKids(s))
<1>1. Deep(s)
  BY NodesDeep
<1>2. /\ Len(s) \in Nat /\ DOMAIN s = 1 .. Len(s) /\ 1 \in DOMAIN s
      /\ \A i \in 1 .. Len(s) : s[i].kind \in {"and", "or", "not", "cond", "item"}
  <2>1. Len(s) \in Nat /\ DOMAIN s = 1 .. Len(s) /\ 1 \in DOMAIN s /\ \A i \in 1 .. Len(s) : s[i] \in Nodes
    OBVIOUS
  <2>2. \A n \in Nodes : n.kind \in {"and", "or", "not", "cond", "item"}
    BY DEF Nodes
  <2> QED
    BY <2>1, <2>2
<1>3. ASSUME NEW i \in 1 .. Len(s), NEW j \in Kids(s, i) PROVE j \in i + 1 .. Len(s)
  <2>1. j \in 1 .. Len(s) /\ i < j
    BY <1>1, <1>2, BelowFacts
  <2> QED
    BY <1>2, <2>1
<1>4. \A i \in 1 .. Len(s) : AllKids(s)[i] = Kids(s, i) /\ SayingKids(s)[i] \subseteq Kids(s, i)
  BY <1>2 DEF AllKids, SayingKids
<1> QED
  BY <1>2, <1>3, <1>4 DEF Judgeable

LEMMA PrunedWeighs ==
    ASSUME NEW s \in Seq(Nodes), Nested(s), Says(s, 1), NEW t, NEW p, PrunedBy(t, s, p), NEW world
    PROVE  Weighed(t, world) = Accepts(s, world)
<1>1. /\ t \in Seq(Nodes) /\ p \in [DOMAIN t -> DOMAIN s]
      /\ \A a \in DOMAIN t : t[a] = s[p[a]] /\ Says(s, p[a])
      /\ \A i \in DOMAIN s : Says(s, i) => \E a \in DOMAIN t : p[a] = i
  BY DEF PrunedBy
<1>2. Thinned(t, s, p, 0) /\ 1 \in DOMAIN t /\ p[1] = 1
  BY PrunedFacts
<1>3. /\ Judgeable(t, AllKids(t)) /\ Judgeable(s, SayingKids(s)) /\ Deep(s) /\ Deep(t)
      /\ DOMAIN s = 1 .. Len(s) /\ DOMAIN t = 1 .. Len(t)
  <2>1. s # <<>> /\ t # <<>>
    BY <1>2 DEF Nested
  <2> QED
    BY <1>1, <2>1, RowsJudgeable, NodesDeep DEF Judgeable
<1>4. ASSUME NEW a \in 1 .. Len(t)
      PROVE  Reads(t, Holding(t, world), AllKids(t), s, Holding(s, world), SayingKids(s), p, a)
  <2>0. t[a] = s[p[a]] /\ p[a] \in DOMAIN s
    BY <1>1, <1>3
  <2>1. CASE IsLeaf(t[a])
    <3>1. a \in Holding(t, world) <=> p[a] \in Holding(s, world)
      BY <1>3, <2>0 DEF Holding
    <3> QED
      BY <2>0, <2>1, <3>1 DEF Reads
  <2>2. CASE ~IsLeaf(t[a])
    <3>1. ASSUME NEW b \in Kids(t, a) PROVE p[b] \in SayingKids(s)[p[a]]
      <4>1. b \in DOMAIN t
        BY <1>3, BelowFacts
      <4>2. p[b] \in Kids(s, p[a]) /\ Says(s, p[b])
        BY <1>1, <1>2, <1>3, <4>1, ThinnedBelow
      <4> QED
        BY <2>0, <4>2 DEF SayingKids
    <3>2. ASSUME NEW j \in SayingKids(s)[p[a]] PROVE \E b \in Kids(t, a) : j = p[b]
      <4>1. j \in Kids(s, p[a]) /\ Says(s, j)
        BY <2>0 DEF SayingKids
      <4>2. j \in DOMAIN s
        BY <1>3, <2>0, <4>1, BelowFacts
      <4>3. PICK b \in DOMAIN t : p[b] = j
        BY <1>1, <4>1, <4>2
      <4>4. b \in Kids(t, a)
        BY <1>1, <1>2, <1>3, <4>1, <4>3, ThinnedBelow
      <4> QED
        BY <4>3, <4>4
    <3>3. AllKids(t)[a] = Kids(t, a)
      BY <1>3 DEF AllKids
    <3>4. SayingKids(s)[p[a]] = {p[b] : b \in Kids(t, a)}
      BY <3>1, <3>2
    <3> QED
      BY <2>0, <2>2, <3>3, <3>4 DEF Reads
  <2> QED
    BY <2>1, <2>2
<1>5. p \in [1 .. Len(t) -> 1 .. Len(s)]
  BY <1>1, <1>3
<1>6. Judged(t, Holding(t, world), AllKids(t)) = Judged(s, Holding(s, world), SayingKids(s))
  BY <1>2, <1>3, <1>4, <1>5, SameVerdicts
<1> QED
  BY <1>6 DEF Weighed, Accepts, Holding, SayingKids

LEMMA CollapsedWeighs ==
    ASSUME NEW s \in Seq(Nodes), Nested(s), Full(s), NEW t, t = Collapsed(s), NEW world
    PROVE  Weighed(t, world) = Weighed(s, world)
<1> DEFINE c == Top(s) - 1
           p == [a \in 1 .. Len(t) |-> a + c]
           q == [i \in 1 .. Len(s) |-> IF i < Top(s) THEN 1 ELSE i - c]
<1>1. Lifted(t, s, c) /\ c \in Nat /\ Nested(t)
  BY CollapsedFacts
<1>2. /\ DOMAIN t = 1 .. Len(t) /\ Len(t) \in Nat /\ Deep(t) /\ Thinned(t, s, p, c)
      /\ \A a \in 1 .. Len(t) :
            /\ a + c \in DOMAIN s /\ t[a].kind = s[a + c].kind /\ t[a].attr = s[a + c].attr
            /\ t[a].op = s[a + c].op /\ t[a].val = s[a + c].val /\ t[a].raw = s[a + c].raw
  BY <1>1, LiftedFacts
<1>3. /\ t \in Seq(Nodes) /\ Deep(s) /\ DOMAIN s = 1 .. Len(s) /\ Len(s) \in Nat /\ Len(t) = Len(s) - c
      /\ Top(s) \in 1 .. Len(s) /\ Top(s) = c + 1
      /\ Judgeable(s, AllKids(s)) /\ Judgeable(t, AllKids(t))
  <2>1. t \in Seq(Nodes) /\ Len(t) = Len(s) - c /\ s # <<>> /\ t # <<>>
    BY <1>1 DEF Lifted, Nested
  <2>2. Top(s) \in DOMAIN s
    BY TopExists
  <2> QED
    BY <2>1, <2>2, NodesDeep, RowsJudgeable
<1>0. \A a \in 1 .. Len(t) : p[a] = a + c
  OBVIOUS
<1> HIDE DEF c, p
<1>4. q \in [1 .. Len(s) -> 1 .. Len(t)] /\ q[1] = 1
  <2>1. ASSUME NEW i \in 1 .. Len(s) PROVE (IF i < Top(s) THEN 1 ELSE i - c) \in 1 .. Len(t)
    BY <1>1, <1>3
  <2> QED
    BY <1>1, <1>3, <2>1
<1>5. ASSUME NEW i \in 1 .. Len(s)
      PROVE  Reads(s, Holding(s, world), AllKids(s), t, Holding(t, world), AllKids(t), q, i)
  <2>0. AllKids(s)[i] = Kids(s, i)
    BY <1>3 DEF AllKids
  <2>1. CASE i < Top(s)
    <3>1. i \in 1 .. Top(s) - 1 /\ i + 1 \in 1 .. Len(s) /\ (i + 1 < Top(s) \/ (~(i + 1 < Top(s)) /\ (i + 1) - c = 1))
      BY <1>1, <1>3, <2>1
    <3>2. Kids(s, i) = {i + 1} /\ Single(s, i)
      BY <3>1, TopChain, TopExists
    <3>3. q[i] = 1 /\ q[i + 1] = 1
      BY <2>1, <3>1
    <3> HIDE DEF q
    <3> QED
      BY <2>0, <3>2, <3>3 DEF Reads, Single
  <2>2. CASE ~(i < Top(s))
    <3>1. PICK a \in 1 .. Len(t) : a = i - c /\ a + c = i
      BY <1>1, <1>3, <2>2
    <3>2. q[i] = a
      BY <2>2, <3>1
    <3>3. /\ t[a].kind = s[i].kind /\ t[a].attr = s[i].attr /\ t[a].op = s[i].op
          /\ t[a].val = s[i].val /\ t[a].raw = s[i].raw
      BY <1>2, <3>1
    <3>4. CASE IsLeaf(s[i])
      <4>1. Asserted(t[a]) = Asserted(s[i]) /\ IsLeaf(t[a])
        BY <3>3, <3>4 DEF Asserted, IsLeaf
      <4>2. i \in Holding(s, world) <=> a \in Holding(t, world)
        BY <1>2, <1>3, <4>1 DEF Holding
      <4> HIDE DEF q
      <4> QED
        BY <3>2, <3>4, <4>1, <4>2 DEF Reads
    <3>5. CASE ~IsLeaf(s[i])
      <4>1. ASSUME NEW b \in Kids(t, a) PROVE \E j \in Kids(s, i) : b = q[j]
        <5>1. b \in 1 .. Len(t) /\ a < b
          BY <1>2, BelowFacts
        <5>2. p[b] \in Kids(s, p[a]) /\ p[b] = b + c /\ p[a] = i
          <6>1. p[b] = b + c /\ p[a] = i
            BY <1>0, <3>1, <5>1
          <6>2. /\ Deep(s) /\ Deep(t) /\ c \in Nat /\ Thinned(t, s, p, c)
                /\ a \in DOMAIN t /\ b \in DOMAIN t /\ b \in Kids(t, a)
            BY <1>1, <1>2, <1>3, <3>1, <5>1
          <6> QED
            BY <6>1, <6>2, ThinnedBelow
        <5>3. q[b + c] = b
          BY <1>1, <1>2, <1>3, <5>1
        <5> HIDE DEF q
        <5> QED
          BY <5>2, <5>3
      <4>2. ASSUME NEW j \in Kids(s, i) PROVE q[j] \in Kids(t, a)
        <5>1. j \in 1 .. Len(s) /\ i < j
          BY <1>3, BelowFacts
        <5>2. PICK b \in 1 .. Len(t) : b + c = j /\ b = j - c /\ ~(j < Top(s))
          BY <1>1, <1>3, <2>2, <5>1
        <5>3. q[j] = b /\ p[b] = j /\ p[a] = i
          BY <1>0, <3>1, <5>1, <5>2
        <5> HIDE DEF q
        <5>4. b \in Kids(t, a) <=> p[b] \in Kids(s, p[a])
          <6>1. a \in DOMAIN t /\ b \in DOMAIN t
            BY <1>2
          <6> QED
            BY <1>1, <1>2, <1>3, <6>1, ThinnedBelow
        <5> QED
          BY <5>3, <5>4
      <4> HIDE DEF q
      <4>3. AllKids(t)[a] = Kids(t, a)
        BY <1>2 DEF AllKids
      <4>4. AllKids(t)[q[i]] = {q[j] : j \in AllKids(s)[i]}
        BY <2>0, <3>2, <4>1, <4>2, <4>3
      <4> QED
        BY <3>2, <3>3, <3>5, <4>4 DEF Reads
    <3> QED
      BY <3>4, <3>5
  <2> QED
    BY <2>1, <2>2
<1> HIDE DEF q
<1>6. Judged(s, Holding(s, world), AllKids(s)) = Judged(t, Holding(t, world), AllKids(t))
  BY <1>3, <1>4, <1>5, SameVerdicts
<1> QED
  BY <1>6 DEF Weighed

-----------------------------------------------------------------------------
(* Filters: how deep rows are printed.                                     *)

\* How deep a row is printed, and how deep what the rows below it are below.
Printing(s, i) == s[i].depth + Shift(s, i)
Holder(s, i) == Printing(s, i) + (IF i \in Wrapped(s) THEN 1 ELSE 0)

LEMMA AroundBelow ==
    ASSUME NEW s, Deep(s), NEW a \in DOMAIN s, NEW b \in Below(s, a)
    PROVE  /\ Around(s, a) \subseteq Around(s, b)
           /\ a \in Wrapped(s) => a \in Around(s, b) /\ a \notin Around(s, a)
           /\ b \in Kids(s, a) => Around(s, b) \subseteq Around(s, a) \cup {a}
<1>0. b \in DOMAIN s /\ a < b /\ Below(s, b) \subseteq Below(s, a)
  BY BelowFacts
<1>1. ASSUME NEW x \in Around(s, a) PROVE x \in Around(s, b)
  <2>1. x \in DOMAIN s /\ x \in Wrapped(s) /\ a \in Below(s, x)
    BY DEF Around, Wrapped
  <2>2. Below(s, a) \subseteq Below(s, x)
    BY <2>1, BelowFacts
  <2> QED
    BY <2>1, <2>2 DEF Around
<1>2. a \notin Below(s, a)
  BY DeepFacts, BelowFacts
<1>3. ASSUME b \in Kids(s, a), NEW x \in Around(s, b) PROVE x \in Around(s, a) \cup {a}
  <2>1. x \in DOMAIN s /\ x \in Wrapped(s) /\ b \in Below(s, x)
    BY DEF Around, Wrapped
  <2>2. x = a \/ x \in Below(s, a) \/ a \in Below(s, x)
    BY <2>1, BelowFacts
  <2>3. CASE x \in Below(s, a)
    <3>1. s[x].depth > s[a].depth /\ s[b].depth > s[x].depth
      BY <2>1, <2>3, BelowFacts
    <3>2. s[x].depth \in Nat /\ s[a].depth \in Nat /\ s[b].depth = s[a].depth + 1
      BY <1>3, <2>1, DeepFacts DEF Kids
    <3> QED
      BY <3>1, <3>2
  <2> QED
    BY <2>1, <2>2, <2>3 DEF Around
<1> QED
  BY <1>1, <1>2, <1>3 DEF Around

LEMMA ShiftBelow ==
    ASSUME NEW s, Deep(s), NEW a \in DOMAIN s, NEW b \in Below(s, a)
    PROVE  /\ Shift(s, b) >= Shift(s, a) + (IF a \in Wrapped(s) THEN 1 ELSE 0)
           /\ b \in Kids(s, a) => Shift(s, b) = Shift(s, a) + (IF a \in Wrapped(s) THEN 1 ELSE 0)
<1>0. /\ IsFiniteSet(Around(s, a)) /\ Shift(s, a) \in Nat
      /\ IsFiniteSet(Around(s, b)) /\ Shift(s, b) \in Nat
  BY AroundFinite
<1>1. CASE a \in Wrapped(s)
  <2> DEFINE U == Around(s, a) \cup {a}
  <2>1. IsFiniteSet(U) /\ Cardinality(U) = Shift(s, a) + 1
    BY <1>0, <1>1, AroundBelow, FS_AddElement DEF Shift
  <2>2. U \subseteq Around(s, b)
    BY <1>1, AroundBelow
  <2>3. Cardinality(U) <= Shift(s, b)
    BY <1>0, <2>1, <2>2, FS_Subset DEF Shift
  <2>4. b \in Kids(s, a) => U = Around(s, b)
    BY <2>2, AroundBelow
  <2> HIDE DEF U
  <2>5. b \in Kids(s, a) => Shift(s, b) = Shift(s, a) + 1
    BY <2>1, <2>4 DEF Shift
  <2> QED
    BY <1>0, <1>1, <2>1, <2>3, <2>5
<1>2. CASE a \notin Wrapped(s)
  <2>1. Shift(s, a) <= Shift(s, b)
    BY <1>0, AroundBelow, FS_Subset DEF Shift
  <2>2. ASSUME b \in Kids(s, a) PROVE Shift(s, b) = Shift(s, a)
    <3>1. Around(s, b) \subseteq Wrapped(s)
      BY DEF Around
    <3>2. Around(s, b) = Around(s, a)
      BY <1>2, <2>2, <3>1, AroundBelow
    <3> QED
      BY <3>2 DEF Shift
  <2> QED
    BY <1>0, <1>2, <2>1, <2>2
<1> QED
  BY <1>1, <1>2

\* The rows below a row are printed deeper than what holds them, those right
\* below it by one, and the row after them no deeper than the row.
PrintsDeeper(s, a) ==
    /\ \A b \in Below(s, a) :
          /\ b \in Kids(s, a) => Printing(s, b) = Holder(s, a) + 1
          /\ b \notin Kids(s, a) => Printing(s, b) > Holder(s, a) + 1
    /\ End(s, a) < Len(s) => Printing(s, End(s, a) + 1) <= Printing(s, a)

LEMMA PrintingFacts ==
    ASSUME NEW s, Deep(s), NEW a \in DOMAIN s
    PROVE  Printing(s, a) \in Nat /\ Holder(s, a) \in Nat /\ PrintsDeeper(s, a)
<1>0. /\ DOMAIN s = 1 .. Len(s) /\ Len(s) \in Nat /\ a \in 1 .. Len(s)
      /\ \A b \in 1 .. Len(s) : s[b].depth \in Nat /\ Shift(s, b) \in Nat
  BY DeepFacts, AroundFinite
<1>1. Printing(s, a) \in Nat /\ Holder(s, a) \in Nat
  BY <1>0 DEF Printing, Holder
<1>2. ASSUME NEW b \in Below(s, a)
      PROVE  /\ b \in Kids(s, a) => Printing(s, b) = Holder(s, a) + 1
             /\ b \notin Kids(s, a) => Printing(s, b) > Holder(s, a) + 1
  <2>1. b \in 1 .. Len(s) /\ s[b].depth > s[a].depth /\ (b \in Kids(s, a) <=> s[b].depth = s[a].depth + 1)
    BY <1>0, BelowFacts DEF Kids
  <2> DEFINE w == IF a \in Wrapped(s) THEN 1 ELSE 0
  <2>2. w \in Nat /\ Shift(s, b) >= Shift(s, a) + w /\ (b \in Kids(s, a) => Shift(s, b) = Shift(s, a) + w)
    BY ShiftBelow
  <2>3. Holder(s, a) = (s[a].depth + Shift(s, a)) + w
    BY DEF Holder, Printing
  <2> HIDE DEF w
  <2>4. CASE b \in Kids(s, a)
    BY <1>0, <2>1, <2>2, <2>3, <2>4 DEF Printing
  <2>5. CASE b \notin Kids(s, a)
    <3>1. \A x, y, z, u, v \in Nat : x > y /\ x # y + 1 /\ z >= u + v => x + z > ((y + u) + v) + 1
      OBVIOUS
    <3>2. s[b].depth > s[a].depth /\ s[b].depth # s[a].depth + 1
      BY <2>1, <2>5
    <3>3. s[b].depth + Shift(s, b) > ((s[a].depth + Shift(s, a)) + w) + 1
      BY <1>0, <2>1, <2>2, <3>1, <3>2
    <3> QED
      BY <2>3, <2>5, <3>3 DEF Printing
  <2> QED
    BY <2>4, <2>5
<1>3. ASSUME End(s, a) < Len(s) PROVE Printing(s, End(s, a) + 1) <= Printing(s, a)
  <2> DEFINE k == End(s, a) + 1
  <2>1. End(s, a) \in a .. Len(s) /\ Below(s, a) = a + 1 .. End(s, a) /\ s[k].depth <= s[a].depth
    BY <1>3, EndFacts
  <2>2. k \in 1 .. Len(s) /\ a < k /\ k \notin Below(s, a)
    BY <1>0, <1>3, <2>1
  <2> HIDE DEF k
  <2>3. ASSUME NEW x \in Around(s, k) PROVE x \in Around(s, a)
    <3>1. x \in 1 .. Len(s) /\ x \in Wrapped(s) /\ k \in Below(s, x) /\ x < k
      BY <1>0, BelowFacts DEF Around, Wrapped
    <3>2. x # a
      BY <2>2, <3>1
    <3>3. x < a
      <4> SUFFICES ASSUME x > a PROVE FALSE
        BY <1>0, <3>1, <3>2
      <4>1. x \in Below(s, a)
        BY <1>0, <2>1, <3>1 DEF k
      <4> QED
        BY <1>0, <2>2, <3>1, <4>1, BelowFacts
    <3>4. a \in x + 1 .. k
      BY <1>0, <2>2, <3>1, <3>3
    <3>5. a \in Below(s, x)
      BY <1>0, <3>1, <3>4, BelowFacts
    <3> QED
      BY <3>1, <3>5 DEF Around
  <2>4. Shift(s, k) <= Shift(s, a)
    BY <2>3, AroundFinite, FS_Subset DEF Shift
  <2>5. Printing(s, k) <= Printing(s, a)
    <3>1. s[k].depth \in Nat /\ s[a].depth \in Nat /\ Shift(s, k) \in Nat /\ Shift(s, a) \in Nat
      BY <1>0, <2>2
    <3>2. s[k].depth <= s[a].depth
      BY <2>1 DEF k
    <3> QED
      BY <2>4, <3>1, <3>2 DEF Printing
  <2> QED
    BY <2>5 DEF k
<1> QED
  BY <1>1, <1>2, <1>3 DEF PrintsDeeper

-----------------------------------------------------------------------------
(* Filters: where rows are printed.                                        *)

Spelled(n) == IF n.raw THEN n.val ELSE EscapeValue(n.op, n.val)
RowText(s, i) ==
    IF IsCond(s[i]) THEN Item(s[i].attr, s[i].op, Spelled(s[i]), Printing(s, i))
    ELSE Text(s[i].kind, Printing(s, i))
InnerText(s, i) == Text("and", Printing(s, i) + 1)

LEMMA PrintedRow ==
    ASSUME NEW s \in Seq(Nodes), Full(s), NEW i \in DOMAIN s
    PROVE  /\ i \in Wrapped(s) => Printed(s, i) = <<RowText(s, i), InnerText(s, i)>>
                                  /\ s[i].kind = "not"
           /\ i \notin Wrapped(s) => Printed(s, i) = <<RowText(s, i)>>
<1>1. Printing(s, i) = s[i].depth + Cardinality({k \in Wrapped(s) : i \in Below(s, k)})
  BY DEF Printing, Shift, Around
<1>2. i \in Wrapped(s) => s[i].kind = "not"
  BY DEF Wrapped
<1>3. ~(~IsCond(s[i]) /\ s[i].kind = "not" /\ Kids(s, i) = {})
  <2>1. i \in 1 .. Len(s)
    OBVIOUS
  <2> QED
    BY <2>1 DEF Full, IsLeaf
<1>4. CASE IsCond(s[i])
  <2>1. Printed(s, i) = <<Item(s[i].attr, s[i].op, Spelled(s[i]), Printing(s, i))>>
    BY <1>1, <1>4 DEF Printed, Spelled
  <2>2. i \notin Wrapped(s)
    BY <1>2, <1>4 DEF IsCond
  <2> QED
    BY <1>4, <2>1, <2>2 DEF RowText
<1>5. CASE ~IsCond(s[i]) /\ i \in Wrapped(s)
  <2>1. Printed(s, i) = <<Text("not", Printing(s, i)), Text("and", Printing(s, i) + 1)>>
    BY <1>1, <1>5 DEF Printed
  <2> QED
    BY <1>2, <1>5, <2>1 DEF RowText, InnerText
<1>6. CASE ~IsCond(s[i]) /\ i \notin Wrapped(s)
  <2>1. Printed(s, i) = <<Text(s[i].kind, Printing(s, i))>>
    BY <1>1, <1>3, <1>6 DEF Printed
  <2> QED
    BY <1>6, <2>1 DEF RowText
<1> QED
  BY <1>4, <1>5, <1>6

\* t has row a of s at P[a], and at Q[a], which is next to it for a negation of
\* several, what holds the rows below it.
PrintsBy(s, t, P, Q) ==
    /\ t \in Seq(TextRows)
    /\ P \in [DOMAIN s -> DOMAIN t] /\ Q \in [DOMAIN s -> DOMAIN t] /\ P[1] = 1
    /\ \A a \in DOMAIN s :
          /\ Q[a] = P[a] + (IF a \in Wrapped(s) THEN 1 ELSE 0)
          /\ a < Len(s) => P[a + 1] = Q[a] + 1
          /\ a = Len(s) => Len(t) = Q[a]
          /\ t[P[a]] = RowText(s, a)
          /\ a \in Wrapped(s) => t[Q[a]] = InnerText(s, a) /\ s[a].kind = "not"
    /\ \A a, b \in DOMAIN s : a < b => Q[a] < P[b]
    /\ \A k \in DOMAIN t : \E a \in DOMAIN s : k = P[a] \/ k = Q[a]

LEMMA PrintedPlaces ==
    ASSUME NEW s \in Seq(Nodes), s # <<>>, Full(s), NEW t, t = ToText(s)
    PROVE  \E P, Q : PrintsBy(s, t, P, Q)
<1> DEFINE ss == [i \in DOMAIN s |-> Printed(s, i)]
<1>1. ss \in Seq(Seq(TextRows)) /\ t \in Seq(TextRows) /\ t = FlattenSeq(ss)
  BY ToTextTyped DEF ToText
<1>2. Len(ss) = Len(s) /\ Len(s) \in Nat /\ DOMAIN s = 1 .. Len(s) /\ Len(s) >= 1
      /\ \A i \in 1 .. Len(s) : ss[i] = Printed(s, i)
  BY <1>1
<1> HIDE DEF ss
<1>3. PICK at : Places(at, ss, t)
  BY <1>1, FlattenPlaces
<1>4. Covers(at, ss, t)
  BY <1>1, <1>3, PlacesFacts
<1>5. /\ at \in [1 .. Len(s) + 1 -> Nat] /\ at[1] = 0 /\ at[Len(s) + 1] = Len(t)
      /\ \A i \in 1 .. Len(s) : at[i + 1] = at[i] + Len(ss[i])
      /\ \A i \in 1 .. Len(s) : \A j \in 1 .. Len(ss[i]) : t[at[i] + j] = ss[i][j]
  BY <1>2, <1>3 DEF Places
<1>6. /\ \A i, j \in 1 .. Len(s) + 1 : i <= j => at[i] <= at[j]
      /\ \A k \in 1 .. Len(t) : \E i \in 1 .. Len(s) : \E j \in 1 .. Len(ss[i]) : k = at[i] + j
  BY <1>2, <1>4 DEF Covers
<1>7. ASSUME NEW i \in 1 .. Len(s)
      PROVE  /\ Len(ss[i]) = 1 + (IF i \in Wrapped(s) THEN 1 ELSE 0) /\ ss[i][1] = RowText(s, i)
             /\ i \in Wrapped(s) => ss[i][2] = InnerText(s, i) /\ s[i].kind = "not"
  <2>1. CASE i \in Wrapped(s)
    <3>1. ss[i] = <<RowText(s, i), InnerText(s, i)>> /\ s[i].kind = "not"
      BY <1>2, <2>1, PrintedRow
    <3>2. Len(ss[i]) = 2 /\ ss[i][1] = RowText(s, i) /\ ss[i][2] = InnerText(s, i)
      BY <3>1
    <3> QED
      BY <2>1, <3>1, <3>2
  <2>2. CASE i \notin Wrapped(s)
    <3>1. ss[i] = <<RowText(s, i)>>
      BY <1>2, <2>2, PrintedRow
    <3>2. Len(ss[i]) = 1 /\ ss[i][1] = RowText(s, i)
      BY <3>1
    <3> QED
      BY <2>2, <3>2
  <2> QED
    BY <2>1, <2>2
<1> DEFINE P == [a \in 1 .. Len(s) |-> at[a] + 1]
           Q == [a \in 1 .. Len(s) |-> at[a + 1]]
<1>8. ASSUME NEW a \in 1 .. Len(s)
      PROVE  /\ at[a] \in Nat /\ at[a + 1] \in Nat /\ at[a] < at[a + 1] /\ at[a + 1] <= Len(t)
             /\ at[a + 1] = (at[a] + 1) + (IF a \in Wrapped(s) THEN 1 ELSE 0)
             /\ t[at[a] + 1] = RowText(s, a)
             /\ a \in Wrapped(s) => t[at[a + 1]] = InnerText(s, a) /\ s[a].kind = "not"
  <2>1. a \in 1 .. Len(s) + 1 /\ a + 1 \in 1 .. Len(s) + 1 /\ Len(s) + 1 \in 1 .. Len(s) + 1 /\ a + 1 <= Len(s) + 1
    BY <1>2
  <2>2. at[a] \in Nat /\ at[a + 1] \in Nat /\ at[a + 1] <= Len(t)
    BY <1>5, <1>6, <2>1
  <2>3. at[a + 1] = at[a] + Len(ss[a])
    BY <1>5
  <2>4. CASE a \in Wrapped(s)
    <3>0. Len(ss[a]) = 1 + 1
      BY <1>7, <2>4
    <3>1. Len(ss[a]) = 2 /\ 1 \in 1 .. Len(ss[a]) /\ 2 \in 1 .. Len(ss[a])
      BY <3>0
    <3>2. t[at[a] + 1] = RowText(s, a) /\ t[at[a] + 2] = InnerText(s, a) /\ s[a].kind = "not"
      BY <1>5, <1>7, <2>4, <3>1
    <3> QED
      BY <2>2, <2>3, <2>4, <3>1, <3>2
  <2>5. CASE a \notin Wrapped(s)
    <3>0. Len(ss[a]) = 1 + 0
      BY <1>7, <2>5
    <3>1. Len(ss[a]) = 1 /\ 1 \in 1 .. Len(ss[a])
      BY <3>0
    <3>2. t[at[a] + 1] = RowText(s, a)
      BY <1>5, <1>7, <3>1
    <3> QED
      BY <2>2, <2>3, <2>5, <3>1, <3>2
  <2> QED
    BY <2>4, <2>5
<1>9. \A a \in 1 .. Len(s) : P[a] = at[a] + 1 /\ Q[a] = at[a + 1]
  OBVIOUS
<1>10. P \in [DOMAIN s -> DOMAIN t] /\ Q \in [DOMAIN s -> DOMAIN t]
  <2>1. DOMAIN t = 1 .. Len(t) /\ Len(t) \in Nat
    BY <1>1
  <2>2. \A a \in 1 .. Len(s) : at[a] + 1 \in 1 .. Len(t) /\ at[a + 1] \in 1 .. Len(t)
    BY <1>8, <2>1
  <2> QED
    BY <1>2, <2>1, <2>2
<1> HIDE DEF P, Q
<1>11. P[1] = 1
  BY <1>2, <1>5, <1>9
<1>12. ASSUME NEW a \in DOMAIN s
       PROVE  /\ Q[a] = P[a] + (IF a \in Wrapped(s) THEN 1 ELSE 0)
              /\ a < Len(s) => P[a + 1] = Q[a] + 1
              /\ a = Len(s) => Len(t) = Q[a]
              /\ t[P[a]] = RowText(s, a)
              /\ a \in Wrapped(s) => t[Q[a]] = InnerText(s, a) /\ s[a].kind = "not"
  <2>1. a \in 1 .. Len(s) /\ (a < Len(s) => a + 1 \in 1 .. Len(s))
    BY <1>2
  <2> QED
    BY <1>5, <1>8, <1>9, <2>1
<1>13. ASSUME NEW a \in DOMAIN s, NEW b \in DOMAIN s, a < b PROVE Q[a] < P[b]
  <2>1. a \in 1 .. Len(s) /\ b \in 1 .. Len(s) /\ a + 1 \in 1 .. Len(s) + 1 /\ b \in 1 .. Len(s) + 1 /\ a + 1 <= b
    BY <1>2, <1>13
  <2>2. at[a + 1] <= at[b] /\ at[a + 1] \in Nat /\ at[b] \in Nat
    BY <1>5, <1>6, <2>1
  <2> QED
    BY <1>9, <2>1, <2>2
<1>14. ASSUME NEW k \in DOMAIN t PROVE \E a \in DOMAIN s : k = P[a] \/ k = Q[a]
  <2>1. k \in 1 .. Len(t)
    BY <1>1
  <2>2. PICK a \in 1 .. Len(s) : \E j \in 1 .. Len(ss[a]) : k = at[a] + j
    BY <1>6, <2>1
  <2>3. PICK j \in 1 .. Len(ss[a]) : k = at[a] + j
    BY <2>2
  <2>4. j = 1 \/ (j = 2 /\ a \in Wrapped(s))
    BY <1>7, <2>3
  <2>5. k = at[a] + 1 \/ k = at[a + 1]
    BY <1>8, <2>3, <2>4
  <2> QED
    BY <1>2, <1>9, <2>5
<1>15. PrintsBy(s, t, P, Q)
  BY <1>1, <1>10, <1>11, <1>12, <1>13, <1>14 DEF PrintsBy
<1> QED
  BY <1>15

-----------------------------------------------------------------------------
(* Filters: the rows of a text.                                            *)

LEMMA BelowRange ==
    ASSUME NEW t, Deep(t), NEW x \in DOMAIN t, NEW e \in x .. Len(t),
           \A k \in x + 1 .. e : t[k].depth > t[x].depth,
           e < Len(t) => t[e + 1].depth <= t[x].depth
    PROVE  Below(t, x) = x + 1 .. e
<1>0. DOMAIN t = 1 .. Len(t) /\ Len(t) \in Nat /\ \A k \in 1 .. Len(t) : t[k].depth \in Nat
  BY DeepFacts
<1>1. ASSUME NEW j \in x + 1 .. e PROVE j \in Below(t, x)
  <2>1. j \in x + 1 .. Len(t) /\ \A k \in x + 1 .. j : k \in x + 1 .. e
    BY <1>0
  <2> QED
    BY <2>1 DEF Below
<1>2. ASSUME NEW j \in Below(t, x) PROVE j \in x + 1 .. e
  <2>1. j \in x + 1 .. Len(t) /\ \A k \in x + 1 .. j : t[k].depth > t[x].depth
    BY DEF Below
  <2> SUFFICES ASSUME j > e PROVE FALSE
    BY <1>0, <2>1
  <2>2. e < Len(t) /\ e + 1 \in x + 1 .. j /\ e + 1 \in 1 .. Len(t)
    BY <1>0, <2>1
  <2>3. t[e + 1].depth > t[x].depth /\ t[e + 1].depth <= t[x].depth
    BY <2>1, <2>2
  <2> QED
    BY <1>0, <2>2, <2>3
<1> QED
  BY <1>1, <1>2

LEMMA RowTextFacts ==
    ASSUME NEW s, NEW i
    PROVE  /\ RowText(s, i).depth = Printing(s, i)
           /\ IsCond(s[i]) => RowText(s, i).kind = "item"
           /\ ~IsCond(s[i]) => RowText(s, i).kind = s[i].kind
           /\ InnerText(s, i).depth = Printing(s, i) + 1 /\ InnerText(s, i).kind = "and"
BY DEF RowText, InnerText, Text, Item

\* The depths of a text's rows, and the rows that print what is below a row.
PrintsRows(s, t, P, Q) ==
    /\ Deep(t) /\ DOMAIN t = 1 .. Len(t) /\ Len(t) \in Nat /\ DOMAIN s = 1 .. Len(s) /\ Len(s) \in Nat
    /\ \A a \in 1 .. Len(s) :
          /\ P[a] \in 1 .. Len(t) /\ Q[a] \in 1 .. Len(t) /\ P[a] <= Q[a]
          /\ t[P[a]].depth = Printing(s, a) /\ t[Q[a]].depth = Holder(s, a)
          /\ End(s, a) \in a .. Len(s) /\ Below(s, a) = a + 1 .. End(s, a)
          /\ Q[a] <= Q[End(s, a)]
          /\ End(s, a) < Len(s) => P[End(s, a) + 1] = Q[End(s, a)] + 1
          /\ End(s, a) = Len(s) => Q[End(s, a)] = Len(t)
    /\ \A a \in 1 .. Len(s) : \A k \in Q[a] + 1 .. Q[End(s, a)] :
          \E b \in Below(s, a) : k = P[b] \/ (k = Q[b] /\ k # P[b])
    /\ \A a \in 1 .. Len(s) : \A b \in Below(s, a) :
          P[b] \in Q[a] + 1 .. Q[End(s, a)] /\ Q[b] \in Q[a] + 1 .. Q[End(s, a)]

LEMMA PrintsByRows ==
    ASSUME NEW s \in Seq(Nodes), NEW t, NEW P, NEW Q, PrintsBy(s, t, P, Q)
    PROVE  PrintsRows(s, t, P, Q)
<1>0. Deep(s) /\ DOMAIN s = 1 .. Len(s) /\ Len(s) \in Nat
  BY NodesDeep
<1>1. Deep(t) /\ DOMAIN t = 1 .. Len(t) /\ Len(t) \in Nat
  <2>1. t \in Seq(TextRows)
    BY DEF PrintsBy
  <2>2. \A n \in TextRows : n.depth \in Nat
    BY DEF TextRows
  <2>3. DOMAIN t = 1 .. Len(t) /\ Len(t) \in Nat /\ \A k \in 1 .. Len(t) : t[k] \in TextRows
    BY <2>1
  <2>4. Listed(t)
    BY <2>1 DEF Listed, ToSet
  <2> QED
    BY <2>2, <2>3, <2>4 DEF Deep
<1>2. ASSUME NEW a \in 1 .. Len(s)
      PROVE  /\ P[a] \in 1 .. Len(t) /\ Q[a] \in 1 .. Len(t)
             /\ Q[a] = P[a] + (IF a \in Wrapped(s) THEN 1 ELSE 0)
             /\ a < Len(s) => P[a + 1] = Q[a] + 1
             /\ a = Len(s) => Len(t) = Q[a]
             /\ t[P[a]] = RowText(s, a)
             /\ a \in Wrapped(s) => t[Q[a]] = InnerText(s, a)
  BY <1>0, <1>1 DEF PrintsBy
<1>3. ASSUME NEW a \in 1 .. Len(s)
      PROVE  P[a] <= Q[a] /\ t[P[a]].depth = Printing(s, a) /\ t[Q[a]].depth = Holder(s, a)
  <2>1. CASE a \in Wrapped(s)
    BY <1>1, <1>2, <2>1, RowTextFacts DEF Holder
  <2>2. CASE a \notin Wrapped(s)
    <3>1. Q[a] = P[a]
      BY <1>1, <1>2, <2>2
    <3>2. Printing(s, a) \in Nat
      BY <1>0, PrintingFacts
    <3> QED
      BY <1>1, <1>2, <2>2, <3>1, <3>2, RowTextFacts DEF Holder
  <2> QED
    BY <2>1, <2>2
<1>4. ASSUME NEW a \in 1 .. Len(s)
      PROVE  End(s, a) \in a .. Len(s) /\ Below(s, a) = a + 1 .. End(s, a) /\ End(s, a) \in 1 .. Len(s)
  <2>1. End(s, a) \in a .. Len(s) /\ Below(s, a) = a + 1 .. End(s, a)
    BY <1>0, EndFacts
  <2> QED
    BY <1>0, <2>1
<1>5. ASSUME NEW a \in 1 .. Len(s), NEW b \in 1 .. Len(s), a < b PROVE Q[a] < P[b] /\ Q[a] < Q[b]
  <2>1. Q[a] < P[b] /\ P[b] <= Q[b]
    BY <1>0, <1>3, <1>5 DEF PrintsBy
  <2> QED
    BY <1>2, <2>1
<1>6. ASSUME NEW a \in 1 .. Len(s)
      PROVE  /\ Q[a] <= Q[End(s, a)]
             /\ End(s, a) < Len(s) => P[End(s, a) + 1] = Q[End(s, a)] + 1
             /\ End(s, a) = Len(s) => Q[End(s, a)] = Len(t)
  <2>1. a < End(s, a) \/ a = End(s, a)
    BY <1>0, <1>4
  <2>2. Q[a] <= Q[End(s, a)]
    BY <1>1, <1>2, <1>4, <1>5, <2>1
  <2> QED
    BY <1>2, <1>4, <2>2
<1>7. ASSUME NEW a \in 1 .. Len(s), NEW k \in Q[a] + 1 .. Q[End(s, a)]
      PROVE  \E b \in Below(s, a) : k = P[b] \/ (k = Q[b] /\ k # P[b])
  <2>0. Q[a] \in 1 .. Len(t) /\ Q[End(s, a)] \in 1 .. Len(t)
    BY <1>2, <1>4
  <2>1. k \in 1 .. Len(t) /\ k > Q[a] /\ k <= Q[End(s, a)]
    BY <1>1, <2>0
  <2>2. PICK b \in 1 .. Len(s) : k = P[b] \/ k = Q[b]
    BY <1>0, <1>1, <2>1 DEF PrintsBy
  <2>3. P[b] \in 1 .. Len(t) /\ Q[b] \in 1 .. Len(t) /\ P[b] <= Q[b]
    BY <1>2, <1>3
  <2>4. b > a
    <3> SUFFICES ASSUME b <= a PROVE FALSE
      BY <1>0
    <3>1. Q[b] <= Q[a]
      <4>1. b = a \/ b < a
        BY <1>0
      <4> QED
        BY <1>1, <1>2, <1>5, <2>3, <4>1
    <3> QED
      BY <1>1, <2>0, <2>1, <2>2, <2>3, <3>1
  <2>5. b <= End(s, a)
    <3> SUFFICES ASSUME b > End(s, a) PROVE FALSE
      BY <1>0, <1>4
    <3>1. Q[End(s, a)] < P[b] /\ Q[End(s, a)] < Q[b]
      BY <1>4, <1>5
    <3> QED
      BY <1>1, <2>0, <2>1, <2>2, <2>3, <3>1
  <2>6. b \in Below(s, a)
    BY <1>0, <1>4, <2>4, <2>5
  <2> QED
    BY <2>2, <2>6
<1>8. ASSUME NEW a \in 1 .. Len(s), NEW b \in Below(s, a)
      PROVE  P[b] \in Q[a] + 1 .. Q[End(s, a)] /\ Q[b] \in Q[a] + 1 .. Q[End(s, a)]
  <2>1. b \in 1 .. Len(s) /\ a < b /\ b <= End(s, a)
    BY <1>0, <1>4
  <2>2. Q[a] < P[b] /\ P[b] <= Q[b]
    BY <1>3, <1>5, <2>1
  <2>3. Q[b] <= Q[End(s, a)]
    <3>1. b = End(s, a) \/ b < End(s, a)
      BY <1>0, <1>4, <2>1
    <3>2. CASE b < End(s, a)
      <4>1. Q[b] < Q[End(s, a)] /\ Q[b] \in 1 .. Len(t) /\ Q[End(s, a)] \in 1 .. Len(t)
        BY <1>2, <1>4, <1>5, <2>1, <3>2
      <4> QED
        BY <1>1, <4>1
    <3>3. CASE b = End(s, a)
      <4>1. Q[b] \in 1 .. Len(t)
        BY <1>2, <2>1
      <4> QED
        BY <1>1, <3>3, <4>1
    <3> QED
      BY <3>1, <3>2, <3>3
  <2>4. P[b] \in 1 .. Len(t) /\ Q[b] \in 1 .. Len(t) /\ Q[a] \in 1 .. Len(t) /\ Q[End(s, a)] \in 1 .. Len(t)
    BY <1>2, <1>4, <2>1
  <2> QED
    BY <1>1, <2>2, <2>3, <2>4
<1> QED
  BY <1>0, <1>1, <1>2, <1>3, <1>4, <1>6, <1>7, <1>8 DEF PrintsRows

\* What holds the rows below row a in a text has, right below it, where those
\* right below row a are.
PrintsKids(s, t, P, Q) ==
    \A a \in 1 .. Len(s) :
        /\ Kids(t, Q[a]) = {P[b] : b \in Kids(s, a)}
        /\ a \in Wrapped(s) => Kids(t, P[a]) = {Q[a]}

LEMMA PrintedKids ==
    ASSUME NEW s \in Seq(Nodes), NEW t, NEW P, NEW Q, PrintsBy(s, t, P, Q)
    PROVE  PrintsKids(s, t, P, Q)
<1>0. PrintsRows(s, t, P, Q) /\ Deep(s)
  BY PrintsByRows, NodesDeep
<1>1. Deep(t) /\ DOMAIN t = 1 .. Len(t) /\ Len(t) \in Nat /\ DOMAIN s = 1 .. Len(s) /\ Len(s) \in Nat
  BY <1>0 DEF PrintsRows
<1>2. ASSUME NEW a \in 1 .. Len(s)
      PROVE  /\ P[a] \in 1 .. Len(t) /\ Q[a] \in 1 .. Len(t) /\ P[a] <= Q[a]
             /\ t[P[a]].depth = Printing(s, a) /\ t[Q[a]].depth = Holder(s, a)
             /\ End(s, a) \in a .. Len(s) /\ Below(s, a) = a + 1 .. End(s, a)
             /\ Q[a] <= Q[End(s, a)]
             /\ End(s, a) < Len(s) => P[End(s, a) + 1] = Q[End(s, a)] + 1
             /\ End(s, a) = Len(s) => Q[End(s, a)] = Len(t)
             /\ \A k \in Q[a] + 1 .. Q[End(s, a)] : \E b \in Below(s, a) : k = P[b] \/ (k = Q[b] /\ k # P[b])
             /\ \A b \in Below(s, a) : P[b] \in Q[a] + 1 .. Q[End(s, a)] /\ Q[b] \in Q[a] + 1 .. Q[End(s, a)]
             /\ Printing(s, a) \in Nat /\ Holder(s, a) \in Nat /\ PrintsDeeper(s, a)
  BY <1>0, <1>1, PrintingFacts DEF PrintsRows
<1>3. ASSUME NEW a \in 1 .. Len(s)
      PROVE  /\ Q[a] = P[a] + (IF a \in Wrapped(s) THEN 1 ELSE 0)
             /\ Holder(s, a) = Printing(s, a) + (IF a \in Wrapped(s) THEN 1 ELSE 0)
  BY <1>1 DEF PrintsBy, Holder
<1>4. ASSUME NEW a \in 1 .. Len(s), NEW b \in Below(s, a)
      PROVE  /\ b \in 1 .. Len(s)
             /\ b \in Kids(s, a) => Printing(s, b) = Holder(s, a) + 1
             /\ b \notin Kids(s, a) => Printing(s, b) > Holder(s, a) + 1
             /\ Q[b] # P[b] => Holder(s, b) > Holder(s, a) + 1
  <2>1. b \in 1 .. Len(s)
    BY <1>0, <1>1, BelowFacts
  <2>2. /\ b \in Kids(s, a) => Printing(s, b) = Holder(s, a) + 1
        /\ b \notin Kids(s, a) => Printing(s, b) > Holder(s, a) + 1
    BY <1>2 DEF PrintsDeeper
  <2>3. Printing(s, b) \in Nat /\ Holder(s, a) \in Nat /\ Printing(s, b) >= Holder(s, a) + 1
    BY <1>2, <2>1, <2>2
  <2>4. Q[b] # P[b] => Holder(s, b) = Printing(s, b) + 1
    <3>1. P[b] \in 1 .. Len(t)
      BY <1>2, <2>1
    <3>2. P[b] \in Nat
      BY <3>1
    <3> QED
      BY <1>3, <2>1, <3>2
  <2> QED
    BY <2>1, <2>2, <2>3, <2>4
<1>5. ASSUME NEW a \in 1 .. Len(s), NEW k \in Q[a] + 1 .. Q[End(s, a)]
      PROVE  t[k].depth > Holder(s, a) /\ (t[k].depth = Holder(s, a) + 1 <=> \E b \in Kids(s, a) : k = P[b])
  <2>1. PICK b \in Below(s, a) : k = P[b] \/ (k = Q[b] /\ k # P[b])
    BY <1>2
  <2>2. /\ b \in 1 .. Len(s) /\ Holder(s, a) \in Nat /\ Printing(s, b) \in Nat /\ Holder(s, b) \in Nat
        /\ t[P[b]].depth = Printing(s, b) /\ t[Q[b]].depth = Holder(s, b)
    BY <1>2, <1>4
  <2>3. ASSUME NEW c \in Kids(s, a), k = P[c] PROVE t[k].depth = Holder(s, a) + 1
    <3>1. c \in Below(s, a)
      BY <1>0, <1>1, BelowFacts
    <3> QED
      BY <1>2, <1>4, <2>3, <3>1
  <2>4. CASE k = P[b]
    BY <1>4, <2>2, <2>3, <2>4
  <2>5. CASE k = Q[b] /\ k # P[b]
    BY <1>4, <2>2, <2>3, <2>5
  <2> QED
    BY <2>1, <2>4, <2>5
<1>6. ASSUME NEW a \in 1 .. Len(s), Q[End(s, a)] < Len(t) PROVE t[Q[End(s, a)] + 1].depth <= Printing(s, a)
  <2>1. End(s, a) \in 1 .. Len(s)
    BY <1>1, <1>2
  <2>2. End(s, a) < Len(s)
    <3>1. Q[End(s, a)] # Len(t)
      BY <1>1, <1>6
    <3>2. End(s, a) # Len(s)
      BY <1>2, <3>1
    <3> QED
      BY <1>1, <2>1, <3>2
  <2>3. End(s, a) + 1 \in 1 .. Len(s)
    BY <1>1, <2>1, <2>2
  <2>4. Printing(s, End(s, a) + 1) <= Printing(s, a)
    BY <1>2, <2>2 DEF PrintsDeeper
  <2> QED
    BY <1>2, <2>2, <2>3, <2>4
<1>7. ASSUME NEW a \in 1 .. Len(s) PROVE Below(t, Q[a]) = Q[a] + 1 .. Q[End(s, a)]
  <2>1. Q[a] \in DOMAIN t /\ Q[End(s, a)] \in Q[a] .. Len(t) /\ t[Q[a]].depth = Holder(s, a)
    <3>1. End(s, a) \in 1 .. Len(s)
      BY <1>1, <1>2
    <3>2. Q[End(s, a)] \in 1 .. Len(t) /\ Q[a] \in 1 .. Len(t) /\ Q[a] <= Q[End(s, a)]
      BY <1>2, <3>1
    <3>3. t[Q[a]].depth = Holder(s, a)
      BY <1>2
    <3> QED
      BY <1>1, <3>2, <3>3
  <2>2. Printing(s, a) \in Nat /\ Holder(s, a) \in Nat /\ Printing(s, a) <= Holder(s, a)
    <3>1. Printing(s, a) \in Nat /\ Holder(s, a) \in Nat
      BY <1>2
    <3>2. Holder(s, a) = Printing(s, a) + (IF a \in Wrapped(s) THEN 1 ELSE 0)
      BY <1>3
    <3> QED
      BY <3>1, <3>2
  <2>3. Q[End(s, a)] < Len(t) => t[Q[End(s, a)] + 1].depth <= t[Q[a]].depth
    <3> SUFFICES ASSUME Q[End(s, a)] < Len(t) PROVE t[Q[End(s, a)] + 1].depth <= t[Q[a]].depth
      OBVIOUS
    <3>1. t[Q[End(s, a)] + 1].depth <= Printing(s, a)
      BY <1>6
    <3>2. t[Q[End(s, a)] + 1].depth \in Nat
      <4>1. Q[End(s, a)] + 1 \in 1 .. Len(t)
        BY <1>1, <2>1
      <4> QED
        BY <1>1, <4>1, DeepFacts
    <3> QED
      BY <2>1, <2>2, <3>1, <3>2
  <2>4. \A k \in Q[a] + 1 .. Q[End(s, a)] : t[k].depth > t[Q[a]].depth
    BY <1>5, <2>1
  <2>5. Deep(t)
    BY <1>1
  <2> DEFINE x == Q[a]
             e == Q[End(s, a)]
  <2>6. /\ x \in DOMAIN t /\ e \in x .. Len(t) /\ \A k \in x + 1 .. e : t[k].depth > t[x].depth
        /\ e < Len(t) => t[e + 1].depth <= t[x].depth
    BY <2>1, <2>3, <2>4
  <2> HIDE DEF x, e
  <2>7. Below(t, x) = x + 1 .. e
    BY <2>5, <2>6, BelowRange
  <2> QED
    BY <2>7 DEF x, e
<1>8. ASSUME NEW a \in 1 .. Len(s) PROVE Kids(t, Q[a]) = {P[b] : b \in Kids(s, a)}
  <2>1. t[Q[a]].depth = Holder(s, a)
    BY <1>2
  <2>2. ASSUME NEW k \in Kids(t, Q[a]) PROVE \E b \in Kids(s, a) : k = P[b]
    <3>1. k \in Q[a] + 1 .. Q[End(s, a)] /\ t[k].depth = Holder(s, a) + 1
      BY <1>7, <2>1 DEF Kids
    <3> QED
      BY <1>5, <3>1
  <2>3. ASSUME NEW b \in Kids(s, a) PROVE P[b] \in Kids(t, Q[a])
    <3>1. b \in Below(s, a)
      BY <1>0, <1>1, BelowFacts
    <3>2. P[b] \in Q[a] + 1 .. Q[End(s, a)]
      BY <1>2, <3>1
    <3>3. t[P[b]].depth = Holder(s, a) + 1
      BY <1>5, <3>2
    <3> QED
      BY <1>7, <2>1, <3>2, <3>3 DEF Kids
  <2> QED
    BY <2>2, <2>3
<1>9. ASSUME NEW a \in 1 .. Len(s), a \in Wrapped(s) PROVE Kids(t, P[a]) = {Q[a]}
  <2>1. /\ Q[a] = P[a] + 1 /\ Holder(s, a) = Printing(s, a) + 1 /\ P[a] \in 1 .. Len(t) /\ Q[a] \in 1 .. Len(t)
        /\ Printing(s, a) \in Nat /\ Holder(s, a) \in Nat
        /\ t[P[a]].depth = Printing(s, a) /\ t[Q[a]].depth = Holder(s, a)
    BY <1>2, <1>3, <1>9
  <2>2. Q[End(s, a)] \in 1 .. Len(t) /\ Q[a] <= Q[End(s, a)]
    <3>1. End(s, a) \in 1 .. Len(s)
      BY <1>1, <1>2
    <3> QED
      BY <1>2, <3>1
  <2>3. \A k \in P[a] + 1 .. Q[End(s, a)] : k = Q[a] \/ k \in Q[a] + 1 .. Q[End(s, a)]
    BY <1>1, <2>1, <2>2
  <2>4. ASSUME NEW k \in Q[a] + 1 .. Q[End(s, a)] PROVE t[k].depth > Printing(s, a) + 1
    <3>1. k \in 1 .. Len(t)
      BY <1>1, <2>1, <2>2
    <3>2. t[k].depth \in Nat /\ t[k].depth > Holder(s, a)
      BY <1>1, <1>5, <3>1, DeepFacts
    <3> QED
      BY <2>1, <3>2
  <2>5. Below(t, P[a]) = P[a] + 1 .. Q[End(s, a)]
    <3>1. Q[End(s, a)] \in P[a] .. Len(t) /\ P[a] \in DOMAIN t
      BY <1>1, <2>1, <2>2
    <3>2. \A k \in P[a] + 1 .. Q[End(s, a)] : t[k].depth > t[P[a]].depth
      <4> SUFFICES ASSUME NEW k \in P[a] + 1 .. Q[End(s, a)] PROVE t[k].depth > t[P[a]].depth
        OBVIOUS
      <4>1. CASE k = Q[a]
        BY <2>1, <4>1
      <4>2. CASE k \in Q[a] + 1 .. Q[End(s, a)]
        <5>1. k \in 1 .. Len(t)
          BY <1>1, <2>1, <2>2, <4>2
        <5>2. t[k].depth \in Nat /\ t[k].depth > Printing(s, a) + 1
          BY <1>1, <2>4, <4>2, <5>1, DeepFacts
        <5> QED
          BY <2>1, <5>2
      <4> QED
        BY <2>3, <4>1, <4>2
    <3>3. Q[End(s, a)] < Len(t) => t[Q[End(s, a)] + 1].depth <= t[P[a]].depth
      BY <1>6, <2>1
    <3> QED
      BY <1>1, <3>1, <3>2, <3>3, BelowRange
  <2>6. Q[a] \in Kids(t, P[a])
    <3>1. Q[a] \in P[a] + 1 .. Q[End(s, a)] /\ t[Q[a]].depth = t[P[a]].depth + 1
      BY <1>1, <2>1, <2>2
    <3> QED
      BY <2>5, <3>1 DEF Kids
  <2>7. ASSUME NEW k \in Kids(t, P[a]) PROVE k = Q[a]
    <3>1. k \in P[a] + 1 .. Q[End(s, a)] /\ t[k].depth = Printing(s, a) + 1
      BY <2>1, <2>5 DEF Kids
    <3>2. ~(t[k].depth > Printing(s, a) + 1)
      BY <2>1, <3>1
    <3> QED
      BY <2>3, <2>4, <3>1, <3>2
  <2> QED
    BY <2>6, <2>7
<1> QED
  BY <1>8, <1>9 DEF PrintsKids

-----------------------------------------------------------------------------
(* Filters: a text says what its tree does.                                *)

\* Escaping keeps what is asserted.
LEMMA SpelledAsserts ==
    ASSUME NEW n \in Nodes
    PROVE  Assertion(n.attr, n.op, Spelled(n), TRUE) = Asserted(n)
<1>0. n.val \in Values /\ n.raw \in BOOLEAN
  BY DEF Nodes
<1>1. CASE n.raw
  <2>1. n.raw = TRUE
    BY <1>0, <1>1
  <2> QED
    BY <2>1 DEF Spelled, Asserted
<1>2. CASE ~n.raw
  <2> DEFINE v == n.val
             e == EscapeValue(n.op, v)
  <2>1. n.raw = FALSE /\ Spelled(n) = e
    BY <1>0, <1>2 DEF Spelled
  <2>2. v.esc \in Nat /\ (v.is \in {"word", "padded"} => v.esc = 0)
    BY <1>0 DEF Values
  <2>3. CASE v.is \in {"word", "padded"} \/ (n.op = "=" /\ Wild(v))
    <3>1. e = v /\ v.esc = 0
      BY <2>2, <2>3 DEF EscapeValue, Wild
    <3> QED
      BY <2>1, <3>1 DEF Assertion, Asserted
  <2>4. CASE ~(v.is \in {"word", "padded"} \/ (n.op = "=" /\ Wild(v)))
    <3>1. e = [v EXCEPT !.esc = @ + 1]
      BY <2>4 DEF EscapeValue
    <3>2. v \in [is : {"star", "pattern", "special"}, esc : Nat]
      BY <1>0, <2>4 DEF Values
    <3> HIDE DEF e, v
    <3>3. e.esc = v.esc + 1 /\ e.is = v.is /\ [e EXCEPT !.esc = @ - 1] = v
      <4>1. e = [is |-> v.is, esc |-> v.esc + 1] /\ v = [is |-> v.is, esc |-> v.esc] /\ v.esc \in Nat
        BY <3>1, <3>2
      <4>2. [e EXCEPT !.esc = @ - 1] = [is |-> v.is, esc |-> (v.esc + 1) - 1]
        BY <4>1
      <4>3. (v.esc + 1) - 1 = v.esc
        BY <4>1
      <4>4. e.esc = v.esc + 1 /\ e.is = v.is
        BY <4>1
      <4> QED
        BY <4>1, <4>2, <4>3, <4>4
    <3>4. e.esc > 0 /\ ~Wild(e) /\ ~(Wild(v) /\ n.op = "=")
      BY <2>2, <2>4, <3>3 DEF Wild
    <3>5. Assertion(n.attr, n.op, e, TRUE) = [attr |-> n.attr, op |-> n.op, any |-> FALSE, val |-> v]
      BY <3>3, <3>4 DEF Assertion
    <3>6. Assertion(n.attr, n.op, v, FALSE) = [attr |-> n.attr, op |-> n.op, any |-> FALSE, val |-> v]
      BY <3>4 DEF Assertion
    <3>7. Asserted(n) = Assertion(n.attr, n.op, v, FALSE)
      BY <2>1 DEF Asserted, v
    <3> QED
      BY <2>1, <3>5, <3>6, <3>7
  <2> QED
    BY <2>3, <2>4
<1> QED
  BY <1>1, <1>2

LEMMA PrintedMatches ==
    ASSUME NEW s \in Seq(Nodes), s # <<>>, Full(s), NEW t, t = ToText(s), NEW world
    PROVE  Matches(t, world) = Weighed(s, world)
<1> DEFINE tleaf == {i \in DOMAIN t : Assertion(t[i].attr, t[i].op, t[i].val, TRUE) \in world}
           tkids == [i \in DOMAIN t |-> Kids(t, i)]
<1>1. PICK P, Q : PrintsBy(s, t, P, Q)
  BY PrintedPlaces
<1>2. PrintsRows(s, t, P, Q) /\ PrintsKids(s, t, P, Q) /\ Judgeable(s, AllKids(s))
  BY <1>1, PrintsByRows, PrintedKids, RowsJudgeable
<1>3. /\ Deep(t) /\ DOMAIN t = 1 .. Len(t) /\ Len(t) \in Nat /\ DOMAIN s = 1 .. Len(s) /\ Len(s) \in Nat
      /\ \A a \in 1 .. Len(s) : P[a] \in 1 .. Len(t) /\ Q[a] \in 1 .. Len(t)
  BY <1>2 DEF PrintsRows
<1>4. /\ P \in [1 .. Len(s) -> 1 .. Len(t)] /\ P[1] = 1
      /\ \A a \in 1 .. Len(s) :
            /\ Q[a] = P[a] + (IF a \in Wrapped(s) THEN 1 ELSE 0)
            /\ t[P[a]] = RowText(s, a)
            /\ a \in Wrapped(s) => t[Q[a]] = InnerText(s, a) /\ s[a].kind = "not"
      /\ \A k \in 1 .. Len(t) : \E a \in 1 .. Len(s) : k = P[a] \/ k = Q[a]
  <2>1. /\ P \in [DOMAIN s -> DOMAIN t] /\ P[1] = 1
        /\ \A a \in DOMAIN s :
              /\ Q[a] = P[a] + (IF a \in Wrapped(s) THEN 1 ELSE 0)
              /\ t[P[a]] = RowText(s, a)
              /\ a \in Wrapped(s) => t[Q[a]] = InnerText(s, a) /\ s[a].kind = "not"
        /\ \A k \in DOMAIN t : \E a \in DOMAIN s : k = P[a] \/ k = Q[a]
    BY <1>1 DEF PrintsBy
  <2> QED
    BY <1>3, <2>1
<1>5. ASSUME NEW a \in 1 .. Len(s)
      PROVE  /\ s[a] \in Nodes /\ a \notin Wrapped(s) => Q[a] = P[a]
             /\ t[P[a]].kind = IF IsCond(s[a]) THEN "item" ELSE s[a].kind
             /\ t[Q[a]].kind \in {"and", "or", "not", "cond", "item"}
  <2>1. s[a] \in Nodes
    BY <1>3
  <2>2. a \notin Wrapped(s) => Q[a] = P[a]
    <3>1. P[a] \in 1 .. Len(t) /\ Q[a] = P[a] + (IF a \in Wrapped(s) THEN 1 ELSE 0)
      BY <1>3, <1>4
    <3>2. P[a] \in Nat
      BY <3>1
    <3> QED
      BY <3>1, <3>2
  <2>3. t[P[a]].kind = IF IsCond(s[a]) THEN "item" ELSE s[a].kind
    BY <1>4, RowTextFacts
  <2>4. s[a].kind \in {"and", "or", "not", "cond"}
    BY <2>1 DEF Nodes
  <2>5. CASE a \in Wrapped(s)
    BY <1>4, <2>1, <2>3, <2>5, RowTextFacts
  <2>6. CASE a \notin Wrapped(s)
    BY <2>1, <2>2, <2>3, <2>4, <2>6
  <2> QED
    BY <2>1, <2>2, <2>3, <2>5, <2>6
<1>6. Judgeable(t, tkids)
  <2>1. 1 \in DOMAIN t
    BY <1>2, <1>3, <1>4 DEF Judgeable
  <2>2. ASSUME NEW k \in 1 .. Len(t) PROVE t[k].kind \in {"and", "or", "not", "cond", "item"}
    <3>1. PICK a \in 1 .. Len(s) : k = P[a] \/ k = Q[a]
      BY <1>4
    <3>2. s[a].kind \in {"and", "or", "not", "cond"}
      <4>1. s[a] \in Nodes
        BY <1>3
      <4> QED
        BY <4>1 DEF Nodes
    <3> QED
      BY <1>5, <3>1, <3>2
  <2>3. ASSUME NEW k \in 1 .. Len(t), NEW j \in tkids[k] PROVE j \in k + 1 .. Len(t)
    <3>1. j \in Kids(t, k)
      BY <1>3
    <3>2. j \in 1 .. Len(t) /\ k < j
      BY <1>3, <3>1, BelowFacts
    <3> QED
      BY <1>3, <3>2
  <2> HIDE DEF tkids
  <2> QED
    BY <1>3, <2>1, <2>2, <2>3 DEF Judgeable
<1>7. \A k \in 1 .. Len(t) : tkids[k] = Kids(t, k)
                             /\ (k \in tleaf <=> Assertion(t[k].attr, t[k].op, t[k].val, TRUE) \in world)
  BY <1>3
<1>8. Matches(t, world) = Judged(t, tleaf, tkids)
  BY DEF Matches
<1> HIDE DEF tleaf, tkids
<1>9. ASSUME NEW a \in 1 .. Len(s)
      PROVE  Reads(s, Holding(s, world), AllKids(s), t, tleaf, tkids, P, a)
  <2>0. /\ AllKids(s)[a] = Kids(s, a) /\ P[a] \in 1 .. Len(t) /\ Q[a] \in 1 .. Len(t)
        /\ Kids(t, Q[a]) = {P[b] : b \in Kids(s, a)}
        /\ a \in Wrapped(s) => Kids(t, P[a]) = {Q[a]}
    BY <1>2, <1>3 DEF AllKids, PrintsKids
  <2>1. CASE IsCond(s[a])
    <3>1. t[P[a]] = Item(s[a].attr, s[a].op, Spelled(s[a]), Printing(s, a))
      BY <1>4, <2>1 DEF RowText
    <3>2. Assertion(t[P[a]].attr, t[P[a]].op, t[P[a]].val, TRUE) = Asserted(s[a])
      <4>1. Assertion(t[P[a]].attr, t[P[a]].op, t[P[a]].val, TRUE) = Assertion(s[a].attr, s[a].op, Spelled(s[a]), TRUE)
        BY <3>1 DEF Item
      <4>2. s[a] \in Nodes
        BY <1>3
      <4> QED
        BY <4>1, <4>2, SpelledAsserts
    <3>3. a \in Holding(s, world) <=> P[a] \in tleaf
      BY <1>3, <1>7, <2>0, <3>2 DEF Holding
    <3>4. IsLeaf(s[a]) /\ IsLeaf(t[P[a]])
      BY <1>5, <2>1 DEF IsLeaf, IsCond
    <3> QED
      BY <3>3, <3>4 DEF Reads
  <2>2. CASE ~IsCond(s[a]) /\ a \notin Wrapped(s)
    <3>1. t[P[a]].kind = s[a].kind /\ Q[a] = P[a]
      BY <1>5, <2>2
    <3>2. ~IsLeaf(s[a])
      <4>1. s[a] \in Nodes
        BY <1>3
      <4> QED
        BY <2>2, <4>1 DEF IsLeaf, IsCond, Nodes
    <3>3. tkids[P[a]] = {P[b] : b \in AllKids(s)[a]}
      BY <1>7, <2>0, <3>1
    <3> QED
      BY <3>1, <3>2, <3>3 DEF Reads
  <2>3. CASE a \in Wrapped(s)
    <3>1. s[a].kind = "not" /\ ~IsCond(s[a]) /\ t[Q[a]].kind = "and"
      BY <1>4, <2>3, RowTextFacts DEF IsCond
    <3>2. t[P[a]].kind = "not"
      BY <1>5, <3>1
    <3>3. tkids[P[a]] = {Q[a]} /\ tkids[Q[a]] = {P[b] : b \in AllKids(s)[a]}
      BY <1>7, <2>0, <2>3
    <3> QED
      BY <1>3, <2>0, <3>1, <3>2, <3>3 DEF Reads
  <2> QED
    BY <2>1, <2>2, <2>3
<1>10. Judged(s, Holding(s, world), AllKids(s)) = Judged(t, tleaf, tkids)
  <2>1. P \in [1 .. Len(s) -> 1 .. Len(t)] /\ P[1] = 1 /\ Judgeable(s, AllKids(s))
    BY <1>2, <1>4
  <2> QED
    BY <1>6, <1>9, <2>1, SameVerdicts
<1> QED
  BY <1>8, <1>10 DEF Weighed

\* What the builder hands over means what its tree does.
LEMMA OutputMeans ==
    ASSUME NEW s \in Seq(Nodes), Nested(s), Says(s, 1), NEW world
    PROVE  Matches(Output(s), world) = Accepts(s, world)
<1> DEFINE t == Pruned(s)
           c == Collapsed(t)
<1>1. PICK p : PrunedBy(t, s, p)
  BY PrunedRows
<1>2. t \in Seq(Nodes) /\ Nested(t) /\ Full(t) /\ Weighed(t, world) = Accepts(s, world)
  <2> HIDE DEF t
  <2>1. t \in Seq(Nodes)
    BY <1>1 DEF PrunedBy
  <2>2. Nested(t) /\ Full(t)
    BY <1>1, PrunedFacts
  <2>3. Weighed(t, world) = Accepts(s, world)
    BY <1>1, PrunedWeighs
  <2> QED
    BY <2>1, <2>2, <2>3
<1> HIDE DEF t
<1>3. c \in Seq(Nodes) /\ Nested(c) /\ Full(c) /\ Weighed(c, world) = Weighed(t, world)
  <2> HIDE DEF c
  <2>1. c = Collapsed(t)
    BY DEF c
  <2> QED
    BY <1>2, <2>1, CollapsedFacts, CollapsedWeighs DEF Lifted
<1> HIDE DEF c
<1>4. Matches(ToText(c), world) = Weighed(c, world)
  BY <1>3, PrintedMatches DEF Nested
<1>5. Output(s) = ToText(c)
  BY DEF Output, c, t
<1> QED
  BY <1>2, <1>3, <1>4, <1>5

-----------------------------------------------------------------------------
(* Filters: a text is printed again by a builder that is opened on it.     *)

\* A group in a text has nothing but its kind and its depth.
Plain(n) == n.kind # "item" => n = Text(n.kind, n.depth)

LEMMA PrintedText ==
    ASSUME NEW s \in Seq(Nodes), Nested(s), Full(s), ~Single(s, 1), NEW t, t = ToText(s)
    PROVE  /\ Full(t) /\ \A k \in 1 .. Len(t) : Plain(t[k])
           /\ ~Single(t, 1)
<1>1. PICK P, Q : PrintsBy(s, t, P, Q)
  BY PrintedPlaces DEF Nested
<1>2. PrintsRows(s, t, P, Q) /\ PrintsKids(s, t, P, Q) /\ Deep(s)
  BY <1>1, PrintsByRows, PrintedKids, NodesDeep
<1>3. /\ Deep(t) /\ DOMAIN t = 1 .. Len(t) /\ Len(t) \in Nat /\ DOMAIN s = 1 .. Len(s) /\ Len(s) \in Nat
      /\ \A a \in 1 .. Len(s) : P[a] \in 1 .. Len(t) /\ Q[a] \in 1 .. Len(t) /\ P[a] <= Q[a]
  BY <1>2 DEF PrintsRows
<1>4. /\ P[1] = 1 /\ 1 \in 1 .. Len(s)
      /\ \A a \in 1 .. Len(s) :
            /\ Q[a] = P[a] + (IF a \in Wrapped(s) THEN 1 ELSE 0)
            /\ a < Len(s) => P[a + 1] = Q[a] + 1
            /\ t[P[a]] = RowText(s, a)
            /\ a \in Wrapped(s) => t[Q[a]] = InnerText(s, a) /\ s[a].kind = "not"
  <2>1. s # <<>>
    BY DEF Nested
  <2>2. 1 \in 1 .. Len(s)
    BY <2>1
  <2>3. /\ P[1] = 1
        /\ \A a \in DOMAIN s :
              /\ Q[a] = P[a] + (IF a \in Wrapped(s) THEN 1 ELSE 0)
              /\ a < Len(s) => P[a + 1] = Q[a] + 1
              /\ t[P[a]] = RowText(s, a)
              /\ a \in Wrapped(s) => t[Q[a]] = InnerText(s, a) /\ s[a].kind = "not"
    BY <1>1 DEF PrintsBy
  <2> QED
    BY <1>3, <2>2, <2>3
<1>5. ASSUME NEW a \in 1 .. Len(s), NEW b \in 1 .. Len(s), P[a] = P[b] PROVE a = b
  <2>1. \A x, y \in 1 .. Len(s) : x < y => P[x] # P[y]
    <3> SUFFICES ASSUME NEW x \in 1 .. Len(s), NEW y \in 1 .. Len(s), x < y PROVE P[x] # P[y]
      OBVIOUS
    <3>1. Q[x] < P[y]
      BY <1>1, <1>3 DEF PrintsBy
    <3>2. P[x] <= Q[x] /\ P[x] \in 1 .. Len(t) /\ Q[x] \in 1 .. Len(t) /\ P[y] \in 1 .. Len(t)
      BY <1>3
    <3> QED
      BY <1>3, <3>1, <3>2
  <2>2. a < b \/ b < a \/ a = b
    BY <1>3
  <2> QED
    BY <1>5, <2>1, <2>2
<1>6. ASSUME NEW k \in 1 .. Len(t) PROVE \E a \in 1 .. Len(s) : k = P[a] \/ (k = Q[a] /\ k # P[a])
  <2>1. DOMAIN t = 1 .. Len(t) /\ DOMAIN s = 1 .. Len(s)
    BY <1>3
  <2>2. \A x \in DOMAIN t : \E a \in DOMAIN s : x = P[a] \/ x = Q[a]
    BY <1>1 DEF PrintsBy
  <2> QED
    BY <2>1, <2>2
<1>7. ASSUME NEW a \in 1 .. Len(s)
      PROVE  /\ IsCond(s[a]) <=> t[P[a]].kind = "item"
             /\ ~IsCond(s[a]) => t[P[a]].kind = s[a].kind /\ t[P[a]] = Text(s[a].kind, Printing(s, a))
             /\ Q[a] # P[a] => a \in Wrapped(s) /\ Q[a] = P[a] + 1 /\ t[Q[a]] = InnerText(s, a) /\ s[a].kind = "not"
  <2>1. s[a] \in Nodes
    BY <1>3
  <2>2. s[a].kind # "item"
    BY <2>1 DEF Nodes
  <2>3. Q[a] # P[a] => a \in Wrapped(s)
    <3>1. P[a] \in 1 .. Len(t) /\ Q[a] = P[a] + (IF a \in Wrapped(s) THEN 1 ELSE 0)
      BY <1>3, <1>4
    <3>2. P[a] \in Nat
      BY <3>1
    <3> QED
      BY <3>1, <3>2
  <2>4. t[P[a]] = RowText(s, a)
    BY <1>4
  <2>5. ~IsCond(s[a]) => t[P[a]] = Text(s[a].kind, Printing(s, a))
    BY <2>4 DEF RowText
  <2>6. a \in Wrapped(s) => Q[a] = P[a] + 1 /\ t[Q[a]] = InnerText(s, a) /\ s[a].kind = "not"
    BY <1>4
  <2>7. (IsCond(s[a]) => t[P[a]].kind = "item") /\ (~IsCond(s[a]) => t[P[a]].kind = s[a].kind)
    BY <2>4, RowTextFacts
  <2> QED
    BY <2>2, <2>3, <2>5, <2>6, <2>7
<1>8. \A d, kind : Plain(Text(kind, d))
  BY DEF Plain, Text
<1>9. ASSUME NEW k \in 1 .. Len(t) PROVE Plain(t[k])
  <2>1. PICK a \in 1 .. Len(s) : k = P[a] \/ (k = Q[a] /\ k # P[a])
    BY <1>6
  <2>2. CASE k = Q[a] /\ k # P[a]
    <3>1. t[k] = Text("and", Printing(s, a) + 1)
      BY <1>7, <2>2 DEF InnerText
    <3> QED
      BY <1>8, <3>1
  <2>3. CASE k = P[a] /\ IsCond(s[a])
    BY <1>7, <2>3 DEF Plain
  <2>4. CASE k = P[a] /\ ~IsCond(s[a])
    <3>1. t[k] = Text(s[a].kind, Printing(s, a))
      BY <1>7, <2>4
    <3> QED
      BY <1>8, <3>1
  <2> QED
    BY <2>1, <2>2, <2>3, <2>4
<1>10. ASSUME NEW a \in 1 .. Len(s), ~IsCond(s[a])
       PROVE  Q[a] < Len(t) /\ Q[a] + 1 \in Kids(t, Q[a]) /\ a + 1 \in Kids(s, a)
  <2>1. ~IsLeaf(s[a])
    <3>1. s[a] \in Nodes
      BY <1>3
    <3> QED
      BY <1>10, <3>1 DEF IsLeaf, IsCond, Nodes
  <2>2. a < Len(s) /\ a + 1 \in Kids(s, a)
    BY <2>1 DEF Full
  <2>3. P[a + 1] = Q[a] + 1 /\ P[a + 1] \in 1 .. Len(t)
    <3>1. a + 1 \in 1 .. Len(s)
      BY <1>3, <2>2
    <3> QED
      BY <1>3, <1>4, <2>2, <3>1
  <2>4. P[a + 1] \in Kids(t, Q[a])
    BY <1>2, <2>2 DEF PrintsKids
  <2>5. Q[a] \in 1 .. Len(t)
    BY <1>3
  <2> QED
    BY <1>3, <2>2, <2>3, <2>4, <2>5
<1>11. ASSUME NEW k \in 1 .. Len(t), ~IsLeaf(t[k]) PROVE k < Len(t) /\ k + 1 \in Kids(t, k)
  <2>1. PICK a \in 1 .. Len(s) : k = P[a] \/ (k = Q[a] /\ k # P[a])
    BY <1>6
  <2>2. CASE k = Q[a] /\ k # P[a]
    <3>1. ~IsCond(s[a])
      BY <1>7, <2>2 DEF IsCond
    <3> QED
      BY <1>10, <2>2, <3>1
  <2>3. CASE k = P[a] /\ Q[a] = P[a]
    <3>1. ~IsCond(s[a])
      BY <1>7, <1>11, <2>3 DEF IsLeaf
    <3> QED
      BY <1>10, <2>3, <3>1
  <2>4. CASE k = P[a] /\ Q[a] # P[a]
    <3>1. a \in Wrapped(s) /\ Q[a] = k + 1 /\ Q[a] \in 1 .. Len(t)
      BY <1>3, <1>7, <2>4
    <3>2. Kids(t, k) = {Q[a]}
      BY <1>2, <2>4, <3>1 DEF PrintsKids
    <3> QED
      BY <1>3, <3>1, <3>2
  <2> QED
    BY <2>1, <2>2, <2>3, <2>4
<1>12. ~Single(t, 1)
  <2> SUFFICES ASSUME t[1].kind \in {"and", "or"}, NEW j \in Kids(t, 1), Kids(t, 1) = {j} PROVE FALSE
    BY DEF Single
  <2>1. ~IsCond(s[1]) /\ s[1].kind = t[1].kind /\ Q[1] = 1
    BY <1>4, <1>7
  <2>2. Kids(t, 1) = {P[b] : b \in Kids(s, 1)}
    BY <1>2, <1>4, <2>1 DEF PrintsKids
  <2>3. 2 \in Kids(s, 1)
    BY <1>4, <1>10, <2>1
  <2>4. ASSUME NEW b \in Kids(s, 1) PROVE b = 2
    <3>1. b \in 1 .. Len(s) /\ 2 \in 1 .. Len(s)
      BY <1>2, <1>3, <1>4, <2>3, BelowFacts
    <3>2. P[b] = P[2]
      BY <2>2, <2>3
    <3> QED
      BY <1>5, <3>1, <3>2
  <2>5. Kids(s, 1) = {2}
    BY <2>3, <2>4
  <2> QED
    BY <2>1, <2>3, <2>5 DEF Single
<1> QED
  BY <1>9, <1>11, <1>12 DEF Full

\* The tree of a text, row by row.
Reread(u, t) ==
    /\ u \in Seq(Nodes) /\ Piece(u) /\ Len(u) = Len(t) /\ Full(u) /\ Wrapped(u) = {} /\ ~Single(u, 1)
    /\ \A i \in 1 .. Len(t) : u[i] = AsNode(t[i])

LEMMA ParsedText ==
    ASSUME NEW t \in Seq(TextRows), Sound(t), Full(t), ~Single(t, 1)
    PROVE  Reread(Parsed(t), t)
<1> DEFINE u == Parsed(t)
<1>1. /\ Piece(u) /\ Len(u) = Len(t) /\ Len(t) \in Nat
      /\ \A i \in 1 .. Len(t) : u[i] = AsNode(t[i]) /\ t[i].kind # "broken" /\ t[i] \in TextRows
  BY ParsedPiece
<1> HIDE DEF u
<1>2. u \in Seq(Nodes) /\ DOMAIN u = 1 .. Len(t) /\ DOMAIN t = 1 .. Len(t) /\ 1 \in 1 .. Len(t)
  <2>1. u \in Seq(Nodes) /\ u # <<>>
    BY <1>1 DEF Piece, Nested
  <2> QED
    BY <1>1, <2>1
<1>3. ASSUME NEW i \in 1 .. Len(t)
      PROVE  /\ u[i].depth = t[i].depth /\ (IsLeaf(u[i]) <=> IsLeaf(t[i]))
             /\ ~IsLeaf(t[i]) => u[i].kind = t[i].kind
             /\ u[i].kind \in {"and", "or", "not"} => t[i].kind = u[i].kind
  <2>1. t[i] \in TextRows /\ t[i].kind # "broken" /\ u[i] = AsNode(t[i])
    BY <1>1
  <2> QED
    BY <2>1, AsNodeFacts DEF IsLeaf
<1>4. ASSUME NEW i \in 1 .. Len(t) PROVE Below(u, i) = Below(t, i) /\ Kids(u, i) = Kids(t, i)
  <2>1. \A j \in i + 1 .. Len(t) : j \in 1 .. Len(t) /\ \A k \in i + 1 .. j : k \in 1 .. Len(t)
    BY <1>1
  <2>2. Below(u, i) = Below(t, i)
    BY <1>1, <1>3, <2>1 DEF Below
  <2>3. \A j \in Below(t, i) : j \in 1 .. Len(t)
    BY <2>1 DEF Below
  <2> QED
    BY <1>3, <2>2, <2>3 DEF Kids
<1>5. Full(u)
  BY <1>1, <1>3, <1>4 DEF Full
<1>6. Wrapped(u) = {}
  <2> SUFFICES ASSUME NEW i \in 1 .. Len(t), u[i].kind = "not", NEW j \in Kids(u, i), NEW k \in Kids(u, i), j # k
               PROVE  FALSE
    BY <1>2 DEF Wrapped
  <2>1. t[i].kind = "not" /\ j \in Kids(t, i) /\ k \in Kids(t, i)
    BY <1>3, <1>4
  <2>2. PICK x \in Kids(t, i) : Kids(t, i) = {x}
    BY <1>2, <2>1 DEF Sound
  <2> QED
    BY <2>1, <2>2
<1>7. ~Single(u, 1)
  BY <1>2, <1>3, <1>4 DEF Single
<1> QED
  BY <1>1, <1>2, <1>5, <1>6, <1>7 DEF Reread, u

LEMMA RereadPrints ==
    ASSUME NEW t \in Seq(TextRows), \A k \in 1 .. Len(t) : Plain(t[k]) /\ t[k].kind # "broken",
           NEW u, Reread(u, t)
    PROVE  ToText(u) = t
<1>1. /\ u \in Seq(Nodes) /\ Deep(u) /\ Len(u) = Len(t) /\ Full(u) /\ Wrapped(u) = {}
      /\ DOMAIN u = 1 .. Len(t) /\ \A i \in 1 .. Len(t) : u[i] = AsNode(t[i]) /\ t[i] \in TextRows
  BY NodesDeep DEF Reread
<1>2. ASSUME NEW i \in 1 .. Len(t) PROVE Printed(u, i) = <<t[i]>>
  <2>0. t[i] \in TextRows /\ t[i].kind # "broken" /\ Plain(t[i]) /\ u[i] = AsNode(t[i])
    BY <1>1
  <2>1. Printed(u, i) = <<RowText(u, i)>>
    BY <1>1, PrintedRow
  <2>2. Printing(u, i) = t[i].depth
    <3>1. Around(u, i) = {}
      BY <1>1 DEF Around
    <3>2. Shift(u, i) = 0
      BY <3>1, FS_EmptySet DEF Shift
    <3>3. u[i].depth = t[i].depth /\ t[i].depth \in Nat
      BY <2>0, AsNodeFacts DEF TextRows
    <3> QED
      BY <3>2, <3>3 DEF Printing
  <2>3. RowText(u, i) = t[i]
    <3>1. CASE t[i].kind = "item"
      <4>1. /\ u[i].kind = "cond" /\ u[i].raw /\ u[i].attr = t[i].attr /\ u[i].op = t[i].op /\ u[i].val = t[i].val
        BY <2>0, <3>1, AsNodeFacts
      <4>2. RowText(u, i) = Item(t[i].attr, t[i].op, t[i].val, t[i].depth)
        BY <2>2, <4>1 DEF RowText, Spelled, IsCond
      <4>3. t[i] = Item(t[i].attr, t[i].op, t[i].val, t[i].depth)
        BY <2>0, <3>1 DEF Item, TextRows
      <4> QED
        BY <4>2, <4>3
    <3>2. CASE t[i].kind # "item"
      <4>1. u[i].kind = t[i].kind /\ t[i].kind \in {"and", "or", "not"}
        BY <2>0, <3>2, AsNodeFacts
      <4>2. RowText(u, i) = Text(t[i].kind, t[i].depth)
        BY <2>2, <4>1 DEF RowText, IsCond
      <4> QED
        BY <2>0, <3>2, <4>2 DEF Plain
    <3> QED
      BY <3>1, <3>2
  <2> QED
    BY <2>1, <2>3
<1>3. [i \in DOMAIN u |-> Printed(u, i)] = [i \in 1 .. Len(t) |-> <<t[i]>>]
  BY <1>1, <1>2
<1> QED
  BY <1>3, FlattenSingles DEF ToText

\* Nothing is left out of a tree in which every row says something.
LEMMA PrunedFull ==
    ASSUME NEW s \in Seq(Nodes), Nested(s), Full(s)
    PROVE  Pruned(s) = s /\ Says(s, 1)
<1>1. DOMAIN s = 1 .. Len(s) /\ \A i \in 1 .. Len(s) : Says(s, i)
  BY SaysFull
<1>2. [i \in DOMAIN s |-> IF Says(s, i) THEN <<s[i]>> ELSE <<>>] = [i \in 1 .. Len(s) |-> <<s[i]>>]
  BY <1>1
<1>3. 1 \in 1 .. Len(s)
  <2>1. s # <<>>
    BY DEF Nested
  <2> QED
    BY <2>1
<1> QED
  BY <1>1, <1>2, <1>3, FlattenSingles DEF Pruned

LEMMA LiftedSame ==
    ASSUME NEW s, NEW c, NEW t, Lifted(t, s, c), NEW u, Lifted(u, s, c)
    PROVE  t = u
<1>1. t \in Seq(Nodes) /\ u \in Seq(Nodes) /\ Len(t) = Len(u) /\ \A a \in 1 .. Len(t) : t[a] = u[a]
  BY DEF Lifted
<1> QED
  BY <1>1

\* What a root does to a tree, the builder's output undoes.
LEMMA RootedOutput ==
    ASSUME NEW t, NEW u, Reread(u, t), NEW r, r = Rooted(u)
    PROVE  Output(r) = ToText(u)
<1>0. u \in Seq(Nodes) /\ Piece(u) /\ Full(u) /\ ~Single(u, 1) /\ Nested(u) /\ u[1].depth = 0
      /\ Deep(u) /\ DOMAIN u = 1 .. Len(u) /\ Len(u) \in Nat /\ 1 \in 1 .. Len(u)
  <2>1. u \in Seq(Nodes) /\ Piece(u) /\ Full(u) /\ ~Single(u, 1) /\ Nested(u) /\ u[1].depth = 0 /\ u # <<>>
    BY DEF Reread, Piece, Nested
  <2> QED
    BY <2>1, NodesDeep
<1>1. CASE u[1].kind \notin {"cond", "not"}
  <2>1. r = u
    BY <1>1 DEF Rooted
  <2>2. Pruned(u) = u /\ Says(u, 1)
    BY <1>0, PrunedFull
  <2>3. Top(u) = 1
    <3>1. ~Single(u, 1) /\ \A k \in 1 .. 1 - 1 : Single(u, k)
      BY <1>0
    <3> QED
      BY <1>0, <3>1, TopExists
  <2>4. Lifted(Collapsed(u), u, 0)
    <3>1. Top(u) - 1 = 0
      BY <2>3
    <3>2. Lifted(Collapsed(u), u, Top(u) - 1)
      BY <1>0, CollapsedFacts
    <3> QED
      BY <3>1, <3>2
  <2>5. Lifted(u, u, 0)
    <3>1. ASSUME NEW a \in 1 .. Len(u) PROVE u[a] = [u[a + 0] EXCEPT !.depth = @ - 0] /\ u[a + 0].depth = u[a].depth + 0
      <4>1. u[a] \in Nodes /\ u[a].depth \in Nat /\ a + 0 = a
        BY <1>0, DeepFacts
      <4>2. u[a].depth - 0 = u[a].depth /\ u[a].depth + 0 = u[a].depth
        BY <4>1
      <4> QED
        BY <4>1, <4>2 DEF Nodes
    <3> QED
      BY <1>0, <3>1 DEF Lifted
  <2>6. Collapsed(u) = u
    BY <2>4, <2>5, LiftedSame
  <2> QED
    BY <2>1, <2>2, <2>6 DEF Output
<1>2. CASE u[1].kind \in {"cond", "not"}
  <2>1. r = <<Group("and")>> \o Deeper(u, 1)
    BY <1>2 DEF Rooted, Empty
  <2>2. Piece(r) /\ Len(r) = Len(u) + 1 /\ r[1] = Group("and") /\ Lifted(u, r, 1)
    BY <1>0, <2>1, UnderGroup
  <2>3. r \in Seq(Nodes) /\ Nested(r) /\ Deep(r) /\ DOMAIN r = 1 .. Len(r)
    BY <2>2, NodesDeep DEF Piece
  <2> DEFINE p == [a \in 1 .. Len(u) |-> a + 1]
  <2>4. /\ Thinned(u, r, p, 1)
        /\ \A a \in 1 .. Len(u) : a + 1 \in DOMAIN r /\ u[a].kind = r[a + 1].kind /\ r[a + 1].depth = u[a].depth + 1
    <3>1. /\ Thinned(u, r, [a \in 1 .. Len(u) |-> a + 1], 1)
          /\ \A a \in 1 .. Len(u) : a + 1 \in DOMAIN r /\ u[a].kind = r[a + 1].kind
      BY <2>2, <2>3, LiftedFacts
    <3>2. \A a \in 1 .. Len(u) : r[a + 1].depth = u[a].depth + 1
      BY <2>2 DEF Lifted
    <3> QED
      BY <3>1, <3>2
  <2>5. \A a \in 1 .. Len(u) : p[a] = a + 1
    OBVIOUS
  <2> HIDE DEF p
  <2>6. r[1].kind = "and" /\ r[1].depth = 0 /\ ~IsLeaf(r[1])
    BY <2>2, GroupTyped DEF IsLeaf
  <2>7. 2 \in Kids(r, 1)
    <3>1. 2 \in 2 .. Len(r) /\ 1 \in DOMAIN r
      BY <1>0, <2>2, <2>3
    <3>2. 2 \in Below(r, 1)
      BY <2>3, <3>1, ParentFacts
    <3>3. 1 + 1 \in Kids(r, 1)
      BY <2>3, <3>1, <3>2, NextKid
    <3> QED
      BY <3>3
  <2>8. Full(r)
    <3>1. ASSUME NEW i \in 1 .. Len(r), ~IsLeaf(r[i]) PROVE i < Len(r) /\ i + 1 \in Kids(r, i)
      <4>1. CASE i = 1
        BY <1>0, <2>2, <2>7, <4>1
      <4>2. CASE i # 1
        <5>1. PICK a \in 1 .. Len(u) : a + 1 = i
          <6>1. i - 1 \in 1 .. Len(u) /\ (i - 1) + 1 = i
            BY <1>0, <2>2, <4>2
          <6> QED
            BY <6>1
        <5>2. ~IsLeaf(u[a])
          BY <2>4, <3>1, <5>1 DEF IsLeaf
        <5>3. a < Len(u) /\ a + 1 \in Kids(u, a)
          BY <1>0, <5>2 DEF Full
        <5>4. a \in DOMAIN u /\ a + 1 \in DOMAIN u
          BY <1>0, <5>3
        <5>5. p[a + 1] \in Kids(r, p[a])
          BY <1>0, <2>3, <2>4, <5>3, <5>4, ThinnedBelow
        <5>6. p[a + 1] = i + 1 /\ p[a] = i
          BY <1>0, <2>5, <5>1, <5>4
        <5> QED
          BY <1>0, <2>2, <5>1, <5>3, <5>5, <5>6
      <4> QED
        BY <4>1, <4>2
    <3> QED
      BY <3>1 DEF Full
  <2>9. Pruned(r) = r /\ Says(r, 1)
    BY <2>3, <2>8, PrunedFull
  <2>10. Kids(r, 1) = {2}
    <3>1. ASSUME NEW k \in Kids(r, 1) PROVE k = 2
      <4>1. k \in 1 .. Len(r) /\ 1 < k /\ r[k].depth = 1
        <5>1. k \in DOMAIN r /\ 1 < k
          BY <1>0, <2>2, <2>3, BelowFacts
        <5>2. r[k].depth = r[1].depth + 1
          BY DEF Kids
        <5> QED
          BY <2>3, <2>6, <5>1, <5>2
      <4>2. PICK a \in 1 .. Len(u) : a + 1 = k
        <5>1. k - 1 \in 1 .. Len(u) /\ (k - 1) + 1 = k
          BY <1>0, <2>2, <4>1
        <5> QED
          BY <5>1
      <4>3. u[a].depth = 0
        <5>1. u[a].depth \in Nat /\ r[a + 1].depth = u[a].depth + 1
          BY <1>0, <2>4, DeepFacts
        <5> QED
          BY <4>1, <4>2, <5>1
      <4>4. a = 1
        <5> SUFFICES ASSUME a # 1 PROVE FALSE
          OBVIOUS
        <5>1. a \in 2 .. Len(u)
          BY <1>0
        <5>2. Follows(u[a - 1], u[a])
          BY <1>0, <5>1, NestedFacts
        <5> QED
          BY <4>3, <5>2 DEF Follows
      <4> QED
        BY <4>2, <4>4
    <3> QED
      BY <2>7, <3>1
  <2>11. Top(r) = 2
    <3>1. Single(r, 1)
      BY <2>6, <2>7, <2>10 DEF Single
    <3>2. ~Single(r, 2)
      <4>1. r[1 + 1].kind = u[1].kind
        BY <1>0, <2>4
      <4> QED
        BY <1>2, <4>1 DEF Single
    <3>3. 2 \in DOMAIN r /\ \A k \in 1 .. 2 - 1 : Single(r, k)
      <4>1. \A k \in 1 .. 2 - 1 : k = 1
        OBVIOUS
      <4> QED
        BY <1>0, <2>2, <2>3, <3>1, <4>1
    <3> QED
      BY <2>3, <3>2, <3>3, TopExists
  <2>12. Lifted(Collapsed(r), r, 1)
    <3>1. Top(r) - 1 = 1
      BY <2>11
    <3>2. Lifted(Collapsed(r), r, Top(r) - 1)
      BY <2>3, <2>8, CollapsedFacts
    <3> QED
      BY <3>1, <3>2
  <2>13. Collapsed(r) = u
    BY <2>2, <2>12, LiftedSame
  <2> QED
    BY <2>9, <2>13 DEF Output
<1> QED
  BY <1>1, <1>2

LEMMA OutputReopens ==
    ASSUME NEW s \in Seq(Nodes), Nested(s), Says(s, 1), NEW t, t = Output(s), Sound(t)
    PROVE  Reopens(t)
<1> DEFINE v == Pruned(s)
           c == Collapsed(v)
<1>1. PICK p : PrunedBy(v, s, p)
  BY PrunedRows
<1>2. v \in Seq(Nodes) /\ Nested(v) /\ Full(v)
  <2> HIDE DEF v
  <2>1. v \in Seq(Nodes)
    BY <1>1 DEF PrunedBy
  <2>2. Nested(v) /\ Full(v)
    BY <1>1, PrunedFacts
  <2> QED
    BY <2>1, <2>2
<1>3. c \in Seq(Nodes) /\ Nested(c) /\ Full(c) /\ ~Single(c, 1)
  <2> HIDE DEF c, v
  <2>1. c = Collapsed(v)
    BY DEF c
  <2> QED
    BY <1>2, <2>1, CollapsedFacts DEF Lifted
<1>4. t = ToText(c)
  BY DEF Output
<1> HIDE DEF v, c
<1>5. t \in Seq(TextRows) /\ Full(t) /\ ~Single(t, 1) /\ \A k \in 1 .. Len(t) : Plain(t[k])
  BY <1>3, <1>4, PrintedText, ToTextTyped
<1>6. Reread(Parsed(t), t)
  BY <1>5, ParsedText
<1>7. ToText(Parsed(t)) = t
  <2>1. \A k \in 1 .. Len(t) : t[k].kind # "broken"
    <3>1. DOMAIN t = 1 .. Len(t)
      BY <1>5
    <3> QED
      BY <3>1 DEF Sound
  <2> QED
    BY <1>5, <1>6, <2>1, RereadPrints
<1>8. TreeOf(t) = Rooted(Parsed(t))
  BY DEF TreeOf
<1> QED
  BY <1>6, <1>7, <1>8, RootedOutput DEF Reopens

\* What the builder shows and hands over means what its tree says, groups with
\* nothing in them left out, and a builder opened on it prints it as it was,
\* whatever was typed, asked and answered (filterbuilder.go:25, 54-85,
\* filter.go:37-82, 182).
THEOREM OutputStaysFaithful == BuilderSpec => []OutputFaithful
<1>1. BuilderInv => OutputFaithful
  <2> SUFFICES ASSUME BuilderInv, Sound(Output(root)) PROVE Means(Output(root), root) /\ Reopens(Output(root))
    BY DEF OutputFaithful
  <2>1. root \in Seq(Nodes) /\ Nested(root)
    BY TreeFacts DEF BuilderInv
  <2>2. Says(root, 1)
    <3> SUFFICES ASSUME ~Says(root, 1) PROVE FALSE
      OBVIOUS
    <3>1. Output(root) = <<>>
      BY DEF Output, Blank
    <3> QED
      BY <3>1 DEF Sound, Nested
  <2>3. Means(Output(root), root)
    BY <2>1, <2>2, OutputMeans DEF Means
  <2>4. Reopens(Output(root))
    BY <2>1, <2>2, OutputReopens
  <2> QED
    BY <2>3, <2>4
<1> QED
  BY <1>1, BuilderInvariant, PTL

-----------------------------------------------------------------------------
(* Filters: an edit that repeats a condition.                              *)

\* Rows that print alike.
Alike(m, n) ==
    /\ m.kind = n.kind /\ m.depth = n.depth /\ m.attr = n.attr /\ m.op = n.op
    /\ Spelled(m) = Spelled(n)

AlikeTrees(s, t) ==
    /\ s \in Seq(Nodes) /\ t \in Seq(Nodes) /\ Len(s) = Len(t)
    /\ \A i \in 1 .. Len(s) : Alike(s[i], t[i])

LEMMA AlikeRows ==
    ASSUME NEW s, NEW t, AlikeTrees(s, t)
    PROVE  /\ DOMAIN s = 1 .. Len(s) /\ DOMAIN t = 1 .. Len(s) /\ Len(s) \in Nat
           /\ \A i \in 1 .. Len(s) : /\ Below(s, i) = Below(t, i) /\ Kids(s, i) = Kids(t, i)
                                     /\ Says(s, i) <=> Says(t, i)
                                     /\ Single(s, i) <=> Single(t, i)
           /\ Wrapped(s) = Wrapped(t)
<1>1. /\ DOMAIN s = 1 .. Len(s) /\ DOMAIN t = 1 .. Len(s) /\ Len(s) \in Nat /\ Len(s) = Len(t)
      /\ \A i \in 1 .. Len(s) : s[i].kind = t[i].kind /\ s[i].depth = t[i].depth
  BY DEF AlikeTrees, Alike
<1>2. ASSUME NEW i \in 1 .. Len(s) PROVE Below(s, i) = Below(t, i) /\ Below(s, i) \subseteq 1 .. Len(s)
  <2>1. \A j \in i + 1 .. Len(s) : j \in 1 .. Len(s) /\ \A k \in i + 1 .. j : k \in 1 .. Len(s)
    BY <1>1
  <2>2. Below(s, i) = Below(t, i)
    BY <1>1, <2>1 DEF Below
  <2> QED
    BY <2>1, <2>2 DEF Below
<1>3. ASSUME NEW i \in 1 .. Len(s)
      PROVE  /\ Kids(s, i) = Kids(t, i) /\ (Says(s, i) <=> Says(t, i)) /\ (Single(s, i) <=> Single(t, i))
  <2>1. Kids(s, i) = Kids(t, i)
    BY <1>1, <1>2 DEF Kids
  <2>2. Says(s, i) <=> Says(t, i)
    BY <1>1, <1>2 DEF Says, IsCond
  <2>3. Single(s, i) <=> Single(t, i)
    BY <1>1, <2>1 DEF Single
  <2> QED
    BY <2>1, <2>2, <2>3
<1>4. Wrapped(s) = Wrapped(t)
  BY <1>1, <1>3 DEF Wrapped
<1> QED
  BY <1>1, <1>2, <1>3, <1>4

LEMMA AlikePruned ==
    ASSUME NEW s, NEW t, AlikeTrees(s, t)
    PROVE  AlikeTrees(Pruned(s), Pruned(t))
<1> DEFINE ss == [i \in DOMAIN s |-> IF Says(s, i) THEN <<s[i]>> ELSE <<>>]
           tt == [i \in DOMAIN t |-> IF Says(t, i) THEN <<t[i]>> ELSE <<>>]
           x == Pruned(s)
           y == Pruned(t)
<1>1. /\ DOMAIN s = 1 .. Len(s) /\ DOMAIN t = 1 .. Len(s) /\ Len(s) \in Nat
      /\ \A i \in 1 .. Len(s) : (Says(s, i) <=> Says(t, i)) /\ Alike(s[i], t[i]) /\ s[i] \in Nodes /\ t[i] \in Nodes
  <2>1. s \in Seq(Nodes) /\ t \in Seq(Nodes) /\ Len(s) = Len(t) /\ \A i \in 1 .. Len(s) : Alike(s[i], t[i])
    BY DEF AlikeTrees
  <2> QED
    BY <2>1, AlikeRows
<1>2. /\ ss \in Seq(Seq(Nodes)) /\ tt \in Seq(Seq(Nodes)) /\ Len(ss) = Len(s) /\ Len(tt) = Len(s)
      /\ x = FlattenSeq(ss) /\ y = FlattenSeq(tt)
  <2>1. \A i \in 1 .. Len(s) : /\ (IF Says(s, i) THEN <<s[i]>> ELSE <<>>) \in Seq(Nodes)
                               /\ (IF Says(t, i) THEN <<t[i]>> ELSE <<>>) \in Seq(Nodes)
    BY <1>1
  <2>2. x = FlattenSeq(ss) /\ y = FlattenSeq(tt)
    BY DEF Pruned
  <2> QED
    BY <1>1, <2>1, <2>2
<1>3. ASSUME NEW i \in 1 .. Len(s)
      PROVE  /\ Len(ss[i]) = Len(tt[i]) /\ Len(ss[i]) \in Nat
             /\ \A j \in 1 .. Len(ss[i]) : Alike(ss[i][j], tt[i][j])
  <2>1. ss[i] = (IF Says(s, i) THEN <<s[i]>> ELSE <<>>) /\ tt[i] = (IF Says(t, i) THEN <<t[i]>> ELSE <<>>)
    BY <1>1
  <2> HIDE DEF ss, tt
  <2>2. CASE Says(s, i)
    <3>1. ss[i] = <<s[i]>> /\ tt[i] = <<t[i]>>
      BY <1>1, <2>1, <2>2
    <3>2. Len(ss[i]) = 1 /\ Len(tt[i]) = 1 /\ ss[i][1] = s[i] /\ tt[i][1] = t[i]
      BY <3>1
    <3>3. \A j \in 1 .. 1 : j = 1
      OBVIOUS
    <3> QED
      BY <1>1, <3>2, <3>3
  <2>3. CASE ~Says(s, i)
    <3>1. ss[i] = <<>> /\ tt[i] = <<>>
      BY <1>1, <2>1, <2>3
    <3> QED
      BY <3>1
  <2> QED
    BY <2>2, <2>3
<1> HIDE DEF ss, tt, x, y
<1>4. PICK at : Places(at, ss, x)
  BY <1>2, FlattenPlaces
<1>5. PICK bt : Places(bt, tt, y)
  BY <1>2, FlattenPlaces
<1>6. \A i \in 1 .. Len(s) + 1 : at[i] = bt[i]
  BY <1>2, <1>3, <1>4, <1>5, SamePlaces
<1>7. x \in Seq(Nodes) /\ y \in Seq(Nodes)
  BY <1>2, FlattenType
<1>8. Len(x) = Len(y)
  <2>1. at[Len(s) + 1] = Len(x) /\ bt[Len(s) + 1] = Len(y)
    BY <1>2, <1>4, <1>5 DEF Places
  <2>2. Len(s) + 1 \in 1 .. Len(s) + 1
    BY <1>1
  <2> QED
    BY <1>6, <2>1, <2>2
<1>9. ASSUME NEW k \in 1 .. Len(x) PROVE Alike(x[k], y[k])
  <2>1. Covers(at, ss, x)
    BY <1>2, <1>4, PlacesFacts
  <2>2. PICK i \in 1 .. Len(s) : \E j \in 1 .. Len(ss[i]) : k = at[i] + j
    BY <1>2, <2>1 DEF Covers
  <2>3. PICK j \in 1 .. Len(ss[i]) : k = at[i] + j
    BY <2>2
  <2>4. x[k] = ss[i][j]
    BY <1>2, <1>4, <2>3 DEF Places
  <2>5. y[k] = tt[i][j]
    <3>1. i \in 1 .. Len(s) + 1 /\ j \in 1 .. Len(tt[i])
      BY <1>1, <1>3
    <3>2. k = bt[i] + j
      BY <1>6, <2>3, <3>1
    <3> QED
      BY <1>2, <1>5, <3>1, <3>2 DEF Places
  <2> QED
    BY <1>3, <2>4, <2>5
<1>10. AlikeTrees(x, y)
  BY <1>7, <1>8, <1>9 DEF AlikeTrees
<1> QED
  BY <1>10 DEF x, y

LEMMA LiftedRows ==
    ASSUME NEW s \in Seq(Nodes), NEW t, NEW c \in Nat, Lifted(t, s, c)
    PROVE  \A a \in 1 .. Len(t) :
              /\ a + c \in DOMAIN s /\ t[a].kind = s[a + c].kind /\ t[a].attr = s[a + c].attr
              /\ t[a].op = s[a + c].op /\ t[a].val = s[a + c].val /\ t[a].raw = s[a + c].raw
<1>1. Len(s) \in Nat /\ DOMAIN s = 1 .. Len(s) /\ \A i \in 1 .. Len(s) : s[i] \in Nodes
  OBVIOUS
<1>2. /\ t \in Seq(Nodes) /\ Len(t) = Len(s) - c
      /\ \A a \in 1 .. Len(t) : t[a] = [s[a + c] EXCEPT !.depth = @ - c]
  BY DEF Lifted
<1> SUFFICES ASSUME NEW a \in 1 .. Len(t)
             PROVE  /\ a + c \in DOMAIN s /\ t[a].kind = s[a + c].kind /\ t[a].attr = s[a + c].attr
                    /\ t[a].op = s[a + c].op /\ t[a].val = s[a + c].val /\ t[a].raw = s[a + c].raw
  OBVIOUS
<1>3. a + c \in 1 .. Len(s)
  <2>1. Len(t) \in Nat
    BY <1>2
  <2> QED
    BY <1>1, <1>2, <2>1
<1>4. s[a + c] \in Nodes /\ t[a] = [s[a + c] EXCEPT !.depth = @ - c]
  BY <1>1, <1>2, <1>3
<1> QED
  BY <1>1, <1>3, <1>4 DEF Nodes

LEMMA AlikeCollapsed ==
    ASSUME NEW s, NEW t, AlikeTrees(s, t), Nested(s), Full(s), Nested(t), Full(t),
           NEW x, x = Collapsed(s), NEW y, y = Collapsed(t)
    PROVE  AlikeTrees(x, y)
<1>c. PICK c : c = Top(s) - 1
  OBVIOUS
<1>0. s \in Seq(Nodes) /\ t \in Seq(Nodes) /\ Len(s) = Len(t) /\ \A i \in 1 .. Len(s) : Alike(s[i], t[i])
  BY DEF AlikeTrees
<1>1. Top(s) = Top(t)
  <2>1. Top(s) \in DOMAIN s /\ ~Single(s, Top(s)) /\ \A k \in 1 .. Top(s) - 1 : Single(s, k)
    BY <1>0, TopExists
  <2>2. /\ DOMAIN s = 1 .. Len(s) /\ DOMAIN t = 1 .. Len(s) /\ Len(s) \in Nat
        /\ \A i \in 1 .. Len(s) : Single(s, i) <=> Single(t, i)
    BY AlikeRows
  <2>3. Top(s) \in DOMAIN t /\ ~Single(t, Top(s)) /\ \A k \in 1 .. Top(s) - 1 : Single(t, k)
    BY <2>1, <2>2
  <2> QED
    BY <1>0, <2>3, TopExists
<1>2. Lifted(x, s, c) /\ Lifted(y, t, c) /\ c \in Nat
  <2>1. Lifted(x, s, Top(s) - 1) /\ Top(s) - 1 \in Nat
    BY <1>0, CollapsedFacts
  <2>2. Lifted(y, t, Top(t) - 1)
    BY <1>0, CollapsedFacts
  <2> QED
    BY <1>c, <1>1, <2>1, <2>2
<1>3. x \in Seq(Nodes) /\ y \in Seq(Nodes) /\ Len(x) = Len(y)
  BY <1>0, <1>2 DEF Lifted
<1>4. ASSUME NEW a \in 1 .. Len(x) PROVE Alike(x[a], y[a])
  <2>1. /\ a + c \in DOMAIN s /\ x[a].kind = s[a + c].kind /\ x[a].attr = s[a + c].attr
        /\ x[a].op = s[a + c].op /\ x[a].val = s[a + c].val /\ x[a].raw = s[a + c].raw
        /\ s[a + c].depth = x[a].depth + c
    <3>1. s[a + c].depth = x[a].depth + c
      BY <1>2 DEF Lifted
    <3>3. \A b \in 1 .. Len(x) :
             /\ b + c \in DOMAIN s /\ x[b].kind = s[b + c].kind /\ x[b].attr = s[b + c].attr
             /\ x[b].op = s[b + c].op /\ x[b].val = s[b + c].val /\ x[b].raw = s[b + c].raw
      <4>1. s \in Seq(Nodes)
        BY <1>0
      <4>2. Lifted(x, s, c) /\ c \in Nat
        BY <1>2
      <4> QED
        BY <4>1, <4>2, LiftedRows
    <3> QED
      BY <3>1, <3>3
  <2>2. /\ y[a].kind = t[a + c].kind /\ y[a].attr = t[a + c].attr
        /\ y[a].op = t[a + c].op /\ y[a].val = t[a + c].val /\ y[a].raw = t[a + c].raw
        /\ t[a + c].depth = y[a].depth + c
    <3>1. a \in 1 .. Len(y)
      BY <1>3
    <3>2. t[a + c].depth = y[a].depth + c
      BY <1>2, <3>1 DEF Lifted
    <3>3. \A b \in 1 .. Len(y) :
             /\ b + c \in DOMAIN t /\ y[b].kind = t[b + c].kind /\ y[b].attr = t[b + c].attr
             /\ y[b].op = t[b + c].op /\ y[b].val = t[b + c].val /\ y[b].raw = t[b + c].raw
      <4>1. t \in Seq(Nodes)
        BY <1>0
      <4>2. Lifted(y, t, c) /\ c \in Nat
        BY <1>2
      <4> QED
        BY <4>1, <4>2, LiftedRows
    <3> QED
      BY <3>1, <3>2, <3>3
  <2>3. Alike(s[a + c], t[a + c])
    BY <1>0, <2>1
  <2>4. x[a].depth \in Nat /\ y[a].depth \in Nat
    <3>1. x[a] \in Nodes /\ y[a] \in Nodes
      BY <1>3
    <3> QED
      BY <3>1 DEF Nodes
  <2>5. x[a].depth = y[a].depth
    BY <1>2, <2>1, <2>2, <2>3, <2>4 DEF Alike
  <2>6. Spelled(x[a]) = Spelled(s[a + c]) /\ Spelled(y[a]) = Spelled(t[a + c])
    BY <2>1, <2>2 DEF Spelled
  <2> QED
    BY <2>1, <2>2, <2>3, <2>5, <2>6 DEF Alike
<1> QED
  BY <1>3, <1>4 DEF AlikeTrees

LEMMA AlikeText ==
    ASSUME NEW s, NEW t, AlikeTrees(s, t)
    PROVE  ToText(s) = ToText(t)
<1>0. s \in Seq(Nodes) /\ t \in Seq(Nodes) /\ Len(s) = Len(t) /\ \A i \in 1 .. Len(s) : Alike(s[i], t[i])
  BY DEF AlikeTrees
<1>1. /\ DOMAIN s = 1 .. Len(s) /\ DOMAIN t = 1 .. Len(s) /\ Wrapped(s) = Wrapped(t)
      /\ \A i \in 1 .. Len(s) : Below(s, i) = Below(t, i) /\ Kids(s, i) = Kids(t, i)
  BY AlikeRows
<1>2. ASSUME NEW i \in 1 .. Len(s) PROVE Printed(s, i) = Printed(t, i)
  <2>1. {k \in Wrapped(s) : i \in Below(s, k)} = {k \in Wrapped(t) : i \in Below(t, k)}
    <3>1. \A k \in Wrapped(s) : k \in 1 .. Len(s)
      BY <1>1 DEF Wrapped
    <3> QED
      BY <1>1, <3>1
  <2>2. /\ s[i].kind = t[i].kind /\ s[i].depth = t[i].depth /\ s[i].attr = t[i].attr /\ s[i].op = t[i].op
        /\ Spelled(s[i]) = Spelled(t[i])
    BY <1>0 DEF Alike
  <2>3. IsCond(s[i]) <=> IsCond(t[i])
    BY <2>2 DEF IsCond
  <2> DEFINE d == s[i].depth + Cardinality({k \in Wrapped(s) : i \in Below(s, k)})
             P(u) == IF IsCond(u[i]) THEN <<Item(u[i].attr, u[i].op, Spelled(u[i]), d)>>
                     ELSE IF i \in Wrapped(u) THEN <<Text("not", d), Text("and", d + 1)>>
                     ELSE IF u[i].kind = "not" /\ Kids(u, i) = {}
                          THEN <<Text("not", d), Item("objectClass", "=", Star, d + 1)>>
                     ELSE <<Text(u[i].kind, d)>>
  <2>4. Printed(s, i) = P(s)
    BY DEF Printed, Spelled
  <2>5. Printed(t, i) = P(t)
    BY <2>1, <2>2 DEF Printed, Spelled
  <2>6. P(s) = P(t)
    BY <1>1, <2>2, <2>3
  <2> QED
    BY <2>4, <2>5, <2>6
<1>3. [i \in DOMAIN s |-> Printed(s, i)] = [i \in DOMAIN t |-> Printed(t, i)]
  BY <1>1, <1>2
<1> QED
  BY <1>3 DEF ToText

LEMMA AlikeOutput ==
    ASSUME NEW s, NEW t, AlikeTrees(s, t), Nested(s), Nested(t)
    PROVE  Output(s) = Output(t)
<1>0. s \in Seq(Nodes) /\ t \in Seq(Nodes)
  BY DEF AlikeTrees
<1>1. Says(s, 1) <=> Says(t, 1)
  <2>1. 1 \in 1 .. Len(s)
    BY <1>0 DEF Nested
  <2> QED
    BY <2>1, AlikeRows
<1>2. CASE ~Says(s, 1)
  BY <1>1, <1>2 DEF Output
<1>3. CASE Says(s, 1)
  <2>1. AlikeTrees(Pruned(s), Pruned(t))
    BY AlikePruned
  <2>2. Nested(Pruned(s)) /\ Full(Pruned(s))
    BY <1>0, <1>3, PrunedRows, PrunedFacts
  <2>3. Nested(Pruned(t)) /\ Full(Pruned(t))
    BY <1>0, <1>1, <1>3, PrunedRows, PrunedFacts
  <2>4. ToText(Collapsed(Pruned(s))) = ToText(Collapsed(Pruned(t)))
    BY <2>1, <2>2, <2>3, AlikeCollapsed, AlikeText
  <2> QED
    BY <1>1, <1>3, <2>4 DEF Output
<1> QED
  BY <1>2, <1>3

\* What a row says is read again as the row, and printed alike.
LEMMA RepeatedRow ==
    ASSUME NEW n \in Nodes, IsCond(n), Exact(n), Escaped(n)
    PROVE  \E c \in Nodes :
              /\ ParseCondition(CondExpr(n)) = <<c>>
              /\ c.depth = 0 /\ c.kind = n.kind /\ c.attr = n.attr /\ c.op = n.op /\ Spelled(c) = Spelled(n)
<1> DEFINE c == NewCond(n.attr, n.op, n.val)
<1>1. n.attr \in STRING /\ n.op \in Operators /\ n.val \in Values /\ n.raw \in BOOLEAN /\ n.kind = "cond"
  BY DEF Nodes, IsCond
<1>2. c \in Nodes /\ c.depth = 0 /\ c.kind = "cond" /\ c.attr = n.attr /\ c.op = n.op /\ c.val = n.val /\ c.raw = FALSE
  BY <1>1 DEF NewCond, Nodes
<1>3. ParseCondition(CondExpr(n)) = <<c>>
  <2>1. CASE n.op = "=" /\ n.val = Star
    <3>1. CondExpr(n) = [neg |-> FALSE, attr |-> n.attr, op |-> "present", val |-> Star]
      BY <2>1 DEF CondExpr, Expr
    <3> QED
      BY <2>1, <3>1 DEF ParseCondition
  <2>2. CASE ~(n.op = "=" /\ n.val = Star)
    <3>1. CondExpr(n) = [neg |-> FALSE, attr |-> n.attr, op |-> n.op, val |-> n.val]
      BY <2>2 DEF CondExpr, Expr
    <3>2. n.op # "present" /\ Trimmed(n.val) = n.val
      BY <1>1 DEF Operators, Exact, Trimmed
    <3> QED
      BY <3>1, <3>2 DEF ParseCondition
  <2> QED
    BY <2>1, <2>2
<1> HIDE DEF c
<1>4. Spelled(c) = Spelled(n)
  <2>1. Spelled(c) = EscapeValue(n.op, n.val)
    BY <1>2 DEF Spelled
  <2>2. CASE n.raw
    <3>1. n.val.esc = 0 /\ n.val.is # "special" /\ n.val.is # "padded"
      BY <2>2 DEF Exact, Escaped
    <3>2. n.val.is \in {"word", "padded", "star", "pattern", "special"}
      BY <1>1 DEF Values
    <3>3. n.val.is \in {"word", "padded"} \/ (n.op = "=" /\ Wild(n.val))
      BY <2>2, <3>1, <3>2 DEF Exact, Wild
    <3> QED
      BY <2>1, <2>2, <3>3 DEF EscapeValue, Spelled
  <2>3. CASE ~n.raw
    BY <2>1, <2>3 DEF Spelled
  <2> QED
    BY <2>2, <2>3
<1> QED
  BY <1>1, <1>2, <1>3, <1>4

\* An edit that repeats a row leaves a tree that prints alike.
LEMMA RepeatedTree ==
    ASSUME NEW s, Tree(s), NEW i \in DOMAIN s, IsCond(s[i]), Exact(s[i]),
           NEW t, t = Put(s, i, ParseCondition(CondExpr(s[i]))), Nested(t)
    PROVE  AlikeTrees(s, t)
<1>0. s \in Seq(Nodes) /\ Len(s) \in Nat /\ i \in 1 .. Len(s) /\ s[i] \in Nodes /\ Escaped(s[i])
  BY TreeFacts
<1>1. PICK c \in Nodes :
        /\ ParseCondition(CondExpr(s[i])) = <<c>>
        /\ c.depth = 0 /\ c.kind = s[i].kind /\ c.attr = s[i].attr /\ c.op = s[i].op /\ Spelled(c) = Spelled(s[i])
  BY <1>0, RepeatedRow
<1>2. PICK rows : rows = Deeper(<<c>>, s[i].depth)
  OBVIOUS
<1>3. rows \in Seq(Nodes) /\ Len(rows) = 1 /\ rows[1] = [c EXCEPT !.depth = @ + s[i].depth]
  <2>1. <<c>> \in Seq(Nodes) /\ Len(<<c>>) = 1 /\ <<c>>[1] = c /\ s[i].depth \in Nat
    BY <1>0 DEF Nodes
  <2>2. 1 \in 1 .. Len(<<c>>)
    BY <2>1
  <2> QED
    BY <1>2, <2>1, <2>2, DeeperFacts
<1>4. Alike(s[i], rows[1])
  <2>1. c.depth = 0 /\ s[i].depth \in Nat /\ c \in Nodes
    BY <1>0, <1>1 DEF Nodes
  <2>2. /\ rows[1].depth = s[i].depth /\ rows[1].kind = c.kind /\ rows[1].attr = c.attr
        /\ rows[1].op = c.op /\ rows[1].val = c.val /\ rows[1].raw = c.raw
    BY <1>3, <2>1 DEF Nodes
  <2>3. Spelled(rows[1]) = Spelled(c)
    BY <2>2 DEF Spelled
  <2> QED
    BY <1>1, <2>2, <2>3 DEF Alike
<1>5. t \in Seq(Nodes) /\ Spliced(t, s, i, i, rows)
  <2>1. t = Splice(s, i, i, rows) /\ i \in 1 .. Len(s) + 1 /\ i \in i - 1 .. Len(s)
    BY <1>0, <1>1, <1>2 DEF Put
  <2> QED
    BY <1>0, <1>3, <2>1, SpliceFacts
<1>6. Len(t) = Len(s)
  BY <1>0, <1>3, <1>5 DEF Spliced
<1>7. t[i] = rows[1]
  <2>1. 1 \in 1 .. Len(rows)
    BY <1>3
  <2>2. t[(i - 1) + 1] = rows[1]
    BY <1>5, <2>1 DEF Spliced
  <2>3. (i - 1) + 1 = i
    BY <1>0
  <2> QED
    BY <2>2, <2>3
<1>8. ASSUME NEW k \in 1 .. Len(s), k # i PROVE t[k] = s[k]
  <2>1. CASE k < i
    <3>1. k \in 1 .. i - 1
      BY <1>0, <2>1
    <3> QED
      BY <1>5, <3>1 DEF Spliced
  <2>2. CASE k > i
    <3>1. k - i \in 1 .. Len(s) - i /\ (i - 1) + 1 + (k - i) = k /\ i + (k - i) = k
      BY <1>0, <2>2
    <3>2. t[(i - 1) + Len(rows) + (k - i)] = s[i + (k - i)]
      BY <1>5, <3>1 DEF Spliced
    <3> QED
      BY <1>3, <3>1, <3>2
  <2> QED
    BY <1>0, <1>8, <2>1, <2>2
<1> QED
  <2>1. ASSUME NEW k \in 1 .. Len(s) PROVE Alike(s[k], t[k])
    <3>1. CASE k = i
      BY <1>4, <1>7, <3>1
    <3>2. CASE k # i
      BY <1>8, <3>2 DEF Alike
    <3> QED
      BY <3>1, <3>2
  <2> QED
    BY <1>0, <1>5, <1>6, <2>1 DEF AlikeTrees

\* An edit whose answer repeats what the row under the cursor says leaves what
\* the builder prints, wherever the cursor went between the prompt and its
\* answer (filterbuilder.go:87, 118, filter.go:142).
THEOREM EditsKeep == BuilderSpec => EditKeeps
<1> DEFINE Keeps == \A m \in posted \ posted' :
                       m.kind = "edit" /\ IsCond(Selected) /\ Exact(Selected) /\ m.what = CondExpr(Selected)
                          => Output(root') = Output(root)
<1>1. BuilderInv /\ [BuilderNext]_builderVars /\ BuilderInv' => Keeps
  <2> SUFFICES ASSUME BuilderInv, [BuilderNext]_builderVars, BuilderInv',
                      NEW m \in posted \ posted', m.kind = "edit",
                      IsCond(Selected), Exact(Selected), m.what = CondExpr(Selected)
               PROVE  Output(root') = Output(root)
    OBVIOUS
  <2>1. posted = {m} /\ m \notin posted' /\ prompt = NoPrompt
    BY DEF BuilderInv
  <2>2. EditCond
    <3>1. posted' # posted
      BY <2>1
    <3>2. ~(Move \/ Toggle \/ Delete \/ Use \/ Leave \/ OpenBuilder \/ \E kind \in {"and", "or", "not"} : AddGroup(kind))
      BY <3>1 DEF Move, Toggle, Delete, Use, Leave, OpenBuilder, AddGroup
    <3>3. ~(Ask \/ Submit \/ Cancel)
      BY <2>1 DEF Ask, Submit, Cancel
    <3>4. ~(OpenPrompt \/ AddCond \/ SetRaw)
      BY <2>1 DEF OpenPrompt, AddCond, SetRaw
    <3>5. ~UNCHANGED builderVars
      BY <3>1 DEF builderVars
    <3> QED
      BY <3>2, <3>3, <3>4, <3>5 DEF BuilderNext
  <2>3. root' = IF Refused(m.what) \/ ~IsCond(Selected) THEN root ELSE Put(root, cur, ParseCondition(m.what))
    BY <2>1, <2>2 DEF EditCond
  <2>4. CASE Refused(m.what)
    BY <2>3, <2>4
  <2>5. CASE ~Refused(m.what)
    <3>1. Tree(root) /\ cur \in DOMAIN root /\ Tree(root') /\ Selected = root[cur]
      BY DEF BuilderInv, Selected
    <3>2. root' = Put(root, cur, ParseCondition(CondExpr(root[cur])))
      BY <2>3, <2>5, <3>1
    <3>3. Nested(root) /\ Nested(root')
      BY <3>1, TreeFacts
    <3>4. AlikeTrees(root, root')
      BY <3>1, <3>2, <3>3, RepeatedTree
    <3> QED
      BY <3>3, <3>4, AlikeOutput
  <2> QED
    BY <2>4, <2>5
<1> QED
  BY <1>1, BuilderInvariant, BuilderInductive, PTL DEF BuilderSpec, EditKeeps
=============================================================================
