---------------------------- MODULE BrowserProofs ----------------------------
(***************************************************************************)
(* Theorems about Browser for every directory, whatever naming contexts    *)
(* its server announces, any number of keys and any order of the answers.  *)
(***************************************************************************)
EXTENDS Browser, ListLemmas

-----------------------------------------------------------------------------
(* DNs: being above is an order, and the DNs above one DN are in line.     *)

LEMMA PrefixOrder ==
    ASSUME NEW S
    PROVE  /\ \A d \in Seq(S) : Prefix(d, d)
           /\ \A d, e, f \in Seq(S) : Prefix(d, e) /\ Prefix(e, f) => Prefix(d, f)
<1>1. ASSUME NEW d \in Seq(S), NEW e \in Seq(S), NEW f \in Seq(S), Prefix(d, e), Prefix(e, f)
      PROVE  Prefix(d, f)
  <2>1. Len(d) \in Nat /\ Len(e) \in Nat /\ Len(f) \in Nat
    OBVIOUS
  <2> QED
    BY <1>1, <2>1 DEF Prefix
<1> QED
  BY <1>1 DEF Prefix

LEMMA PrefixLine ==
    ASSUME NEW S, NEW d \in Seq(S), NEW e \in Seq(S), NEW f \in Seq(S),
           Prefix(d, f), Prefix(e, f), Len(d) <= Len(e)
    PROVE  Prefix(d, e)
<1>1. Len(d) \in Nat /\ Len(e) \in Nat /\ Len(f) \in Nat
  OBVIOUS
<1> QED
  BY <1>1 DEF Prefix

LEMMA PrefixEqual ==
    ASSUME NEW S, NEW d \in Seq(S), NEW e \in Seq(S), Prefix(d, e), Len(e) <= Len(d)
    PROVE  d = e
<1>1. Len(d) \in Nat /\ Len(e) \in Nat /\ Len(d) = Len(e)
  BY DEF Prefix
<1>2. \A i \in 1 .. Len(d) : d[i] = e[i]
  BY DEF Prefix
<1> QED
  BY <1>1, <1>2, SeqEqual

LEMMA ParentFacts ==
    ASSUME NEW S, NEW e \in Seq(S), e # <<>>
    PROVE  /\ Parent(e) \in Seq(S) /\ Len(Parent(e)) = Len(e) - 1 /\ Prefix(Parent(e), e)
           /\ \A d \in Seq(S) : Prefix(d, e) /\ d # e => Prefix(d, Parent(e))
           /\ \A d \in Seq(S) : Prefix(d, e) /\ Len(e) = Len(d) + 1 => Parent(e) = d
<1>1. Len(e) \in Nat /\ Len(e) > 0 /\ Len(e) - 1 \in 0 .. Len(e)
  OBVIOUS
<1>2. /\ Parent(e) \in Seq(S) /\ Len(Parent(e)) = Len(e) - 1
      /\ \A i \in 1 .. Len(e) - 1 : Parent(e)[i] = e[i]
  BY <1>1, PrefixFacts DEF Parent
<1>3. Prefix(Parent(e), e)
  BY <1>1, <1>2 DEF Prefix
<1>4. ASSUME NEW d \in Seq(S), Prefix(d, e), d # e PROVE Prefix(d, Parent(e))
  <2>1. Len(d) \in Nat /\ ~(Len(e) <= Len(d))
    BY <1>4, PrefixEqual
  <2> QED
    BY <1>1, <1>2, <1>3, <1>4, <2>1, PrefixLine
<1>5. ASSUME NEW d \in Seq(S), Prefix(d, e), Len(e) = Len(d) + 1 PROVE Parent(e) = d
  <2>1. Len(d) \in Nat /\ d # e
    BY <1>5
  <2> QED
    BY <1>1, <1>2, <1>4, <1>5, <2>1, PrefixEqual
<1> QED
  BY <1>2, <1>3, <1>4, <1>5

-----------------------------------------------------------------------------
(* Trees below the roots rs: the parts of TypeOK that are about the tree.  *)

Typed(rs, t) ==
    /\ DOMAIN t \subseteq (DOMAIN rs) \X DNs
    /\ \A n \in DOMAIN t : t[n] \in Flags /\ Prefix(rs[n[1]], n[2])
Shaped(rs, t) ==
    /\ \A s \in DOMAIN rs : <<s, rs[s]>> \in DOMAIN t
    /\ \A n \in DOMAIN t :
        n[2] # rs[n[1]] => /\ <<n[1], Parent(n[2])>> \in DOMAIN t
                           /\ t[<<n[1], Parent(n[2])>>].loaded
TreeOf(rs, t) == rs \in Seq(DNs) /\ Typed(rs, t) /\ Shaped(rs, t)
Apart(rs) == \A s, r \in DOMAIN rs : s # r => ~Prefix(rs[s], rs[r])

LEMMA NodeFacts ==
    ASSUME NEW rs, NEW t, TreeOf(rs, t), NEW n \in DOMAIN t
    PROVE  /\ n = <<n[1], n[2]>> /\ n[1] \in DOMAIN rs /\ n[1] \in Nat /\ n[2] \in DNs
           /\ n[2] \in Seq(RDNs) /\ n[2] # <<>>
           /\ rs[n[1]] \in DNs /\ rs[n[1]] \in Seq(RDNs) /\ Prefix(rs[n[1]], n[2])
<1>1. n \in (DOMAIN rs) \X DNs /\ Prefix(rs[n[1]], n[2]) /\ rs \in Seq(DNs)
  BY DEF TreeOf, Typed
<1>2. n = <<n[1], n[2]>> /\ n[1] \in DOMAIN rs /\ n[2] \in DNs
  BY <1>1
<1>3. n[1] \in Nat /\ rs[n[1]] \in DNs
  BY <1>1, <1>2
<1> QED
  BY <1>1, <1>2, <1>3, DNAssumption

LEMMA HasNode == \A t, d : Has(t, d) <=> \E n \in DOMAIN t : n[2] = d
BY DEF Has, Slots

LEMMA FindFacts ==
    ASSUME NEW rs, NEW t, TreeOf(rs, t), NEW d, Has(t, d)
    PROVE  Find(t, d) \in DOMAIN t /\ Find(t, d)[2] = d
<1>1. Slots(t, d) \in SUBSET Nat /\ Slots(t, d) # {}
  BY NodeFacts DEF Slots, Has
<1>2. \E s \in Slots(t, d) : \A r \in Slots(t, d) : s <= r
  BY <1>1, LeastElement
<1> DEFINE s == CHOOSE s \in Slots(t, d) : \A r \in Slots(t, d) : s <= r
<1>3. s \in Slots(t, d)
  BY <1>2
<1>4. Find(t, d) = <<s, d>>
  BY DEF Find
<1> HIDE DEF s
<1>5. PICK n \in DOMAIN t : n[2] = d /\ n[1] = s
  BY <1>3 DEF Slots
<1>6. n = <<s, d>>
  BY <1>5, NodeFacts
<1> QED
  BY <1>4, <1>5, <1>6

\* Below roots that are apart a DN is at one node.
LEMMA OneNode ==
    ASSUME NEW rs, NEW t, TreeOf(rs, t), Apart(rs), NEW n \in DOMAIN t, NEW m \in DOMAIN t,
           n[2] = m[2]
    PROVE  n = m
<1>1. /\ n = <<n[1], n[2]>> /\ m = <<m[1], m[2]>> /\ n[1] \in DOMAIN rs /\ m[1] \in DOMAIN rs
      /\ n[2] \in Seq(RDNs) /\ rs[n[1]] \in Seq(RDNs) /\ rs[m[1]] \in Seq(RDNs)
      /\ Prefix(rs[n[1]], n[2]) /\ Prefix(rs[m[1]], n[2])
  BY NodeFacts
<1>2. Prefix(rs[n[1]], rs[m[1]]) \/ Prefix(rs[m[1]], rs[n[1]])
  <2>1. Len(rs[n[1]]) \in Nat /\ Len(rs[m[1]]) \in Nat
    BY <1>1
  <2>2. Len(rs[n[1]]) <= Len(rs[m[1]]) \/ Len(rs[m[1]]) <= Len(rs[n[1]])
    BY <2>1
  <2> QED
    BY <1>1, <2>2, PrefixLine
<1>3. n[1] = m[1]
  BY <1>1, <1>2 DEF Apart
<1> QED
  BY <1>1, <1>3

\* What is below a node goes with it: a node that stays keeps its parent, and
\* the roots stay.
LEMMA UnderFacts ==
    ASSUME NEW rs, NEW t, TreeOf(rs, t), NEW n \in DOMAIN t
    PROVE  /\ n \notin Under(t, n)
           /\ \A s \in DOMAIN rs : <<s, rs[s]>> \notin Under(t, n)
           /\ \A x \in DOMAIN t \ Under(t, n) :
                x[2] # rs[x[1]] => <<x[1], Parent(x[2])>> \notin Under(t, n) \cup {n}
<1>0. n[2] \in Seq(RDNs) /\ n[1] \in DOMAIN rs /\ Prefix(rs[n[1]], n[2]) /\ n = <<n[1], n[2]>>
  BY NodeFacts
<1>1. ASSUME NEW s \in DOMAIN rs, <<s, rs[s]>> \in Under(t, n) PROVE FALSE
  <2>1. n[1] = s /\ n # <<s, rs[s]>> /\ Prefix(n[2], rs[s])
    BY <1>1 DEF Under
  <2>2. rs[s] \in Seq(RDNs) /\ Prefix(rs[s], n[2])
    BY <1>0, <2>1, NodeFacts
  <2>3. rs[s] = n[2]
    BY <1>0, <2>1, <2>2, PrefixEqual DEF Prefix
  <2> QED
    BY <1>0, <2>1, <2>3
<1>2. ASSUME NEW x \in DOMAIN t \ Under(t, n), x[2] # rs[x[1]],
             <<x[1], Parent(x[2])>> \in Under(t, n) \cup {n}
      PROVE  FALSE
  <2> DEFINE p == Parent(x[2])
  <2>1. x = <<x[1], x[2]>> /\ x[2] \in Seq(RDNs) /\ x[2] # <<>>
    BY NodeFacts
  <2>2. p \in Seq(RDNs) /\ Len(p) = Len(x[2]) - 1 /\ Prefix(p, x[2])
    BY <2>1, ParentFacts
  <2> HIDE DEF p
  <2>3. n[1] = x[1] /\ Prefix(n[2], p)
    <3>1. CASE <<x[1], p>> \in Under(t, n)
      BY <3>1 DEF Under
    <3>2. CASE <<x[1], p>> = n
      BY <1>0, <2>2, <3>2, PrefixOrder
    <3> QED
      BY <1>2, <3>1, <3>2 DEF p
  <2>4. Prefix(n[2], x[2])
    BY <1>0, <2>1, <2>2, <2>3, PrefixOrder
  <2>5. x # n
    <3>1. Len(n[2]) <= Len(p) /\ Len(p) = Len(x[2]) - 1 /\ Len(p) \in Nat /\ Len(x[2]) \in Nat
      BY <2>1, <2>2, <2>3 DEF Prefix
    <3> QED
      BY <3>1
  <2>6. x \in Under(t, n)
    BY <2>3, <2>4, <2>5 DEF Under
  <2> QED
    BY <1>2, <2>6
<1> QED
  BY <1>1, <1>2 DEF Under

LEMMA FreshFacts ==
    ASSUME NEW e, NEW leaves
    PROVE  Fresh(e \in leaves) \in Flags /\ ~Fresh(e \in leaves).loading
<1>1. Fresh(TRUE) \in Flags /\ ~Fresh(TRUE).loading /\ Fresh(FALSE) \in Flags /\ ~Fresh(FALSE).loading
  BY DEF Fresh, Flags
<1>2. CASE e \in leaves
  <2>1. (e \in leaves) = TRUE
    BY <1>2
  <2> QED
    BY <1>1, <2>1
<1>3. CASE e \notin leaves
  <2>1. (e \in leaves) = FALSE
    BY <1>3
  <2> QED
    BY <1>1, <2>1
<1> QED
  BY <1>2, <1>3

\* A tree stays one when only marks of its nodes change, and no node that was
\* listed becomes unlisted.
LEMMA MarksKeep ==
    ASSUME NEW rs, NEW t, TreeOf(rs, t), NEW u, DOMAIN u = DOMAIN t,
           \A x \in DOMAIN t : u[x] \in Flags /\ (t[x].loaded => u[x].loaded)
    PROVE  TreeOf(rs, u)
BY DEF TreeOf, Typed, Shaped

\* It stays one when a node loses what is below it.
LEMMA CutKeeps ==
    ASSUME NEW rs, NEW t, TreeOf(rs, t), NEW n \in DOMAIN t,
           NEW u, DOMAIN u = DOMAIN t \ Under(t, n), \A x \in DOMAIN u : u[x] \in Flags,
           \A x \in DOMAIN u \ {n} : t[x].loaded => u[x].loaded
    PROVE  TreeOf(rs, u)
<1>1. Typed(rs, u) /\ rs \in Seq(DNs)
  BY DEF TreeOf, Typed
<1>2. ASSUME NEW s \in DOMAIN rs PROVE <<s, rs[s]>> \in DOMAIN u
  BY <1>2, UnderFacts DEF TreeOf, Shaped
<1>3. ASSUME NEW x \in DOMAIN u, x[2] # rs[x[1]]
      PROVE  <<x[1], Parent(x[2])>> \in DOMAIN u /\ u[<<x[1], Parent(x[2])>>].loaded
  <2> DEFINE p == <<x[1], Parent(x[2])>>
  <2>1. p \in DOMAIN t /\ t[p].loaded
    BY <1>3 DEF TreeOf, Shaped
  <2>2. p \notin Under(t, n) \cup {n}
    BY <1>3, UnderFacts
  <2> QED
    BY <2>1, <2>2
<1> QED
  BY <1>1, <1>2, <1>3 DEF TreeOf, Shaped

LEMMA ResetFacts ==
    ASSUME NEW rs, NEW t, TreeOf(rs, t), NEW n \in DOMAIN t
    PROVE  /\ TreeOf(rs, Reset(t, n)) /\ DOMAIN Reset(t, n) = DOMAIN t \ Under(t, n)
           /\ n \in DOMAIN Reset(t, n)
           /\ \A x \in DOMAIN Reset(t, n) \ {n} : Reset(t, n)[x] = t[x]
<1> DEFINE u == Reset(t, n)
<1>1. n \notin Under(t, n)
  BY UnderFacts
<1>2. DOMAIN u = DOMAIN t \ Under(t, n)
  BY DEF Reset, Childless
<1>3. \A x \in DOMAIN u \ {n} : u[x] = t[x]
  BY DEF Reset, Childless
<1>4. u[n] = [t[n] EXCEPT !.loaded = FALSE, !.expanded = FALSE, !.loading = TRUE]
  BY <1>1 DEF Reset, Childless
<1> HIDE DEF u
<1>5. \A x \in DOMAIN t : t[x] \in Flags
  BY DEF TreeOf, Typed
<1>6. u[n] \in Flags
  BY <1>4, <1>5 DEF Flags
<1>7. TreeOf(rs, u)
  <2>1. \A x \in DOMAIN u : u[x] \in Flags
    BY <1>2, <1>3, <1>5, <1>6
  <2>2. \A x \in DOMAIN u \ {n} : t[x].loaded => u[x].loaded
    BY <1>3
  <2> QED
    BY <1>2, <2>1, <2>2, CutKeeps, Zenon
<1> QED
  BY <1>1, <1>2, <1>3, <1>7 DEF u

LEMMA FilledFacts ==
    ASSUME NEW rs, NEW t, TreeOf(rs, t), NEW n \in DOMAIN t,
           NEW kids \in SUBSET Kids(n[2]), NEW leaves \in SUBSET kids
    PROVE  /\ TreeOf(rs, Filled(t, n, kids, leaves)) /\ n \in DOMAIN Filled(t, n, kids, leaves)
           /\ \A x \in DOMAIN Filled(t, n, kids, leaves) :
                Filled(t, n, kids, leaves)[x].loading => x # n /\ x \in DOMAIN t /\ t[x].loading
<1> DEFINE u    == Filled(t, n, kids, leaves)
           bare == Childless(t, n)
           new  == {<<n[1], e>> : e \in kids}
<1>1. n \notin Under(t, n)
  BY UnderFacts
<1>2. DOMAIN bare = DOMAIN t \ Under(t, n) /\ \A x \in DOMAIN bare : bare[x] = t[x]
  BY DEF Childless
<1> HIDE DEF bare
<1>3. /\ n = <<n[1], n[2]>> /\ n[1] \in DOMAIN rs /\ n[2] \in Seq(RDNs) /\ n[2] # <<>>
      /\ rs[n[1]] \in Seq(RDNs) /\ Prefix(rs[n[1]], n[2])
  BY NodeFacts
<1>4. \A e \in kids : /\ e \in DNs /\ e \in Seq(RDNs) /\ e # <<>> /\ Prefix(n[2], e)
                      /\ Len(e) = Len(n[2]) + 1 /\ Parent(e) = n[2]
  BY <1>3, ParentFacts, DNAssumption DEF Kids
<1>5. n \notin new
  BY <1>3, <1>4
<1>6. \A e \in kids : <<n[1], e>> \notin DOMAIN bare
  BY <1>2, <1>3, <1>4, <1>5 DEF Under
<1>7. /\ DOMAIN u = DOMAIN bare \cup new
      /\ \A x \in new : u[x] = Fresh(x[2] \in leaves)
      /\ u[n] = [t[n] EXCEPT !.loading = FALSE, !.loaded = TRUE, !.expanded = TRUE]
      /\ \A x \in DOMAIN bare \ {n} : u[x] = t[x]
  BY <1>1, <1>2, <1>5, <1>6 DEF Filled, bare
<1> HIDE DEF u
<1>14. ASSUME NEW x \in new PROVE u[x] \in Flags /\ ~u[x].loading
  <2>1. u[x] = Fresh(x[2] \in leaves)
    BY <1>7, Zenon
  <2>2. Fresh(x[2] \in leaves) \in Flags /\ ~Fresh(x[2] \in leaves).loading
    BY FreshFacts, Zenon
  <2> QED
    BY <2>1, <2>2, Zenon
<1>8. \A x \in DOMAIN u : u[x] \in Flags
  <2>1. \A x \in DOMAIN t : t[x] \in Flags
    BY DEF TreeOf, Typed
  <2>2. u[n] \in Flags
    BY <1>7, <2>1 DEF Flags
  <2>3. \A x \in new : u[x] \in Flags
    BY <1>14
  <2> QED
    BY <1>2, <1>7, <2>1, <2>2, <2>3
<1>9. Typed(rs, u)
  <2>1. ASSUME NEW e \in kids
        PROVE  <<n[1], e>> \in (DOMAIN rs) \X DNs /\ Prefix(rs[n[1]], e)
    BY <1>3, <1>4, PrefixOrder
  <2>2. \A x \in new : x \in (DOMAIN rs) \X DNs /\ Prefix(rs[x[1]], x[2])
    BY <2>1
  <2>3. \A x \in DOMAIN bare : x \in (DOMAIN rs) \X DNs /\ Prefix(rs[x[1]], x[2])
    BY <1>2 DEF TreeOf, Typed
  <2> HIDE DEF new
  <2> QED
    BY <1>7, <1>8, <2>2, <2>3 DEF Typed
<1>10. Shaped(rs, u)
  <2>1. ASSUME NEW s \in DOMAIN rs PROVE <<s, rs[s]>> \in DOMAIN u
    BY <1>2, <1>7, UnderFacts DEF TreeOf, Shaped
  <2>2. ASSUME NEW x \in DOMAIN bare, x[2] # rs[x[1]]
        PROVE  <<x[1], Parent(x[2])>> \in DOMAIN u /\ u[<<x[1], Parent(x[2])>>].loaded
    <3> DEFINE p == <<x[1], Parent(x[2])>>
    <3>1. p \in DOMAIN t /\ t[p].loaded
      BY <1>2, <2>2 DEF TreeOf, Shaped
    <3>2. p \notin Under(t, n) \cup {n}
      BY <1>2, <2>2, UnderFacts
    <3> HIDE DEF p
    <3>3. p \in DOMAIN bare \ {n}
      BY <1>2, <3>1, <3>2
    <3>4. p \in DOMAIN u /\ u[p].loaded
      BY <1>2, <1>7, <3>1, <3>3
    <3> QED
      BY <3>4 DEF p
  <2>3. ASSUME NEW e \in kids
        PROVE  <<n[1], Parent(e)>> \in DOMAIN u /\ u[<<n[1], Parent(e)>>].loaded
    <3>1. <<n[1], Parent(e)>> = n
      BY <1>3, <1>4
    <3>2. n \in DOMAIN u /\ u[n].loaded
      <4>1. t[n] \in Flags
        BY DEF TreeOf, Typed
      <4> QED
        BY <1>1, <1>2, <1>7, <4>1 DEF Flags
    <3> QED
      BY <3>1, <3>2
  <2>4. \A x \in new : <<x[1], Parent(x[2])>> \in DOMAIN u /\ u[<<x[1], Parent(x[2])>>].loaded
    BY <2>3
  <2> HIDE DEF new
  <2> QED
    BY <1>7, <2>1, <2>2, <2>4 DEF Shaped
<1>11. ASSUME NEW x \in DOMAIN u, u[x].loading
       PROVE  x # n /\ x \in DOMAIN t /\ t[x].loading
  <2>1. x \notin new
    BY <1>11, <1>14
  <2>2. x # n
    <3>1. t[n] \in Flags
      BY DEF TreeOf, Typed
    <3>2. ~u[n].loading
      BY <1>7, <3>1 DEF Flags
    <3> QED
      BY <1>11, <3>2
  <2> HIDE DEF new
  <2> QED
    BY <1>2, <1>7, <1>11, <2>1, <2>2
<1>12. n \in DOMAIN u
  BY <1>1, <1>2, <1>7
<1>13. TreeOf(rs, u)
  BY <1>9, <1>10 DEF TreeOf
<1> QED
  BY <1>11, <1>12, <1>13 DEF u

-----------------------------------------------------------------------------
(* Requests and gotos.                                                     *)

LEMMA JobFacts ==
    /\ \A d \in DNs : Job("expand", d) \in Jobs /\ Job("read", d) \in Jobs
    /\ Job("roots", <<>>) \in Jobs
    /\ \A d \in DNs, e \in DNs : Job("expand", d) # Job("read", e)
    /\ \A j \in Jobs : j.kind \in {"expand", "read"} => j.dn \in DNs /\ j = Job(j.kind, j.dn)
    /\ \A j \in Jobs : j.kind \in {"expand", "read", "roots"}
    /\ \A d, e : (Job("expand", d) = Job("expand", e)) => d = e
BY DEF Jobs, Job

LEMMA AskingFacts ==
    ASSUME NEW fl \in [Jobs -> Nat], NEW js
    PROVE  /\ Asking(fl, js) \in [Jobs -> Nat]
           /\ \A j \in Jobs : Asking(fl, js)[j] >= fl[j] /\ (j \in js => Asking(fl, js)[j] > 0)
<1>1. \A j \in Jobs : Asking(fl, js)[j] = IF j \in js THEN fl[j] + 1 ELSE fl[j]
  BY DEF Asking
<1>2. \A j \in Jobs : fl[j] \in Nat
  OBVIOUS
<1>3. Asking(fl, js) = [j \in Jobs |-> IF j \in js THEN fl[j] + 1 ELSE fl[j]]
  BY DEF Asking
<1>4. \A j \in Jobs : (IF j \in js THEN fl[j] + 1 ELSE fl[j]) \in Nat
  BY <1>2
<1>5. Asking(fl, js) \in [Jobs -> Nat]
  BY <1>3, <1>4
<1> QED
  BY <1>1, <1>2, <1>5

LEMMA StopFacts ==
    ASSUME NEW t, NEW ch \in Seq(DNs), ch # <<>>
    PROVE  /\ Stop(t, ch) \in 1 .. Len(ch)
           /\ Stop(t, ch) = Len(ch) \/ ~Has(t, ch[Stop(t, ch)])
                \/ ~t[Find(t, ch[Stop(t, ch)])].loaded
<1> DEFINE stops == {i \in 1 .. Len(ch) :
                       i = Len(ch) \/ ~Has(t, ch[i]) \/ ~t[Find(t, ch[i])].loaded}
           m == CHOOSE i \in stops : \A k \in stops : i <= k
<1>1. Len(ch) \in Nat /\ Len(ch) \in stops /\ stops \in SUBSET Nat
  OBVIOUS
<1>2. \E i \in stops : \A k \in stops : i <= k
  <2> HIDE DEF stops
  <2> QED
    BY <1>1, LeastElement
<1>3. m \in stops
  BY <1>2
<1>4. Stop(t, ch) = m
  BY DEF Stop
<1> HIDE DEF m
<1> QED
  BY <1>3, <1>4

LEMMA PassedFacts ==
    ASSUME NEW rs, NEW t, TreeOf(rs, t), NEW ch
    PROVE  /\ DOMAIN Passed(t, ch) = DOMAIN t
           /\ \A x \in DOMAIN t : /\ Passed(t, ch)[x] \in Flags
                                  /\ Passed(t, ch)[x].loaded = t[x].loaded
                                  /\ Passed(t, ch)[x].loading = t[x].loading
<1>1. \A x \in DOMAIN t : t[x] \in Flags
  BY DEF TreeOf, Typed
<1>2. \A x \in DOMAIN t : Passed(t, ch)[x] \in {t[x], [t[x] EXCEPT !.expanded = TRUE]}
  BY DEF Passed
<1>3. DOMAIN Passed(t, ch) = DOMAIN t
  BY DEF Passed
<1> QED
  BY <1>1, <1>2, <1>3 DEF Flags

\* The marks of loading stand for requests, and a goto that waits for the node
\* e is woken by the listing of e or of a node above it that is in the tree.
LoadingIn(t, fl) == \A n \in DOMAIN t : t[n].loading => fl[Job("expand", n[2])] > 0
Woken(t, fl, e) == \E d \in DNs : Prefix(d, e) /\ fl[Job("expand", d)] > 0 /\ Has(t, d)

LEMMA AdvanceFacts ==
    ASSUME NEW rs, NEW t, TreeOf(rs, t), NEW ch \in Seq(DNs), ch # <<>>,
           NEW fl \in [Jobs -> Nat], NEW ld \in BOOLEAN, AdvanceGoto(t, ch, fl, ld)
    PROVE  /\ TreeOf(rs, tree') /\ chain' \in Seq(DNs)
           /\ inflight' \in [Jobs -> Nat] /\ \A j \in Jobs : inflight'[j] >= fl[j]
           /\ loading' \in BOOLEAN
           /\ loading' => ld \/ \E d \in DNs : inflight'[Job("read", d)] > 0
           /\ LoadingIn(t, fl) => LoadingIn(tree', inflight')
           /\ LoadingIn(t, fl) /\ chain' # <<>> => Woken(tree', inflight', chain'[1])
<1> DEFINE i    == Stop(t, ch)
           head == ch[i]
           rest == SubSeq(ch, i, Len(ch))
           u    == Passed(t, ch)
           n    == Find(t, head)
<1>1. /\ i \in 1 .. Len(ch) /\ Len(ch) \in Nat /\ head \in DNs
      /\ i = Len(ch) \/ ~Has(t, head) \/ ~t[n].loaded
  BY StopFacts
<1>2. rest \in Seq(DNs) /\ Len(rest) = Len(ch) - i + 1 /\ rest[1] = head
  BY <1>1
<1>3. /\ DOMAIN u = DOMAIN t
      /\ \A x \in DOMAIN t : u[x] \in Flags /\ u[x].loaded = t[x].loaded /\ u[x].loading = t[x].loading
  BY PassedFacts
<1>4. TreeOf(rs, u)
  BY <1>3, MarksKeep
<1>5. \/ /\ ~Has(t, head)
         /\ tree' = u /\ chain' = <<>> /\ loading' = ld /\ inflight' = fl
      \/ /\ Has(t, head) /\ Len(rest) = 1
         /\ tree' = u /\ chain' = <<>> /\ loading' = TRUE
         /\ inflight' = Asking(fl, {Job("read", head)})
      \/ /\ Has(t, head) /\ Len(rest) > 1
         /\ chain' = rest /\ loading' = ld
         /\ tree' = [u EXCEPT ![n].loading = TRUE]
         /\ inflight' = IF t[n].loading THEN fl ELSE Asking(fl, {Job("expand", head)})
  BY DEF AdvanceGoto
<1> HIDE DEF u, n, head, rest, i
<1>6. CASE /\ ~Has(t, head)
           /\ tree' = u /\ chain' = <<>> /\ loading' = ld /\ inflight' = fl
  <2>1. LoadingIn(t, fl) => LoadingIn(tree', inflight')
    BY <1>3, <1>6 DEF LoadingIn
  <2>2. chain' \in Seq(DNs)
    BY <1>6
  <2>3. loading' \in BOOLEAN
    BY <1>6, Zenon
  <2>4. \A j \in Jobs : inflight'[j] >= fl[j]
    BY <1>6
  <2> QED
    BY <1>4, <1>6, <2>1, <2>2, <2>3, <2>4
<1>7. CASE /\ Has(t, head) /\ Len(rest) = 1
           /\ tree' = u /\ chain' = <<>> /\ loading' = TRUE
           /\ inflight' = Asking(fl, {Job("read", head)})
  <2>1. /\ inflight' \in [Jobs -> Nat] /\ \A j \in Jobs : inflight'[j] >= fl[j]
        /\ inflight'[Job("read", head)] > 0
    BY <1>1, <1>7, AskingFacts, JobFacts
  <2>2. LoadingIn(t, fl) => LoadingIn(tree', inflight')
    <3>1. ASSUME NEW x \in DOMAIN t, fl[Job("expand", x[2])] > 0
          PROVE  inflight'[Job("expand", x[2])] > 0
      <4>1. Job("expand", x[2]) \in Jobs
        BY NodeFacts, JobFacts
      <4>2. inflight'[Job("expand", x[2])] \in Nat /\ fl[Job("expand", x[2])] \in Nat
        BY <2>1, <4>1
      <4> QED
        BY <2>1, <3>1, <4>1, <4>2
    <3> QED
      BY <1>3, <1>7, <3>1 DEF LoadingIn
  <2>3. chain' \in Seq(DNs) /\ chain' = <<>>
    BY <1>7
  <2>4. loading' \in BOOLEAN
    BY <1>7, Zenon
  <2>5. \E d \in DNs : inflight'[Job("read", d)] > 0
    BY <1>1, <2>1
  <2> QED
    BY <1>4, <1>7, <2>1, <2>2, <2>3, <2>4, <2>5
<1>8. CASE /\ Has(t, head) /\ Len(rest) > 1
           /\ chain' = rest /\ loading' = ld
           /\ tree' = [u EXCEPT ![n].loading = TRUE]
           /\ inflight' = IF t[n].loading THEN fl ELSE Asking(fl, {Job("expand", head)})
  <2>1. n \in DOMAIN t /\ n[2] = head
    BY <1>8, FindFacts DEF n
  <2>2. /\ DOMAIN tree' = DOMAIN t
        /\ tree'[n] = [u[n] EXCEPT !.loading = TRUE]
        /\ \A x \in DOMAIN t \ {n} : tree'[x] = u[x]
    BY <1>3, <1>8, <2>1
  <2>3. \A x \in DOMAIN t : tree'[x] \in Flags /\ (u[x].loaded => tree'[x].loaded)
    <3>1. u[n] \in Flags
      BY <1>3, <2>1
    <3>2. tree'[n] \in Flags /\ tree'[n].loaded = u[n].loaded
      BY <2>2, <3>1 DEF Flags
    <3>3. \A x \in DOMAIN t \ {n} : tree'[x] \in Flags /\ (u[x].loaded => tree'[x].loaded)
      BY <1>3, <2>2
    <3> QED
      BY <3>2, <3>3
  <2>4. TreeOf(rs, tree')
    BY <1>3, <1>4, <2>2, <2>3, MarksKeep
  <2>5. inflight' \in [Jobs -> Nat] /\ \A j \in Jobs : inflight'[j] >= fl[j]
    <3>1. CASE t[n].loading
      BY <1>8, <3>1
    <3>2. CASE ~t[n].loading
      BY <1>8, <3>2, AskingFacts
    <3> QED
      BY <3>1, <3>2
  <2>6. \A x \in DOMAIN t : fl[Job("expand", x[2])] > 0 => inflight'[Job("expand", x[2])] > 0
    <3> SUFFICES ASSUME NEW x \in DOMAIN t, fl[Job("expand", x[2])] > 0
                 PROVE  inflight'[Job("expand", x[2])] > 0
      OBVIOUS
    <3>1. Job("expand", x[2]) \in Jobs
      BY NodeFacts, JobFacts
    <3>2. inflight'[Job("expand", x[2])] \in Nat /\ fl[Job("expand", x[2])] \in Nat
      BY <2>5, <3>1
    <3> QED
      BY <2>5, <3>1, <3>2
  <2>7. LoadingIn(t, fl) => inflight'[Job("expand", head)] > 0
    <3>1. CASE t[n].loading
      BY <2>1, <2>6, <3>1 DEF LoadingIn
    <3>2. CASE ~t[n].loading
      BY <1>1, <1>8, <3>2, AskingFacts, JobFacts
    <3> QED
      BY <3>1, <3>2
  <2>8. LoadingIn(t, fl) => LoadingIn(tree', inflight')
    BY <1>3, <2>1, <2>2, <2>6, <2>7 DEF LoadingIn
  <2>9. LoadingIn(t, fl) => Woken(tree', inflight', head)
    <3>1. Prefix(head, head)
      BY <1>1, DNAssumption, PrefixOrder
    <3>2. Has(tree', head)
      BY <2>1, <2>2, HasNode
    <3> QED
      BY <1>1, <2>7, <3>1, <3>2 DEF Woken
  <2>10. loading' \in BOOLEAN /\ (loading' => ld)
    BY <1>8, Zenon
  <2>11. chain' \in Seq(DNs)
    BY <1>2, <1>8
  <2>12. chain'[1] = head
    BY <1>2, <1>8
  <2> QED
    BY <2>4, <2>5, <2>8, <2>9, <2>10, <2>11, <2>12, Zenon
<1> QED
  BY <1>5, <1>6, <1>7, <1>8

\* Further requests take nothing away.
ReadIn(fl) == \E d \in DNs : fl[Job("read", d)] > 0
Grows(fl, gl) == fl \in [Jobs -> Nat] /\ gl \in [Jobs -> Nat] /\ \A j \in Jobs : gl[j] >= fl[j]

LEMMA GrowsFacts ==
    ASSUME NEW rs, NEW t, TreeOf(rs, t), NEW fl, NEW gl, Grows(fl, gl)
    PROVE  /\ \A j \in Jobs : fl[j] > 0 => gl[j] > 0
           /\ ReadIn(fl) => ReadIn(gl)
           /\ LoadingIn(t, fl) => LoadingIn(t, gl)
           /\ \A e : Woken(t, fl, e) => Woken(t, gl, e)
<1>1. ASSUME NEW j \in Jobs, fl[j] > 0 PROVE gl[j] > 0
  <2>1. fl[j] \in Nat /\ gl[j] \in Nat /\ gl[j] >= fl[j]
    BY DEF Grows
  <2> QED
    BY <1>1, <2>1
<1>2. \A d \in DNs : Job("expand", d) \in Jobs /\ Job("read", d) \in Jobs
  BY JobFacts
<1>3. \A n \in DOMAIN t : Job("expand", n[2]) \in Jobs
  BY <1>2, NodeFacts
<1> QED
  BY <1>1, <1>2, <1>3 DEF ReadIn, LoadingIn, Woken

LEMMA AskedFacts ==
    ASSUME NEW fl \in [Jobs -> Nat], NEW js
    PROVE  Grows(fl, Asking(fl, js)) /\ \A j \in Jobs \cap js : Asking(fl, js)[j] > 0
BY AskingFacts DEF Grows

LEMMA AnsweredFacts ==
    ASSUME inflight \in [Jobs -> Nat], NEW j \in Jobs, inflight[j] > 0
    PROVE  /\ Answered(j) \in [Jobs -> Nat]
           /\ \A i \in Jobs \ {j} : Answered(j)[i] = inflight[i]
BY DEF Answered

\* Listing a node anew, when it is asked for.
LEMMA RefreshFacts ==
    ASSUME NEW rs, NEW t, TreeOf(rs, t), NEW fl, NEW n \in DOMAIN t,
           fl[Job("expand", n[2])] > 0
    PROVE  /\ LoadingIn(t, fl) => LoadingIn(Reset(t, n), fl)
           /\ \A e \in DNs : Woken(t, fl, e) => Woken(Reset(t, n), fl, e)
<1> DEFINE u == Reset(t, n)
<1>1. /\ DOMAIN u = DOMAIN t \ Under(t, n) /\ n \in DOMAIN u
      /\ \A x \in DOMAIN u \ {n} : u[x] = t[x]
  BY ResetFacts
<1> HIDE DEF u
<1>2. LoadingIn(t, fl) => LoadingIn(u, fl)
  BY <1>1 DEF LoadingIn
<1>3. ASSUME NEW e \in DNs, Woken(t, fl, e) PROVE Woken(u, fl, e)
  <2>1. PICK d \in DNs : Prefix(d, e) /\ fl[Job("expand", d)] > 0 /\ Has(t, d)
    BY <1>3 DEF Woken
  <2>2. PICK m \in DOMAIN t : m[2] = d
    BY <2>1, HasNode
  <2>3. CASE m \in DOMAIN u
    BY <2>1, <2>2, <2>3, HasNode DEF Woken
  <2>4. CASE m \notin DOMAIN u
    <3>1. Prefix(n[2], d)
      BY <1>1, <2>2, <2>4 DEF Under
    <3>2. n[2] \in DNs /\ n[2] \in Seq(RDNs) /\ d \in Seq(RDNs) /\ e \in Seq(RDNs)
      BY NodeFacts, DNAssumption
    <3>3. Prefix(n[2], e) /\ Has(u, n[2])
      BY <1>1, <2>1, <3>1, <3>2, PrefixOrder, HasNode
    <3> QED
      BY <3>2, <3>3 DEF Woken
  <2> QED
    BY <2>3, <2>4
<1> QED
  BY <1>2, <1>3 DEF u

LEMMA RefreshedFacts ==
    ASSUME NEW rs, NEW t, TreeOf(rs, t), NEW fl, NEW d,
           Has(t, d) => fl[Job("expand", d)] > 0
    PROVE  /\ TreeOf(rs, Refreshed(t, d))
           /\ LoadingIn(t, fl) => LoadingIn(Refreshed(t, d), fl)
           /\ \A e \in DNs : Woken(t, fl, e) => Woken(Refreshed(t, d), fl, e)
<1>1. CASE Has(t, d)
  <2>1. Find(t, d) \in DOMAIN t /\ Find(t, d)[2] = d /\ Refreshed(t, d) = Reset(t, Find(t, d))
    BY <1>1, FindFacts DEF Refreshed
  <2>2. TreeOf(rs, Reset(t, Find(t, d)))
    BY <2>1, ResetFacts
  <2>3. /\ LoadingIn(t, fl) => LoadingIn(Reset(t, Find(t, d)), fl)
        /\ \A e \in DNs : Woken(t, fl, e) => Woken(Reset(t, Find(t, d)), fl, e)
    BY <1>1, <2>1, RefreshFacts
  <2> QED
    BY <2>1, <2>2, <2>3
<1>2. CASE ~Has(t, d)
  BY <1>2 DEF Refreshed
<1> QED
  BY <1>1, <1>2

-----------------------------------------------------------------------------
(* The invariant.  A goto is woken by the listing of a node that is there, *)
(* since the answer about one that is gone is dropped.                     *)

OtherTypes ==
    /\ chain \in Seq(DNs) /\ pending \in DNs \cup {<<>>} /\ entry \in DNs \cup {<<>>}
    /\ loading \in BOOLEAN /\ cut \in BOOLEAN /\ keys \in 0 .. MaxKeys
    /\ inflight \in [Jobs -> Nat]
Waits ==
    /\ Apart(roots) => LoadingIn(tree, inflight)
    /\ loading => ReadIn(inflight)
    /\ Apart(roots) /\ ~cut /\ chain # <<>> => Woken(tree, inflight, chain[1])
BrowserInv == OtherTypes /\ TreeOf(roots, tree) /\ Waits

LEMMA ForestFacts ==
    ASSUME NEW rs \in Seq(DNs)
    PROVE  /\ TreeOf(rs, Forest(rs)) /\ \A fl : LoadingIn(Forest(rs), fl)
<1>1. DOMAIN Forest(rs) = {<<s, rs[s]>> : s \in DOMAIN rs}
      /\ \A n \in DOMAIN Forest(rs) : Forest(rs)[n] = Fresh(FALSE)
  BY DEF Forest
<1>2. Fresh(FALSE) \in Flags /\ ~Fresh(FALSE).loading
  BY DEF Fresh, Flags
<1>3. \A s \in DOMAIN rs : rs[s] \in DNs /\ Prefix(rs[s], rs[s])
  BY DNAssumption, PrefixOrder
<1> DEFINE t == Forest(rs)
<1>4. /\ \A n \in DOMAIN t : t[n] = Fresh(FALSE) /\ n \in (DOMAIN rs) \X DNs /\ n[2] = rs[n[1]]
      /\ \A s \in DOMAIN rs : <<s, rs[s]>> \in DOMAIN t
  <2> HIDE DEF t
  <2>1. \A s \in DOMAIN rs : <<s, rs[s]>> \in DOMAIN t
    BY <1>1 DEF t
  <2>2. ASSUME NEW n \in DOMAIN t
        PROVE  t[n] = Fresh(FALSE) /\ n \in (DOMAIN rs) \X DNs /\ n[2] = rs[n[1]]
    <3>1. t[n] = Fresh(FALSE)
      BY <1>1 DEF t
    <3>2. PICK s \in DOMAIN rs : n = <<s, rs[s]>>
      BY <1>1 DEF t
    <3> QED
      BY <1>3, <3>1, <3>2
  <2> QED
    BY <2>1, <2>2
<1> HIDE DEF t
<1>5. \A n \in DOMAIN t : t[n] \in Flags /\ ~t[n].loading /\ Prefix(rs[n[1]], n[2])
  <2>1. \A n \in DOMAIN t : t[n] \in Flags /\ ~t[n].loading
    BY <1>2, <1>4
  <2>2. \A n \in DOMAIN t : Prefix(rs[n[1]], n[2])
    <3>1. ASSUME NEW n \in DOMAIN t PROVE Prefix(rs[n[1]], n[2])
      <4>1. n[1] \in DOMAIN rs /\ n[2] = rs[n[1]]
        BY <1>4
      <4> QED
        BY <1>3, <4>1
    <3> QED
      BY <3>1
  <2> QED
    BY <2>1, <2>2
<1>6. Typed(rs, t)
  BY <1>4, <1>5 DEF Typed
<1>7. Shaped(rs, t)
  BY <1>4 DEF Shaped
<1>8. TreeOf(rs, t)
  BY <1>6, <1>7 DEF TreeOf
<1>9. \A fl : LoadingIn(t, fl)
  BY <1>5 DEF LoadingIn
<1> QED
  BY <1>8, <1>9 DEF t

LEMMA BrowserInit == Init => BrowserInv
<1> SUFFICES ASSUME Init PROVE BrowserInv
  OBVIOUS
<1>1. TreeOf(roots, tree) /\ LoadingIn(tree, inflight)
  <2>1. <<>> \in Seq(DNs) /\ roots = <<>> /\ tree = Forest(<<>>)
    BY DEF Init
  <2> QED
    BY <2>1, ForestFacts
<1>2. inflight \in [Jobs -> Nat]
  BY DEF Init
<1>3. loading \in BOOLEAN /\ cut \in BOOLEAN /\ ~loading
  BY Zenon DEF Init
<1>4. chain = <<>> /\ chain \in Seq(DNs) /\ pending = <<>> /\ entry = <<>> /\ keys \in 0 .. MaxKeys
  BY KeysAssumption DEF Init
<1> QED
  BY <1>1, <1>2, <1>3, <1>4 DEF BrowserInv, OtherTypes, Waits

-----------------------------------------------------------------------------
(* What the user and the session do.                                       *)

LEMMA KeyFacts == Key /\ keys \in 0 .. MaxKeys => keys' \in 0 .. MaxKeys
BY KeysAssumption DEF Key

LEMMA ChainFacts ==
    ASSUME NEW d \in DNs
    PROVE  \A k \in 1 .. Len(d) : SubSeq(d, 1, k) \in DNs
<1>1. d \in Seq(RDNs) /\ Len(d) \in Nat
  BY DNAssumption
<1> DEFINE T == {m \in Nat : m < Len(d) => SubSeq(d, 1, Len(d) - m) \in DNs}
<1>2. 0 \in T
  <2>1. SubSeq(d, 1, Len(d)) = d /\ Len(d) - 0 = Len(d)
    BY <1>1
  <2>2. SubSeq(d, 1, Len(d) - 0) \in DNs
    BY <2>1
  <2> QED
    BY <2>2
<1>3. ASSUME NEW m \in Nat, m \in T PROVE m + 1 \in T
  <2> SUFFICES ASSUME m + 1 < Len(d) PROVE SubSeq(d, 1, Len(d) - (m + 1)) \in DNs
    OBVIOUS
  <2> DEFINE e == SubSeq(d, 1, Len(d) - m)
             f == SubSeq(d, 1, Len(d) - (m + 1))
  <2>1. Len(d) - m \in 0 .. Len(d) /\ Len(d) - (m + 1) \in 0 .. Len(d) /\ Len(d) - m > 1
    BY <1>1
  <2>2. /\ e \in Seq(RDNs) /\ Len(e) = Len(d) - m /\ \A j \in 1 .. Len(d) - m : e[j] = d[j]
        /\ f \in Seq(RDNs) /\ Len(f) = Len(d) - (m + 1)
        /\ \A j \in 1 .. Len(d) - (m + 1) : f[j] = d[j]
    BY <1>1, <2>1, PrefixFacts
  <2>3. e \in DNs
    BY <1>1, <1>3
  <2> HIDE DEF e, f
  <2>4. Prefix(f, e) /\ Len(e) = Len(f) + 1 /\ e # <<>> /\ Len(e) > 1
    BY <1>1, <2>1, <2>2 DEF Prefix
  <2>5. Parent(e) = f
    BY <2>2, <2>4, ParentFacts
  <2>6. Parent(e) \in DNs
    BY <2>3, <2>4, ParentsAssumption
  <2> QED
    BY <2>5, <2>6 DEF f
<1>4. \A m \in Nat : m \in T
  <2> HIDE DEF T
  <2> QED
    BY <1>2, <1>3, SetInduction
<1>5. ASSUME NEW k \in 1 .. Len(d) PROVE SubSeq(d, 1, k) \in DNs
  <2>1. Len(d) - k \in Nat /\ Len(d) - k < Len(d) /\ Len(d) - (Len(d) - k) = k
    BY <1>1
  <2>2. Len(d) - k \in T
    BY <1>4, <2>1
  <2> QED
    BY <2>1, <2>2
<1> QED
  BY <1>5

LEMMA ChainSequence ==
    ASSUME NEW d \in DNs, NEW r \in Nat \ {0}, r <= Len(d)
    PROVE  /\ [i \in 1 .. Len(d) - r + 1 |-> SubSeq(d, 1, r + i - 1)] \in Seq(DNs)
           /\ [i \in 1 .. Len(d) - r + 1 |-> SubSeq(d, 1, r + i - 1)] # <<>>
<1> DEFINE m  == Len(d) - r + 1
           ch == [i \in 1 .. m |-> SubSeq(d, 1, r + i - 1)]
<1>1. Len(d) \in Nat /\ m \in Nat \ {0}
  BY DNAssumption
<1>2. ASSUME NEW i \in 1 .. m PROVE SubSeq(d, 1, r + i - 1) \in DNs
  <2>1. r + i - 1 \in 1 .. Len(d)
    BY <1>1
  <2> QED
    BY <2>1, ChainFacts
<1> HIDE DEF m
<1>3. ch \in [1 .. m -> DNs]
  BY <1>2
<1> HIDE DEF ch
<1>4. ch \in Seq(DNs)
  BY <1>1, <1>3
<1>5. 1 \in DOMAIN ch
  BY <1>1, <1>3
<1>6. ch # <<>>
  BY <1>5
<1> QED
  BY <1>4, <1>6 DEF ch, m

LEMMA ParentName == \A d \in DNs : Parent(d) \in DNs \cup {<<>>}
<1> SUFFICES ASSUME NEW d \in DNs PROVE Parent(d) \in DNs \cup {<<>>}
  OBVIOUS
<1>1. d \in Seq(RDNs) /\ d # <<>> /\ Len(d) \in Nat
  BY DNAssumption
<1>2. CASE Len(d) > 1
  BY <1>2, ParentsAssumption
<1>3. CASE ~(Len(d) > 1)
  <2>1. Parent(d) \in Seq(RDNs) /\ Len(Parent(d)) = Len(d) - 1
    BY <1>1, ParentFacts
  <2>2. Len(Parent(d)) = 0
    BY <1>1, <1>3, <2>1
  <2> QED
    BY <2>1, <2>2
<1> QED
  BY <1>2, <1>3

\* A DN below no root becomes one, and its node is new.
LEMMA RootAdded ==
    ASSUME NEW rs, NEW t, TreeOf(rs, t), NEW d \in DNs,
           NEW u, DOMAIN u = DOMAIN t \cup {<<Len(rs) + 1, d>>},
           \A x \in DOMAIN u : u[x] = IF x \in DOMAIN t THEN t[x] ELSE Fresh(FALSE)
    PROVE  /\ TreeOf(Append(rs, d), u) /\ (Apart(Append(rs, d)) => Apart(rs))
           /\ \A fl : LoadingIn(t, fl) => LoadingIn(u, fl)
<1> DEFINE qs == Append(rs, d)
           m  == <<Len(rs) + 1, d>>
<1>1. rs \in Seq(DNs) /\ Len(rs) \in Nat
  BY DEF TreeOf
<1>2. /\ qs \in Seq(DNs) /\ Len(qs) = Len(rs) + 1 /\ qs[Len(rs) + 1] = d
      /\ \A s \in 1 .. Len(rs) : qs[s] = rs[s]
  BY <1>1
<1>3. DOMAIN rs = 1 .. Len(rs) /\ DOMAIN qs = 1 .. Len(rs) + 1
  BY <1>1, <1>2
<1> HIDE DEF qs
<1>4. m \notin DOMAIN t /\ m[1] = Len(rs) + 1 /\ m[2] = d
  <2>1. Len(rs) + 1 \notin DOMAIN rs
    BY <1>1, <1>3
  <2> QED
    BY <2>1, NodeFacts
<1>5. u[m] = Fresh(FALSE) /\ \A x \in DOMAIN t : x \in DOMAIN u /\ u[x] = t[x]
  BY <1>4
<1>6. Fresh(FALSE) \in Flags /\ ~Fresh(FALSE).loading
  BY DEF Fresh, Flags
<1>7. m \in (DOMAIN qs) \X DNs /\ Prefix(qs[m[1]], m[2])
  BY <1>1, <1>2, <1>3, <1>4, DNAssumption, PrefixOrder
<1> HIDE DEF m
<1>8. \A x \in DOMAIN t : /\ x \in (DOMAIN qs) \X DNs /\ qs[x[1]] = rs[x[1]]
                          /\ t[x] \in Flags /\ Prefix(qs[x[1]], x[2])
  <2>1. ASSUME NEW x \in DOMAIN t
        PROVE  x[1] \in 1 .. Len(rs) /\ x \in (DOMAIN rs) \X DNs /\ t[x] \in Flags
               /\ Prefix(rs[x[1]], x[2])
    BY <1>3 DEF TreeOf, Typed
  <2>2. 1 .. Len(rs) \subseteq 1 .. Len(rs) + 1
    BY <1>1
  <2> QED
    BY <1>2, <1>3, <2>1, <2>2
<1>9. DOMAIN u = DOMAIN t \cup {m}
  BY DEF m
<1>10. Typed(qs, u)
  BY <1>5, <1>6, <1>7, <1>8, <1>9 DEF Typed
<1>11. Shaped(qs, u)
  <2>1. ASSUME NEW s \in DOMAIN qs PROVE <<s, qs[s]>> \in DOMAIN u
    <3>1. CASE s = Len(rs) + 1
      BY <1>2, <1>9, <3>1 DEF m
    <3>2. CASE s # Len(rs) + 1
      <4>1. s \in DOMAIN rs /\ qs[s] = rs[s]
        BY <1>1, <1>2, <1>3, <3>2
      <4> QED
        BY <1>9, <4>1 DEF TreeOf, Shaped
    <3> QED
      BY <3>1, <3>2
  <2>2. ASSUME NEW x \in DOMAIN u, x[2] # qs[x[1]]
        PROVE  <<x[1], Parent(x[2])>> \in DOMAIN u /\ u[<<x[1], Parent(x[2])>>].loaded
    <3>1. x \in DOMAIN t
      BY <1>2, <1>4, <1>9, <2>2
    <3>2. x[2] # rs[x[1]]
      BY <1>8, <2>2, <3>1
    <3>3. <<x[1], Parent(x[2])>> \in DOMAIN t /\ t[<<x[1], Parent(x[2])>>].loaded
      BY <3>1, <3>2 DEF TreeOf, Shaped
    <3> QED
      BY <1>5, <3>3
  <2> QED
    BY <2>1, <2>2 DEF Shaped
<1>12. Apart(qs) => Apart(rs)
  <2>1. \A s \in DOMAIN rs : s \in DOMAIN qs /\ qs[s] = rs[s]
    BY <1>1, <1>2, <1>3
  <2> QED
    BY <2>1 DEF Apart
<1>13. \A fl : LoadingIn(t, fl) => LoadingIn(u, fl)
  BY <1>5, <1>6, <1>9 DEF LoadingIn
<1>14. TreeOf(qs, u)
  BY <1>2, <1>10, <1>11 DEF TreeOf
<1> QED
  BY <1>12, <1>13, <1>14 DEF qs

LEMMA AdvanceKeeps ==
    ASSUME NEW t, TreeOf(roots', t), NEW ch \in Seq(DNs), ch # <<>>, NEW fl \in [Jobs -> Nat],
           loading \in BOOLEAN, loading => ReadIn(fl), Apart(roots') => LoadingIn(t, fl),
           AdvanceGoto(t, ch, fl, loading)
    PROVE  /\ TreeOf(roots', tree') /\ Waits'
           /\ chain' \in Seq(DNs) /\ inflight' \in [Jobs -> Nat] /\ loading' \in BOOLEAN
<1>1. /\ TreeOf(roots', tree') /\ chain' \in Seq(DNs)
      /\ inflight' \in [Jobs -> Nat] /\ \A j \in Jobs : inflight'[j] >= fl[j]
      /\ loading' \in BOOLEAN
      /\ loading' => loading \/ \E d \in DNs : inflight'[Job("read", d)] > 0
      /\ LoadingIn(t, fl) => LoadingIn(tree', inflight')
      /\ LoadingIn(t, fl) /\ chain' # <<>> => Woken(tree', inflight', chain'[1])
  BY AdvanceFacts
<1>2. ReadIn(fl) => ReadIn(inflight')
  BY <1>1, GrowsFacts DEF Grows
<1>3. loading' => ReadIn(inflight')
  BY <1>1, <1>2 DEF ReadIn
<1>4. Apart(roots') => LoadingIn(tree', inflight')
  BY <1>1
<1>5. Apart(roots') /\ chain' # <<>> => Woken(tree', inflight', chain'[1])
  BY <1>1
<1>6. Waits'
  <2> USE DEF Apart, LoadingIn, ReadIn, Woken, Waits, Prefix, Job, Has, Slots
  <2> QED
    BY <1>3, <1>4, <1>5
<1> QED
  BY <1>1, <1>6

LEMMA RootForFacts ==
    ASSUME roots \in Seq(DNs), NEW d, RootFor(d) # 0
    PROVE  RootFor(d) \in DOMAIN roots /\ Prefix(roots[RootFor(d)], d)
<1>1. RootsFor(d) # {} /\ RootsFor(d) \in SUBSET Nat
  BY DEF RootFor, RootsFor
<1>2. \E s \in RootsFor(d) : \A r \in RootsFor(d) : s <= r
  BY <1>1, LeastElement
<1>3. RootFor(d) \in RootsFor(d)
  BY <1>1, <1>2 DEF RootFor
<1> QED
  BY <1>3 DEF RootsFor

LEMMA StartGotoKeeps == ASSUME NEW d \in DNs, BrowserInv, StartGoto(d) PROVE BrowserInv'
<1> DEFINE s   == RootFor(d)
           new == [n \in DOMAIN tree \cup {<<Len(roots) + 1, d>>} |->
                       IF n \in DOMAIN tree THEN tree[n] ELSE Fresh(FALSE)]
           ch  == [i \in 1 .. Len(d) - Len(roots[s]) + 1 |-> SubSeq(d, 1, Len(roots[s]) + i - 1)]
<1>0. /\ roots \in Seq(DNs) /\ TreeOf(roots, tree) /\ loading \in BOOLEAN
      /\ loading => ReadIn(inflight)
      /\ Apart(roots) => LoadingIn(tree, inflight)
      /\ inflight \in [Jobs -> Nat] /\ keys \in 0 .. MaxKeys
  BY DEF BrowserInv, TreeOf, OtherTypes, Waits
<1>1. /\ keys' \in 0 .. MaxKeys /\ cut' \in BOOLEAN
      /\ pending' \in DNs \cup {<<>>} /\ entry' \in DNs \cup {<<>>}
  <2>1. cut' \in BOOLEAN
    BY Zenon DEF StartGoto
  <2> QED
    BY <2>1, KeyFacts DEF StartGoto, BrowserInv, OtherTypes
<1>2. ASSUME s = 0, roots' = Append(roots, d), AdvanceGoto(new, <<d>>, inflight, loading)
      PROVE  /\ TreeOf(roots', tree') /\ Waits'
             /\ chain' \in Seq(DNs) /\ inflight' \in [Jobs -> Nat] /\ loading' \in BOOLEAN
  <2>1. /\ DOMAIN new = DOMAIN tree \cup {<<Len(roots) + 1, d>>}
        /\ \A x \in DOMAIN new : new[x] = IF x \in DOMAIN tree THEN tree[x] ELSE Fresh(FALSE)
    OBVIOUS
  <2> HIDE DEF new
  <2>2. /\ TreeOf(Append(roots, d), new) /\ (Apart(Append(roots, d)) => Apart(roots))
        /\ \A fl : LoadingIn(tree, fl) => LoadingIn(new, fl)
    BY <1>0, <2>1, RootAdded
  <2>3. TreeOf(roots', new) /\ (Apart(roots') => LoadingIn(new, inflight))
    BY <1>0, <1>2, <2>2
  <2>4. <<d>> \in Seq(DNs) /\ <<d>> # <<>>
    OBVIOUS
  <2> QED
    BY <1>0, <1>2, <2>3, <2>4, AdvanceKeeps
<1>3. ASSUME s # 0, roots' = roots, AdvanceGoto(tree, ch, inflight, loading)
      PROVE  /\ TreeOf(roots', tree') /\ Waits'
             /\ chain' \in Seq(DNs) /\ inflight' \in [Jobs -> Nat] /\ loading' \in BOOLEAN
  <2>1. s \in DOMAIN roots /\ Prefix(roots[s], d)
    BY <1>0, <1>3, RootForFacts
  <2>2. d \in Seq(RDNs) /\ roots[s] \in DNs /\ roots[s] \in Seq(RDNs) /\ roots[s] # <<>>
    BY <1>0, <2>1, DNAssumption
  <2>3. Len(d) \in Nat /\ Len(roots[s]) \in Nat \ {0} /\ Len(roots[s]) <= Len(d)
    BY <2>1, <2>2 DEF Prefix
  <2>5. ch \in Seq(DNs) /\ ch # <<>>
    BY <2>3, ChainSequence
  <2> HIDE DEF ch
  <2>6. TreeOf(roots', tree) /\ (Apart(roots') => LoadingIn(tree, inflight))
    BY <1>0, <1>3
  <2> QED
    BY <1>0, <1>3, <2>5, <2>6, AdvanceKeeps
<1>4. /\ TreeOf(roots', tree') /\ Waits'
      /\ chain' \in Seq(DNs) /\ inflight' \in [Jobs -> Nat] /\ loading' \in BOOLEAN
  BY <1>2, <1>3 DEF StartGoto
<1>5. TreeOf(roots, tree)'
  BY <1>4 DEF TreeOf, Typed, Shaped, Prefix, Parent, Flags
<1> QED
  BY <1>1, <1>4, <1>5 DEF BrowserInv, OtherTypes, Jobs

\* The parts of the invariant that a step has to show when it leaves the roots,
\* the goto and what is shown alone.
LEMMA TreeStep ==
    ASSUME BrowserInv, UNCHANGED <<roots, chain, cut>>, keys' \in 0 .. MaxKeys,
           pending' \in DNs \cup {<<>>}, entry' \in DNs \cup {<<>>},
           loading' \in BOOLEAN, inflight' \in [Jobs -> Nat],
           TreeOf(roots, tree'), loading' => ReadIn(inflight'),
           LoadingIn(tree, inflight) => LoadingIn(tree', inflight'),
           \A e \in DNs : Woken(tree, inflight, e) => Woken(tree', inflight', e)
    PROVE  BrowserInv'
<1>1. TreeOf(roots, tree)'
  BY DEF TreeOf, Typed, Shaped, Prefix, Parent, Flags
<1>2. chain \in Seq(DNs) /\ (chain # <<>> => chain[1] \in DNs)
  BY DEF BrowserInv, OtherTypes
<1>3. Apart(roots') => LoadingIn(tree', inflight')
  BY DEF BrowserInv, Waits
<1>4. Apart(roots') /\ ~cut' /\ chain' # <<>> => Woken(tree', inflight', chain'[1])
  BY <1>2 DEF BrowserInv, Waits
<1>5. Waits'
  <2> USE DEF Apart, LoadingIn, ReadIn, Woken, Waits, Prefix, Job, Has, Slots
  <2> QED
    BY <1>3, <1>4
<1>6. OtherTypes'
  <2>1. cut' \in BOOLEAN
    BY Zenon DEF BrowserInv, OtherTypes
  <2> QED
    BY <1>2, <2>1 DEF OtherTypes, Jobs
<1> QED
  BY <1>1, <1>5, <1>6 DEF BrowserInv

LEMMA HasMarks ==
    ASSUME NEW t, NEW u, DOMAIN u = DOMAIN t, NEW fl, NEW gl, Grows(fl, gl)
    PROVE  \A e \in DNs : Woken(t, fl, e) => Woken(u, gl, e)
<1>1. \A d : Has(t, d) => Has(u, d)
  BY HasNode
<1>2. \A d \in DNs : fl[Job("expand", d)] > 0 => gl[Job("expand", d)] > 0
  <2> SUFFICES ASSUME NEW d \in DNs, fl[Job("expand", d)] > 0 PROVE gl[Job("expand", d)] > 0
    OBVIOUS
  <2> DEFINE j == Job("expand", d)
  <2>1. j \in Jobs
    BY JobFacts
  <2> HIDE DEF j
  <2>2. fl[j] \in Nat /\ gl[j] \in Nat /\ gl[j] >= fl[j]
    BY <2>1 DEF Grows
  <2>3. fl[j] > 0
    BY DEF j
  <2>4. gl[j] > 0
    BY <2>2, <2>3
  <2> QED
    BY <2>4 DEF j
<1> QED
  BY <1>1, <1>2 DEF Woken

LEMMA OpenKeeps == ASSUME NEW n \in DOMAIN tree, BrowserInv, Open(n) PROVE BrowserInv'
<1> DEFINE list == ~tree[n].loaded /\ ~tree[n].loading /\ ~tree[n].leaf
           a    == tree[n].loading \/ list
           b    == tree[n].expanded \/ tree[n].loaded
           js   == {Job("read", n[2])} \cup IF list THEN {Job("expand", n[2])} ELSE {}
<1>0. /\ TreeOf(roots, tree) /\ inflight \in [Jobs -> Nat] /\ keys \in 0 .. MaxKeys
      /\ pending \in DNs \cup {<<>>} /\ entry \in DNs \cup {<<>>} /\ n[2] \in DNs
  BY NodeFacts DEF BrowserInv, OtherTypes
<1>1. /\ tree' = [tree EXCEPT ![n].loading = a, ![n].expanded = b]
      /\ inflight' = Asking(inflight, js)
  BY DEF Open
<1>2. a \in BOOLEAN /\ b \in BOOLEAN /\ (a => tree[n].loading \/ list)
  BY Zenon
<1>3. list => Job("expand", n[2]) \in js
  OBVIOUS
<1>4. Job("read", n[2]) \in js
  OBVIOUS
<1> HIDE DEF a, b, list, js
<1>5. DOMAIN tree' = DOMAIN tree
  BY <1>1
<1>6. tree'[n] = [tree[n] EXCEPT !.loading = a, !.expanded = b]
  BY <1>1
<1>7. \A x \in DOMAIN tree \ {n} : tree'[x] = tree[x]
  BY <1>1
<1>8. \A x \in DOMAIN tree : tree[x] \in Flags
  BY <1>0 DEF TreeOf, Typed
<1>9. tree'[n] \in Flags /\ tree'[n].loaded = tree[n].loaded /\ tree'[n].loading = a
  BY <1>2, <1>6, <1>8 DEF Flags
<1>10. TreeOf(roots, tree')
  <2>1. \A x \in DOMAIN tree : tree'[x] \in Flags /\ (tree[x].loaded => tree'[x].loaded)
    BY <1>7, <1>8, <1>9
  <2> QED
    BY <1>0, <1>5, <2>1, MarksKeep
<1>11. Grows(inflight, inflight') /\ \A j \in Jobs \cap js : inflight'[j] > 0
  BY <1>0, <1>1, AskedFacts
<1>12. LoadingIn(tree, inflight) => LoadingIn(tree', inflight')
  <2>1. LoadingIn(tree, inflight) => LoadingIn(tree, inflight')
    BY <1>0, <1>11, GrowsFacts
  <2>2. list => inflight'[Job("expand", n[2])] > 0
    BY <1>0, <1>3, <1>11, JobFacts
  <2> QED
    BY <1>2, <1>5, <1>7, <1>9, <2>1, <2>2 DEF LoadingIn
<1>13. \A e \in DNs : Woken(tree, inflight, e) => Woken(tree', inflight', e)
  BY <1>5, <1>11, HasMarks
<1>14. ReadIn(inflight')
  BY <1>0, <1>4, <1>11, JobFacts DEF ReadIn
<1>15. loading' \in BOOLEAN
  BY Zenon DEF Open
<1>16. keys' \in 0 .. MaxKeys /\ UNCHANGED <<roots, chain, pending, entry, cut>>
  BY <1>0, KeyFacts DEF Open
<1>17. inflight' \in [Jobs -> Nat]
  BY <1>11 DEF Grows
<1> QED
  BY <1>0, <1>10, <1>12, <1>13, <1>14, <1>15, <1>16, <1>17, TreeStep

LEMMA CollapseKeeps == ASSUME NEW n \in DOMAIN tree, BrowserInv, Collapse(n) PROVE BrowserInv'
<1>0. /\ TreeOf(roots, tree) /\ inflight \in [Jobs -> Nat] /\ keys \in 0 .. MaxKeys
      /\ pending \in DNs \cup {<<>>} /\ entry \in DNs \cup {<<>>}
      /\ loading => ReadIn(inflight)
  BY DEF BrowserInv, OtherTypes, Waits
<1>1. \A x \in DOMAIN tree : tree[x] \in Flags
  BY <1>0 DEF TreeOf, Typed
<1>2. /\ DOMAIN tree' = DOMAIN tree /\ tree'[n] = [tree[n] EXCEPT !.expanded = FALSE]
      /\ \A x \in DOMAIN tree \ {n} : tree'[x] = tree[x]
  BY DEF Collapse
<1>3. tree'[n] \in Flags /\ tree'[n].loaded = tree[n].loaded /\ tree'[n].loading = tree[n].loading
  BY <1>1, <1>2 DEF Flags
<1>4. \A x \in DOMAIN tree : /\ tree'[x] \in Flags /\ (tree[x].loaded => tree'[x].loaded)
                             /\ tree'[x].loading = tree[x].loading
  BY <1>1, <1>2, <1>3
<1>5. TreeOf(roots, tree')
  BY <1>0, <1>2, <1>4, MarksKeep
<1>6. inflight' = inflight /\ Grows(inflight, inflight')
  BY <1>0 DEF Collapse, Grows
<1>7. LoadingIn(tree, inflight) => LoadingIn(tree', inflight')
  BY <1>2, <1>4, <1>6 DEF LoadingIn
<1>8. \A e \in DNs : Woken(tree, inflight, e) => Woken(tree', inflight', e)
  BY <1>2, <1>6, HasMarks
<1>9. keys' \in 0 .. MaxKeys /\ UNCHANGED <<roots, chain, pending, entry, cut>>
  BY <1>0, KeyFacts DEF Collapse
<1>10. loading' = loading /\ loading' \in BOOLEAN
  BY Zenon DEF Collapse, BrowserInv, OtherTypes
<1>11. loading' => ReadIn(inflight')
  BY <1>0, <1>6, <1>10
<1>12. inflight' \in [Jobs -> Nat]
  BY <1>0, <1>6
<1> QED
  BY <1>0, <1>5, <1>7, <1>8, <1>9, <1>10, <1>11, <1>12, TreeStep

LEMMA RefreshKeeps == ASSUME NEW n \in DOMAIN tree, BrowserInv, Refresh(n) PROVE BrowserInv'
<1> DEFINE js == {Job("read", n[2]), Job("expand", n[2])}
<1>0. /\ TreeOf(roots, tree) /\ inflight \in [Jobs -> Nat] /\ keys \in 0 .. MaxKeys
      /\ pending \in DNs \cup {<<>>} /\ entry \in DNs \cup {<<>>} /\ n[2] \in DNs
  BY NodeFacts DEF BrowserInv, OtherTypes
<1>1. tree' = Reset(tree, n) /\ inflight' = Asking(inflight, js)
  BY DEF Refresh
<1>2. Grows(inflight, inflight') /\ \A j \in Jobs \cap js : inflight'[j] > 0
  BY <1>0, <1>1, AskedFacts
<1>3. inflight'[Job("expand", n[2])] > 0 /\ ReadIn(inflight')
  BY <1>0, <1>2, JobFacts DEF ReadIn
<1>4. /\ LoadingIn(tree, inflight) => LoadingIn(tree, inflight')
      /\ \A e : Woken(tree, inflight, e) => Woken(tree, inflight', e)
  BY <1>0, <1>2, GrowsFacts
<1>5. TreeOf(roots, tree')
  BY <1>0, <1>1, ResetFacts
<1>6. /\ LoadingIn(tree, inflight') => LoadingIn(tree', inflight')
      /\ \A e \in DNs : Woken(tree, inflight', e) => Woken(tree', inflight', e)
  BY <1>0, <1>1, <1>3, RefreshFacts
<1>7. loading' \in BOOLEAN
  BY Zenon DEF Refresh
<1>8. keys' \in 0 .. MaxKeys /\ UNCHANGED <<roots, chain, pending, entry, cut>>
  BY <1>0, KeyFacts DEF Refresh
<1>9. inflight' \in [Jobs -> Nat]
  BY <1>2 DEF Grows
<1>10. LoadingIn(tree, inflight) => LoadingIn(tree', inflight')
  BY <1>4, <1>6
<1>11. \A e \in DNs : Woken(tree, inflight, e) => Woken(tree', inflight', e)
  BY <1>4, <1>6
<1> QED
  BY <1>0, <1>3, <1>5, <1>7, <1>8, <1>9, <1>10, <1>11, TreeStep

LEMMA OpDoneKeeps ==
    ASSUME NEW d1, NEW d2, NEW sel \in DNs \cup {<<>>}, NEW read \in DNs \cup {<<>>},
           NEW clear, BrowserInv, OpDone(d1, d2, sel, read, clear)
    PROVE  BrowserInv'
<1> DEFINE t1     == Refreshed(tree, d1)
           t2     == IF d2 = d1 THEN t1 ELSE Refreshed(t1, d2)
           listed == {d \in {d1} : Has(tree, d)} \cup {d \in {d2} : Has(t1, d)}
           js     == {Job("expand", d) : d \in listed} \cup {Job("read", d) : d \in {read} \ {<<>>}}
<1>0. /\ TreeOf(roots, tree) /\ inflight \in [Jobs -> Nat] /\ keys \in 0 .. MaxKeys
      /\ pending \in DNs \cup {<<>>} /\ entry \in DNs \cup {<<>>}
      /\ loading => ReadIn(inflight)
  BY DEF BrowserInv, OtherTypes, Waits
<1>1. tree' = t2 /\ inflight' = Asking(inflight, js)
  BY DEF OpDone
<1>2. Has(tree, d1) => Job("expand", d1) \in js
  OBVIOUS
<1>3. Has(t1, d2) => Job("expand", d2) \in js
  OBVIOUS
<1>4. read # <<>> => Job("read", read) \in js
  OBVIOUS
<1> HIDE DEF js
<1>5. Grows(inflight, inflight') /\ \A j \in Jobs \cap js : inflight'[j] > 0
  BY <1>0, <1>1, AskedFacts
<1>6. /\ LoadingIn(tree, inflight) => LoadingIn(tree, inflight')
      /\ \A e : Woken(tree, inflight, e) => Woken(tree, inflight', e)
      /\ ReadIn(inflight) => ReadIn(inflight')
  BY <1>0, <1>5, GrowsFacts
<1>7. ASSUME NEW t, TreeOf(roots, t), NEW d, Has(t, d) PROVE Job("expand", d) \in Jobs
  <2>1. PICK x \in DOMAIN t : x[2] = d
    BY <1>7, HasNode
  <2> QED
    BY <1>7, <2>1, NodeFacts, JobFacts
<1>8. /\ TreeOf(roots, t1)
      /\ LoadingIn(tree, inflight') => LoadingIn(t1, inflight')
      /\ \A e \in DNs : Woken(tree, inflight', e) => Woken(t1, inflight', e)
  <2>1. Has(tree, d1) => inflight'[Job("expand", d1)] > 0
    BY <1>0, <1>2, <1>5, <1>7
  <2> QED
    BY <1>0, <2>1, RefreshedFacts
<1> HIDE DEF t1
<1>9. /\ TreeOf(roots, t2)
      /\ LoadingIn(t1, inflight') => LoadingIn(t2, inflight')
      /\ \A e \in DNs : Woken(t1, inflight', e) => Woken(t2, inflight', e)
  <2>1. CASE d2 = d1
    BY <1>8, <2>1
  <2>2. CASE d2 # d1
    <3>1. Has(t1, d2) => inflight'[Job("expand", d2)] > 0
      BY <1>3, <1>5, <1>7, <1>8
    <3>2. t2 = Refreshed(t1, d2)
      BY <2>2
    <3> HIDE DEF t2
    <3> QED
      BY <1>8, <3>1, <3>2, RefreshedFacts
  <2> QED
    BY <2>1, <2>2
<1> HIDE DEF t2
<1>10. LoadingIn(tree, inflight) => LoadingIn(tree', inflight')
  BY <1>1, <1>6, <1>8, <1>9
<1>11. \A e \in DNs : Woken(tree, inflight, e) => Woken(tree', inflight', e)
  BY <1>1, <1>6, <1>8, <1>9
<1>12. loading' = (loading \/ read # <<>>) /\ loading' \in BOOLEAN
  BY Zenon DEF OpDone
<1>13. loading' => ReadIn(inflight')
  <2>1. ASSUME read # <<>> PROVE ReadIn(inflight')
    BY <1>4, <1>5, <2>1, JobFacts DEF ReadIn
  <2> QED
    BY <1>0, <1>6, <1>12, <2>1
<1>14. keys' \in 0 .. MaxKeys /\ UNCHANGED <<roots, chain, cut>>
  BY <1>0, KeyFacts DEF OpDone
<1>15. pending' \in DNs \cup {<<>>} /\ entry' \in DNs \cup {<<>>}
  BY <1>0 DEF OpDone
<1>16. inflight' \in [Jobs -> Nat]
  BY <1>5 DEF Grows
<1>17. TreeOf(roots, tree')
  BY <1>1, <1>9
<1> QED
  BY <1>10, <1>11, <1>12, <1>13, <1>14, <1>15, <1>16, <1>17, TreeStep

LEMMA ModificationKeeps ==
    ASSUME NEW d \in DNs, BrowserInv,
           \/ Modified(d) \/ Added(d) \/ Deleted(d)
           \/ \E e \in DNs : Moved(d, e)
    PROVE  BrowserInv'
<1>1. CASE Modified(d)
  BY <1>1, OpDoneKeeps DEF Modified
<1>2. CASE Added(d)
  BY <1>2, OpDoneKeeps DEF Added
<1>3. CASE Deleted(d)
  BY <1>3, ParentName, OpDoneKeeps DEF Deleted
<1>4. ASSUME NEW e \in DNs, Moved(d, e) PROVE BrowserInv'
  BY <1>4, OpDoneKeeps DEF Moved
<1> QED
  BY <1>1, <1>2, <1>3, <1>4

LEMMA ConnectedKeeps == BrowserInv /\ Connected => BrowserInv'
<1> SUFFICES ASSUME BrowserInv, Connected PROVE BrowserInv'
  OBVIOUS
<1>1. roots' = <<>> /\ tree' = Forest(<<>>) /\ <<>> \in Seq(DNs)
  BY DEF Connected
<1>2. TreeOf(roots', tree') /\ LoadingIn(tree', inflight')
  BY <1>1, ForestFacts
<1>3. inflight \in [Jobs -> Nat] /\ keys \in 0 .. MaxKeys
  BY DEF BrowserInv, OtherTypes
<1>4. inflight' \in [Jobs -> Nat]
  BY <1>3, AskingFacts DEF Connected
<1>5. loading' \in BOOLEAN /\ cut' \in BOOLEAN /\ ~loading'
  BY Zenon DEF Connected
<1>6. /\ keys' \in 0 .. MaxKeys /\ chain' = <<>> /\ chain' \in Seq(DNs)
      /\ pending' \in DNs \cup {<<>>} /\ entry' \in DNs \cup {<<>>}
  BY <1>3, KeyFacts DEF Connected
<1>7. OtherTypes'
  BY <1>4, <1>5, <1>6 DEF OtherTypes, Jobs
<1>8. Waits'
  <2> USE DEF Apart, LoadingIn, ReadIn, Woken, Waits, Prefix, Job, Has, Slots
  <2> QED
    BY <1>2, <1>5, <1>6
<1>9. TreeOf(roots, tree)'
  BY <1>2 DEF TreeOf, Typed, Shaped, Prefix, Parent, Flags
<1> QED
  BY <1>7, <1>8, <1>9 DEF BrowserInv

-----------------------------------------------------------------------------
(* The answers.                                                            *)

LEMMA RootsLoadedKeeps ==
    ASSUME NEW j \in Jobs, NEW rs \in Contexts, BrowserInv, RootsLoaded(j, rs) PROVE BrowserInv'
<1>1. rs \in Seq(DNs) /\ roots' = rs /\ tree' = Forest(rs)
  BY ContextsAssumption DEF RootsLoaded
<1>2. TreeOf(roots', tree') /\ LoadingIn(tree', inflight')
  BY <1>1, ForestFacts
<1>3. inflight \in [Jobs -> Nat] /\ inflight[j] > 0 /\ inflight' = Answered(j) /\ j.kind = "roots"
  BY DEF BrowserInv, OtherTypes, RootsLoaded
<1>4. inflight' \in [Jobs -> Nat] /\ \A i \in Jobs \ {j} : inflight'[i] = inflight[i]
  BY <1>3, AnsweredFacts
<1>5. ReadIn(inflight) => ReadIn(inflight')
  <2>1. \A d \in DNs : Job("read", d) \in Jobs \ {j}
    BY <1>3, JobFacts DEF Job
  <2> QED
    BY <1>4, <2>1 DEF ReadIn
<1>6. loading' = loading /\ loading' \in BOOLEAN /\ cut' \in BOOLEAN
  BY Zenon DEF RootsLoaded, BrowserInv, OtherTypes
<1>7. cut' \/ chain' = <<>>
  BY DEF RootsLoaded
<1>8. loading' => ReadIn(inflight')
  BY <1>5, <1>6 DEF BrowserInv, Waits
<1>9. Waits'
  <2> USE DEF Apart, LoadingIn, ReadIn, Woken, Waits, Prefix, Job, Has, Slots
  <2> QED
    BY <1>2, <1>7, <1>8
<1>10. OtherTypes'
  BY <1>4, <1>6 DEF RootsLoaded, BrowserInv, OtherTypes, Jobs
<1>11. TreeOf(roots, tree)'
  BY <1>2 DEF TreeOf, Typed, Shaped, Prefix, Parent, Flags
<1> QED
  BY <1>9, <1>10, <1>11 DEF BrowserInv

LEMMA ReadAnswered ==
    ASSUME NEW j \in Jobs, j.kind = "read", BrowserInv, inflight[j] > 0,
           UNCHANGED <<roots, tree, chain, pending, keys, cut>>,
           loading' = FALSE, inflight' = Answered(j), entry' \in DNs \cup {<<>>}
    PROVE  BrowserInv'
<1>0. TreeOf(roots, tree) /\ inflight \in [Jobs -> Nat]
  BY DEF BrowserInv, OtherTypes
<1>1. inflight' \in [Jobs -> Nat] /\ \A i \in Jobs \ {j} : inflight'[i] = inflight[i]
  BY <1>0, AnsweredFacts
<1>2. \A d \in DNs : inflight'[Job("expand", d)] = inflight[Job("expand", d)]
  <2>1. \A d \in DNs : Job("expand", d) \in Jobs \ {j}
    BY JobFacts DEF Job
  <2> QED
    BY <1>1, <2>1
<1>3. LoadingIn(tree, inflight) => LoadingIn(tree', inflight')
  <2>1. \A n \in DOMAIN tree : n[2] \in DNs
    BY <1>0, NodeFacts
  <2> QED
    BY <1>2, <2>1 DEF LoadingIn
<1>4. \A e \in DNs : Woken(tree, inflight, e) => Woken(tree', inflight', e)
  BY <1>2 DEF Woken
<1>5. loading' \in BOOLEAN /\ ~loading'
  BY Zenon
<1>6. TreeOf(roots, tree')
  BY <1>0
<1>7. keys' \in 0 .. MaxKeys /\ pending' \in DNs \cup {<<>>}
  BY DEF BrowserInv, OtherTypes
<1> QED
  BY <1>1, <1>3, <1>4, <1>5, <1>6, <1>7, TreeStep

\* What an answer about children leaves: requests of entries, and the requests
\* of children of other nodes.
LEMMA ExpandAnswered ==
    ASSUME BrowserInv, NEW j \in Jobs, inflight[j] > 0, j.kind # "read"
    PROVE  /\ Answered(j) \in [Jobs -> Nat]
           /\ ReadIn(inflight) => ReadIn(Answered(j))
           /\ \A d \in DNs : Job("expand", d) # j =>
                Answered(j)[Job("expand", d)] = inflight[Job("expand", d)]
<1>1. /\ Answered(j) \in [Jobs -> Nat]
      /\ \A i \in Jobs \ {j} : Answered(j)[i] = inflight[i]
  BY AnsweredFacts DEF BrowserInv, OtherTypes
<1>2. \A d \in DNs : Job("read", d) \in Jobs \ {j} /\ Job("expand", d) \in Jobs
  BY JobFacts DEF Job
<1> QED
  BY <1>1, <1>2 DEF ReadIn

LEMMA AnswerDroppedKeeps ==
    ASSUME NEW j \in Jobs, BrowserInv, AnswerDropped(j) PROVE BrowserInv'
<1>0. /\ TreeOf(roots, tree) /\ loading \in BOOLEAN /\ (loading => ReadIn(inflight))
      /\ pending \in DNs \cup {<<>>} /\ entry \in DNs \cup {<<>>} /\ keys \in 0 .. MaxKeys
  BY DEF BrowserInv, OtherTypes, Waits
<1>1. /\ inflight' = Answered(j) /\ inflight' \in [Jobs -> Nat]
      /\ ReadIn(inflight) => ReadIn(inflight')
      /\ \A d \in DNs : Job("expand", d) # j =>
           inflight'[Job("expand", d)] = inflight[Job("expand", d)]
  BY ExpandAnswered DEF AnswerDropped
<1>2. \A d : Has(tree, d) => Job("expand", d) # j
  BY DEF AnswerDropped, Job
<1>3. UNCHANGED <<roots, tree, chain, pending, entry, loading, keys, cut>>
  BY DEF AnswerDropped, shown
<1>4. LoadingIn(tree, inflight) => LoadingIn(tree', inflight')
  <2>1. \A n \in DOMAIN tree : n[2] \in DNs /\ Has(tree, n[2])
    BY <1>0, NodeFacts, HasNode
  <2> QED
    BY <1>1, <1>2, <1>3, <2>1 DEF LoadingIn
<1>5. \A e \in DNs : Woken(tree, inflight, e) => Woken(tree', inflight', e)
  BY <1>1, <1>2, <1>3 DEF Woken
<1>6. loading' = loading /\ loading' \in BOOLEAN
  BY <1>0, <1>3, Zenon
<1>7. loading' => ReadIn(inflight')
  BY <1>0, <1>1, <1>6
<1>8. TreeOf(roots, tree')
  BY <1>0, <1>3
<1> QED
  BY <1>0, <1>1, <1>3, <1>4, <1>5, <1>6, <1>7, <1>8, TreeStep

\* With roots apart, the only node an answer is about loses its mark.
LEMMA MarkTaken ==
    ASSUME NEW j \in Jobs, BrowserInv, inflight[j] > 0, j.kind = "expand",
           NEW n \in DOMAIN tree, n[2] = j.dn, Apart(roots), NEW u,
           \A x \in DOMAIN u : u[x].loading => x # n /\ x \in DOMAIN tree /\ tree[x].loading
    PROVE  LoadingIn(u, Answered(j))
<1> SUFFICES ASSUME NEW x \in DOMAIN u, u[x].loading
             PROVE  Answered(j)[Job("expand", x[2])] > 0
  BY DEF LoadingIn
<1>1. x # n /\ x \in DOMAIN tree /\ tree[x].loading /\ TreeOf(roots, tree)
  BY DEF BrowserInv
<1>2. x[2] # n[2] /\ x[2] \in DNs
  BY <1>1, OneNode, NodeFacts
<1>3. Job("expand", x[2]) # j
  BY <1>2 DEF Job
<1>4. inflight[Job("expand", x[2])] > 0
  BY <1>1 DEF BrowserInv, Waits, LoadingIn
<1>5. Answered(j)[Job("expand", x[2])] = inflight[Job("expand", x[2])]
  BY <1>2, <1>3, ExpandAnswered
<1> QED
  BY <1>4, <1>5

LEMMA ExpandFailedKeeps == ASSUME NEW j \in Jobs, BrowserInv, ExpandFailed(j) PROVE BrowserInv'
<1> DEFINE n == Find(tree, j.dn)
<1>0. /\ TreeOf(roots, tree) /\ loading \in BOOLEAN /\ (loading => ReadIn(inflight))
      /\ pending \in DNs \cup {<<>>} /\ entry \in DNs \cup {<<>>} /\ keys \in 0 .. MaxKeys
  BY DEF BrowserInv, OtherTypes, Waits
<1>1. n \in DOMAIN tree /\ n[2] = j.dn
  BY <1>0, FindFacts DEF ExpandFailed
<1>2. /\ inflight[j] > 0 /\ j.kind = "expand" /\ tree' = [tree EXCEPT ![n].loading = FALSE]
      /\ chain' = <<>> /\ inflight' = Answered(j)
  BY DEF ExpandFailed
<1> HIDE DEF n
<1>3. inflight' \in [Jobs -> Nat] /\ (ReadIn(inflight) => ReadIn(inflight'))
  BY <1>2, ExpandAnswered
<1>4. /\ DOMAIN tree' = DOMAIN tree /\ tree'[n] = [tree[n] EXCEPT !.loading = FALSE]
      /\ \A x \in DOMAIN tree \ {n} : tree'[x] = tree[x]
  <2>1. tree' = [tree EXCEPT ![n].loading = FALSE]
    BY <1>2
  <2> QED
    BY <1>1, <2>1
<1>5. \A x \in DOMAIN tree : tree[x] \in Flags
  BY <1>0 DEF TreeOf, Typed
<1>6. tree'[n] \in Flags /\ tree'[n].loaded = tree[n].loaded /\ ~tree'[n].loading
  BY <1>1, <1>4, <1>5 DEF Flags
<1>7. TreeOf(roots, tree')
  <2>1. \A x \in DOMAIN tree : tree'[x] \in Flags /\ (tree[x].loaded => tree'[x].loaded)
    BY <1>4, <1>5, <1>6
  <2> QED
    BY <1>0, <1>4, <2>1, MarksKeep
<1>8. Apart(roots) => LoadingIn(tree', inflight')
  BY <1>1, <1>2, <1>4, <1>6, MarkTaken
<1>9. loading' = loading /\ loading' \in BOOLEAN /\ cut' = cut /\ cut' \in BOOLEAN
  BY Zenon DEF ExpandFailed, BrowserInv, OtherTypes
<1>10. UNCHANGED <<roots, entry, keys, pending>> /\ chain' \in Seq(DNs)
  BY <1>2 DEF ExpandFailed
<1>11. OtherTypes'
  BY <1>0, <1>3, <1>9, <1>10 DEF OtherTypes, Jobs
<1>12. (Apart(roots') => LoadingIn(tree', inflight')) /\ (loading' => ReadIn(inflight'))
  BY <1>0, <1>3, <1>8, <1>9, <1>10
<1>13. Waits'
  <2> USE DEF Apart, LoadingIn, ReadIn, Woken, Waits, Prefix, Job, Has, Slots
  <2> QED
    BY <1>2, <1>12
<1>14. TreeOf(roots, tree)'
  BY <1>7, <1>10 DEF TreeOf, Typed, Shaped, Prefix, Parent, Flags
<1> QED
  BY <1>11, <1>13, <1>14 DEF BrowserInv

LEMMA ChildrenLoadedKeeps ==
    ASSUME NEW j \in Jobs, NEW kids \in SUBSET Kids(j.dn), NEW leaves \in SUBSET kids,
           BrowserInv, ChildrenLoaded(j, kids, leaves)
    PROVE  BrowserInv'
<1> DEFINE n == Find(tree, j.dn)
           t == Filled(tree, n, kids, leaves)
<1>0. /\ TreeOf(roots, tree) /\ loading \in BOOLEAN /\ (loading => ReadIn(inflight))
      /\ pending \in DNs \cup {<<>>} /\ entry \in DNs \cup {<<>>} /\ keys \in 0 .. MaxKeys
      /\ chain \in Seq(DNs)
  BY DEF BrowserInv, OtherTypes, Waits
<1>1. n \in DOMAIN tree /\ n[2] = j.dn
  BY <1>0, FindFacts DEF ChildrenLoaded
<1>2. /\ inflight[j] > 0 /\ j.kind = "expand"
      /\ pending' = IF pending # <<>> /\ Has(t, pending) THEN <<>> ELSE pending
      /\ \/ chain # <<>> /\ AdvanceGoto(t, chain, Answered(j), loading)
         \/ chain = <<>> /\ tree' = t /\ inflight' = Answered(j) /\ UNCHANGED <<chain, loading>>
      /\ UNCHANGED <<roots, entry, keys, cut>>
  BY DEF ChildrenLoaded
<1> HIDE DEF n
<1>3. /\ TreeOf(roots, t)
      /\ \A x \in DOMAIN t : t[x].loading => x # n /\ x \in DOMAIN tree /\ tree[x].loading
  BY <1>0, <1>1, FilledFacts
<1> HIDE DEF t
<1>4. Answered(j) \in [Jobs -> Nat] /\ (ReadIn(inflight) => ReadIn(Answered(j)))
  BY <1>2, ExpandAnswered
<1>5. Apart(roots) => LoadingIn(t, Answered(j))
  BY <1>1, <1>2, <1>3, MarkTaken
<1>6. /\ TreeOf(roots', tree') /\ Waits'
      /\ chain' \in Seq(DNs) /\ inflight' \in [Jobs -> Nat] /\ loading' \in BOOLEAN
  <2>1. CASE chain # <<>>
    <3>1. TreeOf(roots', t) /\ (Apart(roots') => LoadingIn(t, Answered(j)))
      BY <1>2, <1>3, <1>5
    <3>2. AdvanceGoto(t, chain, Answered(j), loading)
      BY <1>2, <2>1
    <3>3. loading => ReadIn(Answered(j))
      BY <1>0, <1>4
    <3> QED
      BY <1>0, <1>4, <2>1, <3>1, <3>2, <3>3, AdvanceKeeps
  <2>2. CASE chain = <<>>
    <3>1. tree' = t /\ inflight' = Answered(j) /\ chain' = <<>> /\ chain' \in Seq(DNs)
      BY <1>2, <2>2
    <3>2. loading' = loading /\ loading' \in BOOLEAN
      BY <1>0, <1>2, <2>2, Zenon
    <3>3. (Apart(roots') => LoadingIn(tree', inflight')) /\ (loading' => ReadIn(inflight'))
      BY <1>0, <1>2, <1>4, <1>5, <3>1, <3>2
    <3>4. Waits'
      <4> USE DEF Apart, LoadingIn, ReadIn, Woken, Waits, Prefix, Job, Has, Slots
      <4> QED
        BY <3>1, <3>3
    <3> QED
      BY <1>2, <1>3, <1>4, <3>1, <3>2, <3>4
  <2> QED
    BY <2>1, <2>2
<1>7. cut' \in BOOLEAN
  BY <1>2, Zenon DEF BrowserInv, OtherTypes
<1>8. keys' \in 0 .. MaxKeys /\ pending' \in DNs \cup {<<>>} /\ entry' \in DNs \cup {<<>>}
  BY <1>0, <1>2
<1>9. OtherTypes'
  BY <1>6, <1>7, <1>8 DEF OtherTypes, Jobs
<1>10. TreeOf(roots, tree)'
  BY <1>6 DEF TreeOf, Typed, Shaped, Prefix, Parent, Flags
<1> QED
  BY <1>6, <1>9, <1>10 DEF BrowserInv

LEMMA AnswerKeeps == ASSUME NEW j \in Jobs, BrowserInv, Answer(j) PROVE BrowserInv'
<1>1. ASSUME NEW rs \in Contexts, RootsLoaded(j, rs) PROVE BrowserInv'
  BY <1>1, RootsLoadedKeeps
<1>2. ASSUME NEW kids \in SUBSET Kids(j.dn), NEW leaves \in SUBSET kids,
             ChildrenLoaded(j, kids, leaves)
      PROVE  BrowserInv'
  BY <1>2, ChildrenLoadedKeeps
<1>3. CASE ExpandFailed(j) \/ AnswerDropped(j)
  BY <1>3, ExpandFailedKeeps, AnswerDroppedKeeps
<1>4. CASE EntryLoaded(j)
  <2>1. j.dn \in DNs
    BY <1>4, JobFacts DEF EntryLoaded
  <2> QED
    BY <1>4, <2>1, ReadAnswered DEF EntryLoaded
<1>5. CASE ReadFailed(j)
  <2>1. entry \in DNs \cup {<<>>}
    BY DEF BrowserInv, OtherTypes
  <2> QED
    BY <1>5, <2>1, ReadAnswered DEF ReadFailed
<1> QED
  BY <1>1, <1>2, <1>3, <1>4, <1>5 DEF Answer

LEMMA BrowserStep == BrowserInv /\ [Next]_vars => BrowserInv'
<1> SUFFICES ASSUME BrowserInv, [Next]_vars PROVE BrowserInv'
  OBVIOUS
<1>1. CASE UNCHANGED vars
  <2>1. UNCHANGED <<roots, tree, chain, pending, entry, loading, inflight, keys, cut>>
    BY <1>1 DEF vars
  <2>2. /\ keys' \in 0 .. MaxKeys /\ pending' \in DNs \cup {<<>>} /\ entry' \in DNs \cup {<<>>}
        /\ inflight' \in [Jobs -> Nat] /\ TreeOf(roots, tree')
    BY <2>1 DEF BrowserInv, OtherTypes
  <2>3. loading' \in BOOLEAN
    BY <2>1, Zenon DEF BrowserInv, OtherTypes
  <2>4. loading' => ReadIn(inflight')
    BY <2>1 DEF BrowserInv, Waits
  <2>5. LoadingIn(tree, inflight) => LoadingIn(tree', inflight')
    BY <2>1
  <2>6. \A e \in DNs : Woken(tree, inflight, e) => Woken(tree', inflight', e)
    BY <2>1
  <2> QED
    BY <2>1, <2>2, <2>3, <2>4, <2>5, <2>6, TreeStep
<1>2. ASSUME NEW n \in Visible(tree), Open(n) \/ Collapse(n) \/ Refresh(n) PROVE BrowserInv'
  <2>1. n \in DOMAIN tree
    BY DEF Visible
  <2> QED
    BY <1>2, <2>1, OpenKeeps, CollapseKeeps, RefreshKeeps
<1>3. ASSUME NEW d \in DNs, StartGoto(d) PROVE BrowserInv'
  BY <1>3, StartGotoKeeps
<1>4. ASSUME NEW d \in DNs, Modified(d) \/ Added(d) \/ Deleted(d) PROVE BrowserInv'
  BY <1>4, ModificationKeeps
<1>5. ASSUME NEW d \in DNs, NEW e \in DNs, Moved(d, e) PROVE BrowserInv'
  BY <1>5, ModificationKeeps
<1>6. CASE Connected
  BY <1>6, ConnectedKeeps
<1>7. ASSUME NEW j \in Jobs, Answer(j) PROVE BrowserInv'
  BY <1>7, AnswerKeeps
<1> QED
  BY <1>1, <1>2, <1>3, <1>4, <1>5, <1>6, <1>7 DEF Next, User

LEMMA BrowserAlways == Spec => []BrowserInv
BY BrowserInit, BrowserStep, PTL DEF Spec

LEMMA BrowserTypes == BrowserInv => TypeOK
<1> SUFFICES ASSUME BrowserInv PROVE TypeOK
  OBVIOUS
<1>1. TreeShape
  BY DEF BrowserInv, TreeOf, Shaped, TreeShape
<1>2. loading \in BOOLEAN /\ cut \in BOOLEAN
  BY Zenon DEF BrowserInv, OtherTypes
<1>3. Types
  BY <1>2 DEF BrowserInv, TreeOf, Typed, OtherTypes, Types
<1> QED
  BY <1>1, <1>3 DEF TypeOK

LEMMA BrowserWaits == BrowserInv => WaitsAwaited
<1> SUFFICES ASSUME BrowserInv PROVE WaitsAwaited
  OBVIOUS
<1>1. RootsApart <=> Apart(roots)
  BY DEF RootsApart, Apart
<1>2. LoadingAwaited
  BY <1>1 DEF BrowserInv, Waits, LoadingIn, ReadIn, LoadingAwaited, Awaited, Reading
<1>3. GotoAwaited
  BY <1>1 DEF BrowserInv, Waits, Woken, GotoAwaited, Awaited
<1> QED
  BY <1>2, <1>3 DEF WaitsAwaited

\* Every variable stays in its domain; the nodes of the tree hang below their
\* root, each next to its parent, which has been listed, whatever is listed anew,
\* added, moved or answered late (browser.go:309-350, 560-640).
THEOREM TreesTyped == Spec => []TypeOK
BY BrowserAlways, BrowserTypes, PTL

\* Whatever the keys, the modifications, the reconnects and the order of the
\* answers: a mark of loading has a request that will take it away, and a goto
\* that waits one that will wake it, unless roots overlap or were replaced.
THEOREM WaitsAnswered == Spec => []WaitsAwaited
BY BrowserAlways, BrowserWaits, PTL
=============================================================================
