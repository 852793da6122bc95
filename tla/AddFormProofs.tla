---------------------------- MODULE AddFormProofs ----------------------------
(***************************************************************************)
(* Theorems about AddForm for every server's classes, every list of classes*)
(* typed or picked, and every graph of superclasses.                       *)
(***************************************************************************)
EXTENDS AddForm, ListLemmas, FiniteSetTheorems

-----------------------------------------------------------------------------
(* Lists.                                                                  *)

\* Only is the loop that leaves what is in K.
LEMMA OnlyLoops ==
    ASSUME NEW S, NEW s \in Seq(S), NEW K
    PROVE  \E f \in [0 .. Len(s) -> Seq(S)] : Loops(f, s, K) /\ Only(s, K) = f[Len(s)]
<1> DEFINE Step(f, i) == IF i = 0 THEN <<>>
                         ELSE IF s[i] \in K THEN Append(f[i - 1], s[i]) ELSE f[i - 1]
           Solves(h) == h = [i \in 0 .. Len(s) |-> Step(h, i)]
           From == CHOOSE h : Solves(h)
<1>1. Only(s, K) = From[Len(s)]
  BY DEF Only
<1>2. PICK f \in [0 .. Len(s) -> Seq(S)] : Loops(f, s, K)
  BY LoopExists
<1>3. Len(s) \in Nat
  OBVIOUS
<1>4. ASSUME NEW i \in 0 .. Len(s) PROVE f[i] = Step(f, i)
  <2>1. CASE i = 0
    BY <1>2, <2>1 DEF Loops
  <2>2. CASE i # 0
    <3>1. i \in 1 .. Len(s)
      BY <1>3, <2>2
    <3> QED
      BY <1>2, <2>2, <3>1 DEF Loops
  <2> QED
    BY <2>1, <2>2
<1>5. Solves(f)
  BY <1>4
<1>6. Solves(From)
  BY <1>5
<1>7. \A i \in 0 .. Len(s) : From[i] = Step(From, i)
  <2> HIDE DEF From, Step
  <2> QED
    BY <1>6
<1>8. Loops(From, s, K)
  <2> HIDE DEF From
  <2> QED
    BY <1>3, <1>7 DEF Loops
<1>9. Only(s, K) = f[Len(s)]
  <2> HIDE DEF From
  <2>1. From[Len(s)] = f[Len(s)]
    BY <1>2, <1>3, <1>8, LoopOnce
  <2> QED
    BY <1>1, <2>1
<1> QED
  BY <1>2, <1>9

\* No two places of a sequence hold the same but for case.
Different(s) == \A i, j \in DOMAIN s : Lower[s[i]] = Lower[s[j]] => i = j

LEMMA OnlyFacts ==
    ASSUME NEW s, Listed(s), NEW K
    PROVE  /\ Only(s, K) \in Seq(ToSet(s)) /\ ToSet(Only(s, K)) = ToSet(s) \cap K
           /\ Different(s) => Different(Only(s, K))
<1>1. s \in Seq(ToSet(s))
  BY DEF Listed
<1>2. PICK f \in [0 .. Len(s) -> Seq(ToSet(s))] : Loops(f, s, K) /\ Only(s, K) = f[Len(s)]
  BY <1>1, OnlyLoops
<1>3. PICK t : t = Only(s, K)
  OBVIOUS
<1>4. /\ t \in Seq(ToSet(s))
      /\ \A j \in DOMAIN t : \E x \in DOMAIN s : s[x] \in K /\ t[j] = s[x]
      /\ \A j, k \in DOMAIN t : j # k => \E x, y \in DOMAIN s : x # y /\ t[j] = s[x] /\ t[k] = s[y]
  BY <1>1, <1>2, <1>3, LoopFacts
<1>5. \A x \in DOMAIN s : s[x] \in K => s[x] \in ToSet(t)
  BY <1>1, <1>2, <1>3, LoopCovers
<1>6. ToSet(t) = ToSet(s) \cap K
  <2>1. ToSet(t) \subseteq ToSet(s) \cap K
    BY <1>4 DEF ToSet
  <2>2. ToSet(s) \cap K \subseteq ToSet(t)
    BY <1>5 DEF ToSet
  <2> QED
    BY <2>1, <2>2
<1>7. ASSUME Different(s) PROVE Different(t)
  BY <1>4, <1>7 DEF Different
<1> QED
  BY <1>3, <1>4, <1>6, <1>7

LEMMA OnlyBegins ==
    ASSUME NEW S, NEW s \in Seq(S), NEW t \in Seq(S), Begins(s, t), NEW K, NEW L,
           \A i \in 1 .. Len(s) : s[i] \in K <=> s[i] \in L
    PROVE  Begins(Only(s, K), Only(t, L))
<1>1. PICK f \in [0 .. Len(s) -> Seq(S)] : Loops(f, s, K) /\ Only(s, K) = f[Len(s)]
  BY OnlyLoops
<1>2. PICK h \in [0 .. Len(t) -> Seq(S)] : Loops(h, t, L) /\ Only(t, L) = h[Len(t)]
  BY OnlyLoops
<1>3. Begins(f[Len(s)], h[Len(t)])
  BY <1>1, <1>2, LoopsBegin
<1> QED
  BY <1>1, <1>2, <1>3

\* Once is a loop as well: f[i] is what it has after i names.
Noted(out, a) == IF \E b \in ToSet(out) : Lower[b] = Lower[a] THEN out ELSE Append(out, a)
Notes(f, s) == f[0] = <<>> /\ \A i \in 1 .. Len(s) : f[i] = Noted(f[i - 1], s[i])

LEMMA NotedFacts ==
    ASSUME NEW S, NEW out \in Seq(S), NEW a \in S
    PROVE  /\ Noted(out, a) \in Seq(S) /\ Begins(out, Noted(out, a))
           /\ ToSet(out) \subseteq ToSet(Noted(out, a))
           /\ \E b \in ToSet(Noted(out, a)) : Lower[b] = Lower[a]
           /\ Different(out) => Different(Noted(out, a))
<1>1. CASE \E b \in ToSet(out) : Lower[b] = Lower[a]
  <2>1. Noted(out, a) = out
    BY <1>1 DEF Noted
  <2>2. Begins(out, out)
    BY BeginsAppend
  <2> QED
    BY <1>1, <2>1, <2>2
<1>2. CASE ~\E b \in ToSet(out) : Lower[b] = Lower[a]
  <2>1. PICK t : t = Append(out, a)
    OBVIOUS
  <2>2. Noted(out, a) = t
    BY <1>2, <2>1 DEF Noted
  <2>3. /\ t \in Seq(S) /\ Len(out) \in Nat /\ DOMAIN out = 1 .. Len(out)
        /\ DOMAIN t = 1 .. Len(out) + 1 /\ t[Len(out) + 1] = a
        /\ \A i \in 1 .. Len(out) : t[i] = out[i]
    BY <2>1
  <2>4. Begins(out, t)
    BY <2>1, BeginsAppend
  <2>5. \A i \in DOMAIN out : i \in DOMAIN t /\ t[i] = out[i]
    BY <2>3
  <2>6. ToSet(out) \subseteq ToSet(t)
    BY <2>5 DEF ToSet
  <2>7. a \in ToSet(t)
    BY <2>3 DEF ToSet
  <2>8. ASSUME Different(out) PROVE Different(t)
    <3>1. \A i \in DOMAIN out : Lower[out[i]] # Lower[a]
      BY <1>2 DEF ToSet
    <3> SUFFICES ASSUME NEW i \in DOMAIN t, NEW j \in DOMAIN t, Lower[t[i]] = Lower[t[j]] PROVE i = j
      BY DEF Different
    <3>2. (i \in DOMAIN out \/ i = Len(out) + 1) /\ (j \in DOMAIN out \/ j = Len(out) + 1)
      BY <2>3
    <3>3. CASE i \in DOMAIN out /\ j \in DOMAIN out
      BY <2>5, <2>8, <3>3 DEF Different
    <3>4. CASE i = Len(out) + 1 /\ j \in DOMAIN out
      BY <2>3, <2>5, <3>1, <3>4
    <3>5. CASE j = Len(out) + 1 /\ i \in DOMAIN out
      BY <2>3, <2>5, <3>1, <3>5
    <3> QED
      BY <3>2, <3>3, <3>4, <3>5
  <2> QED
    BY <2>2, <2>3, <2>4, <2>6, <2>7, <2>8
<1> QED
  BY <1>1, <1>2

LEMMA NotesExist ==
    ASSUME NEW S, NEW s \in Seq(S)
    PROVE  \E f \in [0 .. Len(s) -> Seq(S)] : Notes(f, s)
<1> DEFINE g == [i \in Nat |-> [q \in Seq(S) |->
                  IF i + 1 \in 1 .. Len(s) THEN Noted(q, s[i + 1]) ELSE q]]
<1>1. g \in [Nat -> [Seq(S) -> Seq(S)]]
  <2>1. ASSUME NEW i \in Nat, NEW q \in Seq(S), i + 1 \in 1 .. Len(s)
        PROVE  Noted(q, s[i + 1]) \in Seq(S)
    <3>1. s[i + 1] \in S
      BY <2>1, ElementOfSeq
    <3> QED
      BY <3>1, NotedFacts
  <2> QED
    BY <2>1
<1>2. <<>> \in Seq(S) /\ Len(s) \in Nat
  OBVIOUS
<1>3. PICK f : RecursiveTo(f, Seq(S), <<>>, g, Len(s))
  <2> HIDE DEF g
  <2> QED
    BY <1>1, <1>2, RecursiveFunction
<1>4. /\ f \in [0 .. Len(s) -> Seq(S)]
      /\ f[0] = <<>> /\ \A i \in 1 .. Len(s) : f[i] = g[i - 1][f[i - 1]]
  <2> HIDE DEF g
  <2> QED
    BY <1>3 DEF RecursiveTo
<1>5. ASSUME NEW i \in 1 .. Len(s) PROVE f[i] = Noted(f[i - 1], s[i])
  <2>1. i - 1 \in Nat /\ i - 1 \in 0 .. Len(s) /\ (i - 1) + 1 = i
    BY <1>2
  <2>2. f[i - 1] \in Seq(S)
    BY <1>4, <2>1
  <2>3. g[i - 1][f[i - 1]] = IF (i - 1) + 1 \in 1 .. Len(s)
                             THEN Noted(f[i - 1], s[(i - 1) + 1]) ELSE f[i - 1]
    BY <2>1, <2>2
  <2>4. (IF (i - 1) + 1 \in 1 .. Len(s) THEN Noted(f[i - 1], s[(i - 1) + 1]) ELSE f[i - 1])
          = Noted(f[i - 1], s[i])
    BY <2>1
  <2> HIDE DEF g
  <2> QED
    BY <1>4, <2>3, <2>4
<1> QED
  BY <1>4, <1>5 DEF Notes

LEMMA NotesOnce ==
    ASSUME NEW s, NEW t, NEW k, Agree(s, t, k), NEW f, NEW h, Notes(f, s), Notes(h, t)
    PROVE  f[k] = h[k]
<1> DEFINE T == {i \in Nat : i <= k => f[i] = h[i]}
<1>0. k \in Nat /\ Len(s) \in Nat /\ Len(t) \in Nat /\ k <= Len(s) /\ k <= Len(t)
  BY DEF Agree
<1>1. 0 \in T
  BY DEF Notes
<1>2. ASSUME NEW i \in Nat, i \in T PROVE i + 1 \in T
  <2> SUFFICES ASSUME i + 1 <= k PROVE f[i + 1] = h[i + 1]
    OBVIOUS
  <2>1. i + 1 \in 1 .. k /\ i + 1 \in 1 .. Len(s) /\ i + 1 \in 1 .. Len(t)
    BY <1>0
  <2>2. (i + 1) - 1 = i /\ f[i] = h[i]
    BY <1>0, <1>2
  <2>3. f[i + 1] = Noted(f[i], s[i + 1]) /\ h[i + 1] = Noted(h[i], t[i + 1])
    BY <2>1, <2>2 DEF Notes
  <2>4. s[i + 1] = t[i + 1]
    BY <2>1 DEF Agree
  <2> QED
    BY <2>2, <2>3, <2>4
<1>3. \A i \in Nat : i \in T
  <2> HIDE DEF T
  <2> QED
    BY <1>1, <1>2, SetInduction
<1> QED
  BY <1>0, <1>3

LEMMA OnceNotes ==
    ASSUME NEW S, NEW s \in Seq(S)
    PROVE  \E f \in [0 .. Len(s) -> Seq(S)] : Notes(f, s) /\ Once(s) = f[Len(s)]
<1> DEFINE Step(f, i) == IF i = 0 THEN <<>>
                         ELSE LET out == f[i - 1]
                              IN  IF \E b \in ToSet(out) : Lower[b] = Lower[s[i]] THEN out
                                  ELSE Append(out, s[i])
           Solves(h) == h = [i \in 0 .. Len(s) |-> Step(h, i)]
           From == CHOOSE h : Solves(h)
<1>1. Once(s) = From[Len(s)]
  BY DEF Once
<1>2. PICK f \in [0 .. Len(s) -> Seq(S)] : Notes(f, s)
  BY NotesExist
<1>3. Len(s) \in Nat
  OBVIOUS
<1>4. ASSUME NEW i \in 0 .. Len(s) PROVE f[i] = Step(f, i)
  <2>1. CASE i = 0
    BY <1>2, <2>1 DEF Notes
  <2>2. CASE i # 0
    <3>1. i \in 1 .. Len(s)
      BY <1>3, <2>2
    <3>2. f[i] = Noted(f[i - 1], s[i])
      BY <1>2, <3>1 DEF Notes
    <3> QED
      BY <2>2, <3>2 DEF Noted
  <2> QED
    BY <2>1, <2>2
<1>5. Solves(f)
  <2> HIDE DEF Step
  <2> QED
    BY <1>4
<1>6. Solves(From)
  <2> HIDE DEF Solves
  <2> QED
    BY <1>5
<1>7. \A i \in 0 .. Len(s) : From[i] = Step(From, i)
  <2> HIDE DEF From, Step
  <2> QED
    BY <1>6
<1>8. Notes(From, s)
  <2> HIDE DEF From
  <2>1. From[0] = <<>>
    BY <1>3, <1>7
  <2>2. ASSUME NEW i \in 1 .. Len(s) PROVE From[i] = Noted(From[i - 1], s[i])
    <3>1. i \in 0 .. Len(s) /\ i # 0
      BY <1>3
    <3>2. From[i] = Step(From, i)
      BY <1>7, <3>1
    <3> QED
      BY <3>1, <3>2 DEF Noted
  <2> HIDE DEF Step
  <2> QED
    BY <2>1, <2>2 DEF Notes
<1>9. Once(s) = f[Len(s)]
  <2> HIDE DEF From
  <2>1. Agree(s, s, Len(s))
    BY <1>3 DEF Agree
  <2>2. From[Len(s)] = f[Len(s)]
    BY <1>2, <1>8, <2>1, NotesOnce
  <2> QED
    BY <1>1, <2>2
<1> QED
  BY <1>2, <1>9

\* The names are told apart, and none is missing.
LEMMA OnceFacts ==
    ASSUME NEW s, Listed(s)
    PROVE  /\ Once(s) \in Seq(ToSet(s)) /\ Different(Once(s))
           /\ {Lower[a] : a \in ToSet(Once(s))} = {Lower[a] : a \in ToSet(s)}
<1>0. s \in Seq(ToSet(s)) /\ Len(s) \in Nat /\ DOMAIN s = 1 .. Len(s)
  BY DEF Listed
<1>1. PICK f \in [0 .. Len(s) -> Seq(ToSet(s))] : Notes(f, s) /\ Once(s) = f[Len(s)]
  BY <1>0, OnceNotes
<1> DEFINE Met(i) == \A j \in 1 .. i : \E b \in ToSet(f[i]) : Lower[b] = Lower[s[j]]
           T == {i \in Nat : i <= Len(s) => Different(f[i]) /\ Met(i)}
<1>2. 0 \in T
  <2>1. f[0] = <<>>
    BY <1>1 DEF Notes
  <2> QED
    BY <2>1 DEF Different
<1>3. ASSUME NEW i \in Nat, i \in T PROVE i + 1 \in T
  <2> SUFFICES ASSUME i + 1 <= Len(s) PROVE Different(f[i + 1]) /\ Met(i + 1)
    OBVIOUS
  <2>1. i + 1 \in 1 .. Len(s) /\ (i + 1) - 1 = i /\ i \in 0 .. Len(s) /\ i <= Len(s)
    BY <1>0
  <2>2. f[i + 1] = Noted(f[i], s[i + 1])
    BY <1>1, <2>1 DEF Notes
  <2>3. f[i] \in Seq(ToSet(s)) /\ s[i + 1] \in ToSet(s)
    BY <1>0, <2>1, ElementOfSeq
  <2>4. /\ ToSet(f[i]) \subseteq ToSet(f[i + 1])
        /\ \E b \in ToSet(f[i + 1]) : Lower[b] = Lower[s[i + 1]]
        /\ Different(f[i]) => Different(f[i + 1])
    <3>1. PICK q \in Seq(ToSet(s)), a \in ToSet(s) : q = f[i] /\ a = s[i + 1]
      BY <2>3
    <3>2. /\ ToSet(q) \subseteq ToSet(Noted(q, a))
          /\ \E b \in ToSet(Noted(q, a)) : Lower[b] = Lower[a]
          /\ Different(q) => Different(Noted(q, a))
      BY NotedFacts
    <3> QED
      BY <2>2, <3>1, <3>2
  <2>5. Different(f[i]) /\ Met(i)
    BY <1>3, <2>1
  <2>6. ASSUME NEW j \in 1 .. i + 1 PROVE \E b \in ToSet(f[i + 1]) : Lower[b] = Lower[s[j]]
    <3>1. j \in 1 .. i \/ j = i + 1
      OBVIOUS
    <3> QED
      BY <2>4, <2>5, <3>1
  <2> QED
    BY <2>4, <2>5, <2>6
<1>4. \A i \in Nat : i \in T
  <2> HIDE DEF T
  <2> QED
    BY <1>2, <1>3, SetInduction
<1>5. Different(Once(s)) /\ \A j \in DOMAIN s : \E b \in ToSet(Once(s)) : Lower[b] = Lower[s[j]]
  <2>1. Len(s) \in T /\ Len(s) <= Len(s)
    BY <1>0, <1>4
  <2> QED
    BY <1>0, <1>1, <2>1
<1>6. Once(s) \in Seq(ToSet(s))
  <2>1. Len(s) \in 0 .. Len(s)
    BY <1>0
  <2> QED
    BY <1>1, <2>1
<1>7. ToSet(Once(s)) \subseteq ToSet(s)
  BY <1>6 DEF ToSet
<1>8. {Lower[a] : a \in ToSet(Once(s))} \subseteq {Lower[a] : a \in ToSet(s)}
  BY <1>7
<1>9. {Lower[a] : a \in ToSet(s)} \subseteq {Lower[a] : a \in ToSet(Once(s))}
  <2>1. ASSUME NEW a \in ToSet(s) PROVE \E b \in ToSet(Once(s)) : Lower[b] = Lower[a]
    BY <1>5 DEF ToSet
  <2> QED
    BY <2>1
<1> QED
  BY <1>5, <1>6, <1>8, <1>9

LEMMA OnceBegins ==
    ASSUME NEW S, NEW s \in Seq(S), NEW t \in Seq(S), Begins(s, t)
    PROVE  Begins(Once(s), Once(t))
<1>0. /\ Len(s) \in Nat /\ Len(t) \in Nat /\ Len(s) \in 0 .. Len(t) /\ Len(s) \in 0 .. Len(s)
  BY DEF Begins
<1>1. PICK f \in [0 .. Len(s) -> Seq(S)] : Notes(f, s) /\ Once(s) = f[Len(s)]
  BY OnceNotes
<1>2. PICK h \in [0 .. Len(t) -> Seq(S)] : Notes(h, t) /\ Once(t) = h[Len(t)]
  BY OnceNotes
<1>3. f[Len(s)] = h[Len(s)]
  <2>1. Agree(s, t, Len(s))
    BY <1>0 DEF Agree, Begins
  <2> QED
    BY <1>1, <1>2, <2>1, NotesOnce
<1>4. ASSUME NEW i \in 1 .. Len(t) PROVE Begins(h[i - 1], h[i])
  <2>1. i - 1 \in 0 .. Len(t)
    BY <1>0
  <2>2. h[i - 1] \in Seq(S) /\ t[i] \in S
    BY <2>1, ElementOfSeq
  <2>3. h[i] = Noted(h[i - 1], t[i])
    BY <1>2 DEF Notes
  <2>4. PICK q \in Seq(S), a \in S : q = h[i - 1] /\ a = t[i]
    BY <2>2
  <2>5. Begins(q, Noted(q, a))
    BY NotedFacts
  <2> QED
    BY <2>3, <2>4, <2>5
<1>5. Begins(h[Len(s)], h[Len(t)])
  BY <1>0, <1>4, GrowingBegins
<1> QED
  BY <1>1, <1>2, <1>3, <1>5

-----------------------------------------------------------------------------
(* What a schema that was parsed is made of.                               *)

ClassSound(c) == c.oid # "" /\ Listed(c.names) /\ Listed(c.sup) /\ Listed(c.must) /\ Listed(c.may)

SchemaSound(s) ==
    /\ Listed(s.ClassList)
    /\ \A c \in ToSet(s.ClassList) : ClassSound(c) /\ Keys(c) \subseteq DOMAIN s.Classes
    /\ \A k \in DOMAIN s.Classes : s.Classes[k] \in ToSet(s.ClassList)

LEMMA ListedFacts ==
    /\ Listed(<<>>)
    /\ \A x : Listed(<<x>>)
    /\ \A S, s : s \in Seq(S) => Listed(s) /\ ToSet(s) \subseteq S
    /\ \A s : Listed(s) => Len(s) \in Nat /\ DOMAIN s = 1 .. Len(s)
<1>1. ASSUME NEW S, NEW s \in Seq(S) PROVE Listed(s) /\ ToSet(s) \subseteq S
  <2>1. Len(s) \in Nat /\ DOMAIN s = 1 .. Len(s) /\ \A i \in 1 .. Len(s) : s[i] \in S
    BY ElementOfSeq
  <2>2. \A i \in 1 .. Len(s) : s[i] \in ToSet(s)
    BY <2>1 DEF ToSet
  <2>3. s \in Seq(ToSet(s))
    BY <2>2
  <2> QED
    BY <2>1, <2>3 DEF Listed, ToSet
<1>2. <<>> \in Seq({}) /\ \A x : <<x>> \in Seq({x})
  OBVIOUS
<1>3. \A s : Listed(s) => Len(s) \in Nat /\ DOMAIN s = 1 .. Len(s)
  BY DEF Listed
<1> QED
  BY <1>1, <1>2, <1>3

LEMMA ListAtListed ==
    ASSUME NEW S, NEW t \in Seq(S), NEW i
    PROVE  Listed(ListAt(t, i))
<1> DEFINE end == ListEnd(t, i)
           words == {j \in DOMAIN t : i < j /\ j < end /\ t[j].k \in {"w", "q"}}
           at == Only([j \in DOMAIN t |-> j], words)
           list == [j \in DOMAIN at |-> t[at[j]].s]
<1>1. [j \in DOMAIN t |-> j] \in Seq(Nat)
  OBVIOUS
<1>2. at \in Seq(ToSet([j \in DOMAIN t |-> j]))
  BY <1>1, ListedFacts, OnlyFacts
<1>3. Listed(list)
  <2>1. Len(at) \in Nat /\ DOMAIN at = 1 .. Len(at)
    BY <1>2, LenProperties
  <2> HIDE DEF at
  <2>2. list \in Seq({t[at[j]].s : j \in DOMAIN at})
    BY <2>1
  <2> QED
    BY <2>2, ListedFacts
<1>4. Listed(<<Peek(t, i).s>>)
  BY ListedFacts
<1>5. ListAt(t, i) = IF Peek(t, i).k # "(" THEN <<Peek(t, i).s>> ELSE list
  BY DEF ListAt
<1> HIDE DEF list
<1> QED
  BY <1>3, <1>4, <1>5

LEMMA ClausesListed ==
    ASSUME NEW S, NEW t \in Seq(S), NEW grammar
    PROVE  \A kw \in DOMAIN Clauses(grammar, t) : Listed(Clauses(grammar, t)[kw])
<1> DEFINE KeyAt(i) == IF t[i].s \in Kinds THEN "KIND" ELSE t[i].s
           Value(i) ==
             CASE t[i].s \in grammar.lists -> ListAt(t, i + 1)
               [] t[i].s \in grammar.singles -> <<Peek(t, i + 1).s>>
               [] OTHER -> <<t[i].s>>
           at == KeywordsAt(grammar, t)
           clauses == [kw \in {KeyAt(i) : i \in at} |-> Value(Max({i \in at : KeyAt(i) = kw}))]
<1>1. Clauses(grammar, t) = clauses
  BY DEF Clauses
<1>2. ASSUME NEW i PROVE Listed(Value(i))
  <2>1. Listed(ListAt(t, i + 1)) /\ Listed(<<Peek(t, i + 1).s>>) /\ Listed(<<t[i].s>>)
    BY ListAtListed, ListedFacts
  <2>2. \/ Value(i) = ListAt(t, i + 1) \/ Value(i) = <<Peek(t, i + 1).s>> \/ Value(i) = <<t[i].s>>
    OBVIOUS
  <2> HIDE DEF Value
  <2> QED
    BY <2>1, <2>2
<1> HIDE DEF KeyAt, Value, at
<1> QED
  BY <1>1, <1>2

LEMMA ClassOfSound ==
    ASSUME NEW S, NEW t \in Seq(S), HasHeader(t)
    PROVE  ClassSound(ClassOf(t))
<1>1. PICK c : c = Clauses(ClassWords, t)
  OBVIOUS
<1>2. \A kw : Listed(Said(c, kw, <<>>))
  BY <1>1, ClausesListed, ListedFacts DEF Said
<1>3. 2 \in DOMAIN t /\ t[2].s # ""
  BY DEF HasHeader, Peek, Tok
<1>4. PICK d : d = ClassOf(t)
  OBVIOUS
<1>5. /\ d.oid = t[2].s /\ d.names = Said(c, "NAME", <<>>) /\ d.sup = Said(c, "SUP", <<>>)
      /\ d.must = Said(c, "MUST", <<>>) /\ d.may = Said(c, "MAY", <<>>)
  BY <1>1, <1>4 DEF ClassOf
<1> QED
  BY <1>2, <1>3, <1>4, <1>5 DEF ClassSound

LEMMA MaxFacts ==
    ASSUME NEW n \in Nat, NEW T \in SUBSET (1 .. n), T # {}
    PROVE  Max(T) \in T
<1> DEFINE U == {n - x : x \in T}
<1>1. U \in SUBSET Nat /\ U # {}
  <2>1. \A x \in T : n - x \in Nat
    OBVIOUS
  <2>2. PICK x : x \in T
    OBVIOUS
  <2>3. n - x \in U
    BY <2>2
  <2> QED
    BY <2>1, <2>3
<1>2. PICK u \in U : \A y \in U : u <= y
  <2> HIDE DEF U
  <2> QED
    BY <1>1, LeastElement
<1>3. PICK x \in T : u = n - x
  BY <1>2
<1>4. \A y \in T : x >= y
  <2> SUFFICES ASSUME NEW y \in T PROVE x >= y
    OBVIOUS
  <2>1. n - x <= n - y
    BY <1>2, <1>3
  <2>2. x \in Int /\ y \in Int
    OBVIOUS
  <2> QED
    BY <2>1, <2>2
<1> QED
  BY <1>4 DEF Max

\* Whoever has a name in the index is one of the definitions, and each of them
\* has its names there.
LEMMA IndexFacts ==
    ASSUME NEW defs, Listed(defs)
    PROVE  /\ \A k \in DOMAIN Index(defs) : Index(defs)[k] \in ToSet(defs)
           /\ \A d \in ToSet(defs) : Keys(d) \subseteq DOMAIN Index(defs)
<1> DEFINE Of(k) == {i \in DOMAIN defs : k \in Keys(defs[i])}
<1>0. Len(defs) \in Nat /\ DOMAIN defs = 1 .. Len(defs)
  BY ListedFacts
<1>1. PICK map : map = Index(defs)
  OBVIOUS
<1>2. map = [k \in UNION {Keys(d) : d \in ToSet(defs)} |-> defs[Max(Of(k))]]
  BY <1>1 DEF Index
<1>3. ASSUME NEW k \in UNION {Keys(d) : d \in ToSet(defs)} PROVE defs[Max(Of(k))] \in ToSet(defs)
  <2>1. Of(k) # {}
    BY DEF ToSet
  <2>2. Of(k) \in SUBSET (1 .. Len(defs))
    BY <1>0
  <2>3. Max(Of(k)) \in Of(k)
    <3> HIDE DEF Of
    <3> QED
      BY <1>0, <2>1, <2>2, MaxFacts
  <2>4. Max(Of(k)) \in DOMAIN defs
    BY <2>3
  <2> HIDE DEF Of
  <2> QED
    BY <2>4 DEF ToSet
<1> HIDE DEF Of
<1>4. \A k \in DOMAIN map : map[k] \in ToSet(defs)
  BY <1>2, <1>3
<1>5. \A d \in ToSet(defs) : Keys(d) \subseteq DOMAIN map
  BY <1>2
<1> QED
  BY <1>1, <1>4, <1>5

LEMMA HeadedFacts ==
    ASSUME NEW texts \in Seq(Seq(Token)), NEW heads, heads = Headed(texts)
    PROVE  heads \in Seq(ToSet(texts)) /\ \A t \in ToSet(heads) : t \in Seq(Token) /\ HasHeader(t)
<1>1. Listed(texts) /\ ToSet(texts) \subseteq Seq(Token)
  BY ListedFacts
<1> DEFINE K == {t \in ToSet(texts) : HasHeader(t)}
<1>2. heads = Only(texts, K)
  BY DEF Headed
<1>3. heads \in Seq(ToSet(texts)) /\ ToSet(heads) = ToSet(texts) \cap K
  <2> HIDE DEF K
  <2> QED
    BY <1>1, <1>2, OnlyFacts
<1> QED
  BY <1>1, <1>3

LEMMA ParseSound ==
    ASSUME NEW v \in Servers
    PROVE  SchemaSound(Parse(v.classes, v.attrs))
<1>1. PICK texts \in Seq(Seq(Token)) : texts = v.classes
  BY ServersAssumption
<1>2. PICK heads : heads = Headed(texts)
  OBVIOUS
<1>3. heads \in Seq(ToSet(texts)) /\ \A t \in ToSet(heads) : t \in Seq(Token) /\ HasHeader(t)
  BY <1>2, HeadedFacts
<1>4. PICK cs : cs = ClassesOf(texts)
  OBVIOUS
<1>5. cs = [i \in DOMAIN heads |-> ClassOf(heads[i])]
  BY <1>2, <1>4 DEF ClassesOf
<1>6. Len(heads) \in Nat /\ DOMAIN heads = 1 .. Len(heads)
  BY <1>3, LenProperties
<1>7. Listed(cs) /\ \A c \in ToSet(cs) : ClassSound(c)
  <2>1. cs \in Seq({ClassOf(t) : t \in ToSet(heads)})
    BY <1>5, <1>6 DEF ToSet
  <2>2. Listed(cs) /\ ToSet(cs) \subseteq {ClassOf(t) : t \in ToSet(heads)}
    BY <2>1, ListedFacts
  <2>3. \A t \in ToSet(heads) : ClassSound(ClassOf(t))
    BY <1>3, ClassOfSound
  <2> QED
    BY <2>2, <2>3
<1>8. PICK s : s = Parse(v.classes, v.attrs)
  OBVIOUS
<1>9. s.ClassList = cs /\ s.Classes = Index(cs)
  BY <1>1, <1>4, <1>8 DEF Parse
<1>10. SchemaSound(s)
  BY <1>7, <1>9, IndexFacts DEF SchemaSound
<1> QED
  BY <1>8, <1>10

-----------------------------------------------------------------------------
(* Classes and their superclasses.                                         *)

ClassSet(s) == ToSet(s.ClassList)

LEMMA ClassFacts ==
    ASSUME NEW s, SchemaSound(s)
    PROVE  /\ \A n : Class(s, n) = None \/ Class(s, n) \in ClassSet(s)
           /\ \A c \in ClassSet(s) : c # None /\ Class(s, Name(c)) \in ClassSet(s) /\ ClassSound(c)
           /\ NamesApart(s) => \A c \in ClassSet(s) : Class(s, Name(c)) = c
<1>1. \A c \in ClassSet(s) : c # None /\ ClassSound(c)
  <2>1. \A c \in ClassSet(s) : ClassSound(c)
    BY DEF SchemaSound, ClassSet
  <2>2. None.oid = ""
    BY DEF None
  <2>3. \A c : ClassSound(c) => c.oid # ""
    BY DEF ClassSound
  <2> QED
    BY <2>1, <2>2, <2>3, Zenon
<1>2. \A n : Class(s, n) = None \/ Class(s, n) \in ClassSet(s)
  BY DEF SchemaSound, Class, Lookup, ClassSet
<1>3. ASSUME NEW c \in ClassSet(s) PROVE Lower[Name(c)] \in Keys(c)
  <2>1. Listed(c.names)
    BY <1>1 DEF ClassSound
  <2>2. c.names # <<>> => c.names[1] \in ToSet(c.names)
    BY <2>1 DEF Listed
  <2> QED
    BY <2>2 DEF Name, Keys
<1>4. ASSUME NEW c \in ClassSet(s)
      PROVE  Lower[Name(c)] \in DOMAIN s.Classes /\ Class(s, Name(c)) = s.Classes[Lower[Name(c)]]
  BY <1>3 DEF SchemaSound, Class, Lookup, ClassSet
<1>5. \A c \in ClassSet(s) : Class(s, Name(c)) \in ClassSet(s)
  BY <1>4 DEF SchemaSound, ClassSet
<1>6. ASSUME NamesApart(s) PROVE \A c \in ClassSet(s) : Class(s, Name(c)) = c
  BY <1>3, <1>4, <1>6 DEF NamesApart, ClassSet
<1> QED
  BY <1>1, <1>2, <1>5, <1>6

-----------------------------------------------------------------------------
(* The walk over the superclasses.                                         *)

Names(s, n) == {n} \cup UNION {ToSet(c.sup) : c \in ClassSet(s)}
Walkers(s, n) ==
    [todo : Seq(Names(s, n)), out : Seq({Name(c) : c \in ClassSet(s)}),
     seen : SUBSET {Lower[c.oid] : c \in ClassSet(s)}]
Started(n) == [todo |-> <<n>>, out |-> <<>>, seen |-> {}]

\* What a visit does to a walk, by cases.
Passes(s, v) ==
    /\ v.todo # <<>>
    /\ Class(s, Head(v.todo)) = None \/ Lower[Class(s, Head(v.todo)).oid] \in v.seen
Notices(s, v, c) ==
    /\ v.todo # <<>> /\ c \in ClassSet(s) /\ c = Class(s, Head(v.todo)) /\ Lower[c.oid] \notin v.seen

LEMMA VisitCases ==
    ASSUME NEW s, SchemaSound(s), NEW n, NEW v \in Walkers(s, n)
    PROVE  \/ v.todo = <<>> /\ Visit(s, v) = v
           \/ /\ Passes(s, v)
              /\ Visit(s, v) = [todo |-> Tail(v.todo), out |-> v.out, seen |-> v.seen]
           \/ \E c \in ClassSet(s) :
                /\ Notices(s, v, c)
                /\ Visit(s, v) = [todo |-> c.sup \o Tail(v.todo), out |-> Append(v.out, Name(c)),
                                  seen |-> v.seen \cup {Lower[c.oid]}]
<1>1. PICK c : c = Class(s, Head(v.todo))
  OBVIOUS
<1>2. c = None \/ c \in ClassSet(s)
  BY <1>1, ClassFacts
<1>3. v = [todo |-> v.todo, out |-> v.out, seen |-> v.seen]
  BY DEF Walkers
<1>4. Visit(s, v) =
        IF v.todo = <<>> THEN v
        ELSE IF c = None \/ Lower[c.oid] \in v.seen THEN [v EXCEPT !.todo = Tail(v.todo)]
        ELSE [todo |-> Ahead(c, Tail(v.todo)), out |-> Append(v.out, Name(c)),
              seen |-> v.seen \cup {Lower[c.oid]}]
  BY <1>1 DEF Visit
<1>5. CASE v.todo = <<>>
  BY <1>4, <1>5
<1>6. CASE v.todo # <<>> /\ (c = None \/ Lower[c.oid] \in v.seen)
  <2>1. Visit(s, v) = [v EXCEPT !.todo = Tail(v.todo)]
    BY <1>4, <1>6
  <2>2. [v EXCEPT !.todo = Tail(v.todo)] = [todo |-> Tail(v.todo), out |-> v.out, seen |-> v.seen]
    <3>1. PICK t, o, z, r : t = v.todo /\ o = v.out /\ z = v.seen /\ r = Tail(v.todo)
      OBVIOUS
    <3>2. v = [todo |-> t, out |-> o, seen |-> z]
      BY <1>3, <3>1
    <3>3. [v EXCEPT !.todo = r] = [todo |-> r, out |-> o, seen |-> z]
      BY <3>2
    <3> QED
      BY <3>1, <3>3
  <2>3. Passes(s, v)
    BY <1>1, <1>6 DEF Passes
  <2> QED
    BY <2>1, <2>2, <2>3
<1>7. CASE v.todo # <<>> /\ ~(c = None \/ Lower[c.oid] \in v.seen)
  BY <1>1, <1>2, <1>4, <1>7 DEF Notices, Ahead
<1> QED
  BY <1>5, <1>6, <1>7

LEMMA VisitType ==
    ASSUME NEW s, SchemaSound(s), NEW n, NEW v \in Walkers(s, n)
    PROVE  Visit(s, v) \in Walkers(s, n)
<1>1. PICK N, O, Z : /\ N = Names(s, n) /\ O = {Name(c) : c \in ClassSet(s)}
                     /\ Z = {Lower[c.oid] : c \in ClassSet(s)}
  OBVIOUS
<1>2. Walkers(s, n) = [todo : Seq(N), out : Seq(O), seen : SUBSET Z]
  BY <1>1 DEF Walkers
<1>3. v.todo \in Seq(N) /\ v.out \in Seq(O) /\ v.seen \in SUBSET Z
  BY <1>2
<1>4. CASE v.todo = <<>> /\ Visit(s, v) = v
  BY <1>4
<1>5. CASE Passes(s, v) /\ Visit(s, v) = [todo |-> Tail(v.todo), out |-> v.out, seen |-> v.seen]
  <2>1. v.todo # <<>>
    BY <1>5 DEF Passes
  <2>2. Tail(v.todo) \in Seq(N)
    BY <1>3, <2>1
  <2> QED
    BY <1>2, <1>3, <1>5, <2>2
<1>6. ASSUME NEW c \in ClassSet(s), Notices(s, v, c),
             Visit(s, v) = [todo |-> c.sup \o Tail(v.todo), out |-> Append(v.out, Name(c)),
                            seen |-> v.seen \cup {Lower[c.oid]}]
      PROVE  Visit(s, v) \in Walkers(s, n)
  <2>1. v.todo # <<>>
    BY <1>6 DEF Notices
  <2>2. Tail(v.todo) \in Seq(N)
    BY <1>3, <2>1
  <2>3. Listed(c.sup)
    BY ClassFacts DEF ClassSound
  <2>4. ToSet(c.sup) \subseteq N
    BY <1>1 DEF Names
  <2>5. c.sup \in Seq(N)
    BY <2>3, <2>4 DEF Listed
  <2>6. c.sup \o Tail(v.todo) \in Seq(N)
    BY <2>2, <2>5
  <2>7. Name(c) \in O /\ Lower[c.oid] \in Z
    BY <1>1
  <2>8. Append(v.out, Name(c)) \in Seq(O) /\ v.seen \cup {Lower[c.oid]} \in SUBSET Z
    BY <1>3, <2>7
  <2> QED
    BY <1>2, <1>6, <2>6, <2>8
<1> QED
  BY <1>4, <1>5, <1>6, VisitCases

Walks(w, s, n) ==
    /\ w[0] = Started(n)
    /\ \A i \in Nat : w[i] \in Walkers(s, n) /\ w[i + 1] = Visit(s, w[i])

\* The lineage is what a walk has after its visits.
LEMMA LineageWalks ==
    ASSUME NEW s, SchemaSound(s), Visits(s) \in Nat, NEW n
    PROVE  \E w : Walks(w, s, n) /\ Lineage(s, n) = w[Visits(s)].out
<1> DEFINE Step(w, i) == IF i = 0 THEN [todo |-> <<n>>, out |-> <<>>, seen |-> {}]
                         ELSE Visit(s, w[i - 1])
           Solves(h) == h = [i \in Nat |-> Step(h, i)]
           Walk == CHOOSE h : Solves(h)
           V == Walkers(s, n)
           g == [i \in Nat |-> [v \in V |-> Visit(s, v)]]
<1>1. Lineage(s, n) = Walk[Visits(s)].out
  BY DEF Lineage
<1>2. Started(n) \in V
  <2>1. n \in Names(s, n)
    BY DEF Names
  <2> QED
    BY <2>1 DEF Started, Walkers
<1>3. \A v \in V : Visit(s, v) \in V
  BY VisitType
<1>4. g \in [Nat -> [V -> V]]
  BY <1>3
<1>5. PICK w : Recursive(w, V, Started(n), g)
  <2> HIDE DEF g, V
  <2> QED
    BY <1>2, <1>4, Recursion
<1>6. /\ w \in [Nat -> V] /\ w[0] = Started(n)
      /\ \A i \in Nat : w[i + 1] = g[i][w[i]]
  <2> HIDE DEF g, V
  <2> QED
    BY <1>5 DEF Recursive
<1>7. ASSUME NEW i \in Nat PROVE w[i] \in V /\ w[i + 1] = Visit(s, w[i])
  <2>1. w[i] \in V
    BY <1>6
  <2>2. g[i][w[i]] = Visit(s, w[i])
    BY <2>1
  <2> HIDE DEF g, V
  <2> QED
    BY <1>6, <2>1, <2>2
<1>8. Solves(w)
  <2>1. ASSUME NEW i \in Nat PROVE w[i] = Step(w, i)
    <3>1. CASE i = 0
      BY <1>6, <3>1 DEF Started
    <3>2. CASE i # 0
      <4>1. i - 1 \in Nat /\ (i - 1) + 1 = i
        BY <3>2
      <4>2. w[i] = Visit(s, w[i - 1])
        BY <1>7, <4>1
      <4> QED
        BY <3>2, <4>2
    <3> QED
      BY <3>1, <3>2
  <2> HIDE DEF Step, V, g
  <2> QED
    BY <1>6, <2>1
<1>9. Solves(Walk)
  <2> HIDE DEF Solves
  <2> QED
    BY <1>8
<1>10. \A i \in Nat : Walk[i] = Step(Walk, i)
  <2> HIDE DEF Walk, Step
  <2> QED
    BY <1>9
<1>11. \A i \in Nat : i \in {j \in Nat : Walk[j] = w[j]}
  <2> DEFINE T == {j \in Nat : Walk[j] = w[j]}
  <2> HIDE DEF Walk
  <2>1. 0 \in T
    BY <1>6, <1>10 DEF Started
  <2>2. ASSUME NEW i \in Nat, i \in T PROVE i + 1 \in T
    <3>1. i + 1 \in Nat /\ i + 1 # 0 /\ (i + 1) - 1 = i
      OBVIOUS
    <3>2. Walk[i + 1] = Step(Walk, i + 1)
      BY <1>10, <3>1
    <3>3. Walk[i + 1] = Visit(s, Walk[i])
      BY <3>1, <3>2
    <3> QED
      BY <1>7, <2>2, <3>1, <3>3
  <2> HIDE DEF T
  <2>3. \A i \in Nat : i \in T
    BY <2>1, <2>2, SetInduction
  <2> QED
    BY <2>3 DEF T
<1>12. Lineage(s, n) = w[Visits(s)].out
  <2> HIDE DEF Walk
  <2> QED
    BY <1>1, <1>11
<1>13. Walks(w, s, n)
  <2> HIDE DEF g
  <2> QED
    BY <1>6, <1>7 DEF Walks
<1> QED
  BY <1>12, <1>13

\* The links to superclasses of some classes, and what is left to come by.
Links(C) == UNION {{c} \X DOMAIN c.sup : c \in C}
Unmet(s, v) == {c \in ClassSet(s) : Lower[c.oid] \notin v.seen}
Left(s, v) == Len(v.todo) + Cardinality(Links(Unmet(s, v)))

LEMMA ElementsFinite ==
    ASSUME NEW list, Listed(list)
    PROVE  IsFiniteSet(ToSet(list))
<1>1. Len(list) \in Nat /\ list \in [1 .. Len(list) -> ToSet(list)] /\ DOMAIN list = 1 .. Len(list)
  BY LenProperties DEF Listed
<1>2. \A t \in ToSet(list) : \E i \in 1 .. Len(list) : list[i] = t
  BY <1>1 DEF ToSet
<1>3. list \in Surjection(1 .. Len(list), ToSet(list))
  BY <1>1, <1>2 DEF Surjection
<1>4. IsFiniteSet(1 .. Len(list))
  BY <1>1, FS_Interval
<1> QED
  BY <1>3, <1>4, FS_Surjection

LEMMA LinksFinite ==
    ASSUME NEW s, SchemaSound(s), NEW C \in SUBSET ClassSet(s)
    PROVE  IsFiniteSet(Links(C)) /\ Cardinality(Links(C)) \in Nat
<1>1. IsFiniteSet(C)
  <2>1. IsFiniteSet(ClassSet(s))
    BY ElementsFinite DEF SchemaSound, ClassSet
  <2> QED
    BY <2>1, FS_Subset
<1> DEFINE f == [c \in C |-> {c} \X DOMAIN c.sup]
           R == {{c} \X DOMAIN c.sup : c \in C}
<1>2. f \in Surjection(C, R)
  BY DEF Surjection
<1>3. IsFiniteSet(R)
  <2> HIDE DEF f, R
  <2> QED
    BY <1>1, <1>2, FS_Surjection
<1>4. ASSUME NEW c \in C PROVE IsFiniteSet({c} \X DOMAIN c.sup)
  <2>1. Listed(c.sup)
    BY ClassFacts DEF ClassSound
  <2>2. Len(c.sup) \in Nat /\ DOMAIN c.sup = 1 .. Len(c.sup)
    BY <2>1, ListedFacts
  <2>3. IsFiniteSet(1 .. Len(c.sup))
    BY <2>2, FS_Interval
  <2>4. IsFiniteSet({c})
    BY FS_Singleton
  <2> QED
    BY <2>2, <2>3, <2>4, FS_Product
<1>5. \A T \in R : IsFiniteSet(T)
  BY <1>4
<1>6. IsFiniteSet(UNION R)
  <2> HIDE DEF R
  <2> QED
    BY <1>3, <1>5, FS_UNION
<1> QED
  BY <1>6, FS_CardinalityType DEF Links

LEMMA LinksFewer ==
    ASSUME NEW s, SchemaSound(s), NEW C \in SUBSET ClassSet(s), NEW c \in C, NEW D \in SUBSET (C \ {c})
    PROVE  Cardinality(Links(D)) + Len(c.sup) <= Cardinality(Links(C))
<1>1. Listed(c.sup)
  BY ClassFacts DEF ClassSound
<1>2. Len(c.sup) \in Nat /\ DOMAIN c.sup = 1 .. Len(c.sup)
  BY <1>1, ListedFacts
<1>3. PICK Q : Q = {c} \X DOMAIN c.sup
  OBVIOUS
<1>4. IsFiniteSet(Q) /\ Cardinality(Q) = Len(c.sup)
  <2>1. IsFiniteSet(1 .. Len(c.sup)) /\ Cardinality(1 .. Len(c.sup)) = Len(c.sup)
    BY <1>2, FS_Interval
  <2>2. IsFiniteSet({c}) /\ Cardinality({c}) = 1
    BY FS_Singleton
  <2>3. PICK I : I = 1 .. Len(c.sup)
    OBVIOUS
  <2>4. IsFiniteSet({c} \X I) /\ Cardinality({c} \X I) = Cardinality({c}) * Cardinality(I)
    BY <2>1, <2>2, <2>3, FS_Product
  <2>5. Q = {c} \X I
    BY <1>2, <1>3, <2>3
  <2>6. 1 * Len(c.sup) = Len(c.sup)
    BY <1>2
  <2> QED
    BY <2>1, <2>2, <2>3, <2>4, <2>5, <2>6
<1>5. IsFiniteSet(Links(C)) /\ IsFiniteSet(Links(D))
      /\ Cardinality(Links(C)) \in Nat /\ Cardinality(Links(D)) \in Nat
  BY LinksFinite
<1>6. Links(D) \cap Q = {}
  BY <1>3 DEF Links
<1>7. Links(D) \cup Q \in SUBSET Links(C)
  BY <1>3 DEF Links
<1>8. Cardinality(Links(D) \cup Q) = Cardinality(Links(D)) + Cardinality(Q) - Cardinality(Links(D) \cap Q)
  BY <1>4, <1>5, FS_Union
<1>9. Cardinality(Links(D) \cap Q) = 0
  BY <1>6, FS_EmptySet
<1>10. Cardinality(Links(D) \cup Q) <= Cardinality(Links(C))
  BY <1>5, <1>7, FS_Subset
<1> QED
  BY <1>2, <1>4, <1>5, <1>8, <1>9, <1>10

LEMMA VisitsNat ==
    ASSUME NEW s, SchemaSound(s)
    PROVE  Visits(s) \in Nat /\ Visits(s) = 1 + Cardinality(Links(ClassSet(s)))
<1>1. Visits(s) = 1 + Cardinality(Links(ClassSet(s)))
  BY DEF Visits, Links, ClassSet
<1>2. Cardinality(Links(ClassSet(s))) \in Nat
  BY LinksFinite
<1> QED
  BY <1>1, <1>2

\* Every visit leaves less to come by.
LEMMA VisitLeaves ==
    ASSUME NEW s, SchemaSound(s), NEW n, NEW v \in Walkers(s, n)
    PROVE  /\ Left(s, v) \in Nat /\ (Left(s, v) = 0 => v.todo = <<>>)
           /\ v.todo = <<>> => Visit(s, v) = v
           /\ v.todo # <<>> => Left(s, Visit(s, v)) <= Left(s, v) - 1
<1>1. v.todo \in Seq(Names(s, n)) /\ Len(v.todo) \in Nat
  BY DEF Walkers
<1>2. Unmet(s, v) \in SUBSET ClassSet(s)
  BY DEF Unmet
<1>3. Cardinality(Links(Unmet(s, v))) \in Nat
  BY <1>2, LinksFinite
<1>4. Left(s, v) \in Nat /\ (Left(s, v) = 0 => Len(v.todo) = 0)
  BY <1>1, <1>3 DEF Left
<1>5. Left(s, v) = 0 => v.todo = <<>>
  BY <1>1, <1>4
<1>6. CASE v.todo = <<>> /\ Visit(s, v) = v
  BY <1>4, <1>5, <1>6
<1>7. CASE Passes(s, v) /\ Visit(s, v) = [todo |-> Tail(v.todo), out |-> v.out, seen |-> v.seen]
  <2>1. v.todo # <<>>
    BY <1>7 DEF Passes
  <2>2. Len(Tail(v.todo)) = Len(v.todo) - 1
    BY <1>1, <2>1
  <2>3. PICK u : u = Visit(s, v)
    OBVIOUS
  <2>4. u.todo = Tail(v.todo) /\ u.seen = v.seen
    BY <1>7, <2>3
  <2>5. Left(s, u) = Left(s, v) - 1
    BY <1>1, <1>3, <2>2, <2>4 DEF Left, Unmet
  <2>6. Left(s, Visit(s, v)) <= Left(s, v) - 1
    BY <1>4, <2>3, <2>5
  <2> QED
    BY <1>4, <1>5, <2>1, <2>6
<1>8. ASSUME NEW c \in ClassSet(s), Notices(s, v, c),
             Visit(s, v) = [todo |-> c.sup \o Tail(v.todo), out |-> Append(v.out, Name(c)),
                            seen |-> v.seen \cup {Lower[c.oid]}]
      PROVE  v.todo # <<>> /\ Left(s, Visit(s, v)) <= Left(s, v) - 1
  <2>1. v.todo # <<>> /\ c \in Unmet(s, v)
    BY <1>8 DEF Notices, Unmet
  <2>2. PICK u : u = Visit(s, v)
    OBVIOUS
  <2>3. u.todo = c.sup \o Tail(v.todo) /\ u.seen = v.seen \cup {Lower[c.oid]}
    <3>1. PICK r, o, z : /\ r = c.sup \o Tail(v.todo) /\ o = Append(v.out, Name(c))
                         /\ z = v.seen \cup {Lower[c.oid]}
      OBVIOUS
    <3>2. u = [todo |-> r, out |-> o, seen |-> z]
      BY <1>8, <2>2, <3>1
    <3> QED
      BY <3>1, <3>2
  <2>4. PICK tail \in Seq(Names(s, n)) : tail = Tail(v.todo) /\ Len(tail) = Len(v.todo) - 1
    <3>1. PICK todo \in Seq(Names(s, n)) : todo = v.todo
      BY <1>1
    <3>2. Tail(todo) \in Seq(Names(s, n)) /\ Len(Tail(todo)) = Len(todo) - 1
      BY <2>1, <3>1
    <3> QED
      BY <3>1, <3>2
  <2>5. Listed(c.sup)
    BY ClassFacts DEF ClassSound
  <2>6. Len(c.sup) \in Nat /\ Len(c.sup \o tail) = Len(c.sup) + Len(tail)
    <3>1. PICK S : c.sup \in Seq(S)
      BY <2>5 DEF Listed
    <3> QED
      BY <3>1
  <2>7. Unmet(s, u) \in SUBSET (Unmet(s, v) \ {c})
    BY <2>3 DEF Unmet
  <2>8. Cardinality(Links(Unmet(s, u))) + Len(c.sup) <= Cardinality(Links(Unmet(s, v)))
    BY <1>2, <2>1, <2>7, LinksFewer
  <2>9. Cardinality(Links(Unmet(s, u))) \in Nat
    BY <1>2, <2>7, LinksFinite
  <2>10. Len(u.todo) = Len(c.sup) + Len(v.todo) - 1
    BY <1>1, <2>3, <2>4, <2>6
  <2>11. Left(s, u) <= Left(s, v) - 1
    <3>1. PICK k \in Nat, m \in Nat, l \in Nat, t \in Nat :
             /\ k = Cardinality(Links(Unmet(s, u))) /\ m = Cardinality(Links(Unmet(s, v)))
             /\ l = Len(c.sup) /\ t = Len(v.todo)
      BY <1>1, <1>3, <2>6, <2>9
    <3>2. Left(s, u) = (l + t - 1) + k /\ Left(s, v) = t + m
      BY <2>10, <3>1 DEF Left
    <3>3. k + l <= m
      BY <2>8, <3>1
    <3> QED
      BY <3>2, <3>3
  <2> QED
    BY <2>1, <2>2, <2>11
<1> QED
  BY <1>4, <1>5, <1>6, <1>7, <1>8, VisitCases

\* The walk is over when the lineage is read off it.
LEMMA WalkEnds ==
    ASSUME NEW s, SchemaSound(s), NEW n, NEW w, Walks(w, s, n)
    PROVE  w[Visits(s)].todo = <<>>
<1> DEFINE T == {i \in Nat : w[i].todo = <<>> \/ Left(s, w[i]) + i <= Visits(s)}
<1>1. Visits(s) \in Nat /\ Visits(s) = 1 + Cardinality(Links(ClassSet(s)))
  BY VisitsNat
<1>2. \A i \in Nat : w[i] \in Walkers(s, n) /\ w[i + 1] = Visit(s, w[i])
  BY DEF Walks
<1>3. 0 \in T
  <2>1. w[0] = Started(n)
    BY DEF Walks
  <2>2. Len(w[0].todo) = 1 /\ w[0].seen = {}
    BY <2>1 DEF Started
  <2>3. Unmet(s, w[0]) = ClassSet(s)
    BY <2>2 DEF Unmet
  <2>4. Left(s, w[0]) = Visits(s)
    BY <1>1, <2>2, <2>3 DEF Left
  <2> QED
    BY <1>1, <2>4
<1>4. ASSUME NEW i \in Nat, i \in T PROVE i + 1 \in T
  <2>1. PICK v \in Walkers(s, n) : v = w[i]
    BY <1>2
  <2>2. PICK u \in Walkers(s, n) : u = w[i + 1]
    BY <1>2
  <2>3. u = Visit(s, v)
    BY <1>2, <2>1, <2>2
  <2>4. Left(s, v) \in Nat /\ Left(s, u) \in Nat
    BY VisitLeaves
  <2>5. CASE v.todo = <<>>
    <3>1. u = v
      BY <2>3, <2>5, VisitLeaves
    <3>2. w[i + 1].todo = <<>>
      BY <2>2, <2>5, <3>1
    <3> QED
      BY <3>2
  <2>6. CASE v.todo # <<>>
    <3>1. Left(s, u) <= Left(s, v) - 1
      BY <2>3, <2>6, VisitLeaves
    <3>2. Left(s, v) + i <= Visits(s)
      BY <1>4, <2>1, <2>6
    <3>3. Left(s, u) + (i + 1) <= Visits(s)
      BY <1>1, <2>4, <3>1, <3>2
    <3> QED
      BY <2>2, <3>3
  <2> QED
    BY <2>5, <2>6
<1>5. Visits(s) \in T
  <2> HIDE DEF T
  <2> QED
    BY <1>1, <1>3, <1>4, SetInduction
<1>6. PICK v \in Walkers(s, n) : v = w[Visits(s)]
  BY <1>1, <1>2
<1>7. v.todo = <<>> \/ Left(s, v) + Visits(s) <= Visits(s)
  BY <1>5, <1>6
<1>8. Left(s, v) \in Nat /\ (Left(s, v) = 0 => v.todo = <<>>)
  BY VisitLeaves
<1> QED
  BY <1>1, <1>6, <1>7, <1>8

LEMMA LineageType ==
    ASSUME NEW s, SchemaSound(s), NEW n
    PROVE  Listed(Lineage(s, n)) /\ ToSet(Lineage(s, n)) \subseteq {Name(c) : c \in ClassSet(s)}
<1>1. Visits(s) \in Nat
  BY VisitsNat
<1>2. PICK w : Walks(w, s, n) /\ Lineage(s, n) = w[Visits(s)].out
  BY <1>1, LineageWalks
<1>3. w[Visits(s)] \in Walkers(s, n)
  BY <1>1, <1>2 DEF Walks
<1>4. Lineage(s, n) \in Seq({Name(c) : c \in ClassSet(s)})
  BY <1>2, <1>3 DEF Walkers
<1> QED
  BY <1>4, ListedFacts

-----------------------------------------------------------------------------
(* The lineage is the ancestors, when names are told apart.                *)

LEMMA HeadAndTail ==
    ASSUME NEW S, NEW s \in Seq(S), s # <<>>
    PROVE  ToSet(s) = {Head(s)} \cup ToSet(Tail(s))
<1>1. PICK t : t = Tail(s)
  OBVIOUS
<1>2. /\ t \in Seq(S) /\ Len(s) \in Nat /\ Len(t) = Len(s) - 1 /\ DOMAIN s = 1 .. Len(s)
      /\ DOMAIN t = 1 .. Len(t) /\ Head(s) = s[1] /\ \A i \in 1 .. Len(t) : t[i] = s[i + 1]
  BY <1>1
<1>3. ASSUME NEW x \in ToSet(s) PROVE x = Head(s) \/ x \in ToSet(t)
  <2>1. PICK i \in 1 .. Len(s) : x = s[i]
    BY <1>2 DEF ToSet
  <2>2. CASE i = 1
    BY <1>2, <2>1, <2>2
  <2>3. CASE i # 1
    <3>1. i - 1 \in 1 .. Len(t) /\ (i - 1) + 1 = i
      BY <1>2, <2>3
    <3>2. t[i - 1] = x
      BY <1>2, <2>1, <3>1
    <3> QED
      BY <1>2, <3>1, <3>2 DEF ToSet
  <2> QED
    BY <2>2, <2>3
<1>4. ASSUME NEW x \in ToSet(t) PROVE x \in ToSet(s)
  <2>1. PICK i \in 1 .. Len(t) : x = t[i]
    BY <1>2 DEF ToSet
  <2>2. i + 1 \in DOMAIN s /\ s[i + 1] = x
    BY <1>2, <2>1
  <2> QED
    BY <2>2 DEF ToSet
<1>5. Head(s) \in ToSet(s)
  <2>1. 1 \in DOMAIN s
    BY <1>2
  <2> QED
    BY <1>2, <2>1 DEF ToSet
<1> QED
  BY <1>1, <1>3, <1>4, <1>5

LEMMA AppendElements ==
    ASSUME NEW S, NEW s \in Seq(S), NEW e \in S
    PROVE  ToSet(Append(s, e)) = ToSet(s) \cup {e}
<1>1. PICK t : t = Append(s, e)
  OBVIOUS
<1>2. /\ Len(s) \in Nat /\ DOMAIN s = 1 .. Len(s) /\ DOMAIN t = 1 .. Len(s) + 1
      /\ t[Len(s) + 1] = e /\ \A i \in 1 .. Len(s) : t[i] = s[i]
  BY <1>1
<1>3. \A i \in DOMAIN t : i = Len(s) + 1 \/ i \in DOMAIN s
  BY <1>2
<1>4. Len(s) + 1 \in DOMAIN t /\ \A i \in DOMAIN s : i \in DOMAIN t /\ t[i] = s[i]
  BY <1>2
<1>5. ToSet(t) \subseteq ToSet(s) \cup {e}
  BY <1>2, <1>3, <1>4 DEF ToSet
<1>6. ToSet(s) \cup {e} \subseteq ToSet(t)
  BY <1>2, <1>4 DEF ToSet
<1> QED
  BY <1>1, <1>5, <1>6

\* The classes a walk has noted, and the ones it still comes by.
Met(s, v) == {c \in ClassSet(s) : Lower[c.oid] \in v.seen}
Coming(s, v) == {Class(s, q) : q \in ToSet(v.todo)}

\* A set of classes that lacks no superclass that is known, nor the first class.
Holds(s, n, S) ==
    /\ Class(s, n) \in S \cup {None}
    /\ \A c \in S : \A p \in ToSet(c.sup) : Class(s, p) \in S \cup {None}

\* What is true of a walk all along.
Reaching(s, n, v) ==
    /\ ToSet(v.out) = {Name(c) : c \in Met(s, v)}
    /\ Class(s, n) \in Met(s, v) \cup Coming(s, v) \cup {None}
    /\ \A c \in Met(s, v) : \A p \in ToSet(c.sup) :
          Class(s, p) \in Met(s, v) \cup Coming(s, v) \cup {None}
    /\ \A S \in SUBSET ClassSet(s) :
          Holds(s, n, S) => Met(s, v) \subseteq S /\ Coming(s, v) \subseteq S \cup {None}

LEMMA ReachingStarts ==
    ASSUME NEW s, SchemaSound(s), NEW n
    PROVE  Reaching(s, n, Started(n))
<1>1. PICK v : v = Started(n)
  OBVIOUS
<1>2. v.todo = <<n>> /\ v.out = <<>> /\ v.seen = {}
  BY <1>1 DEF Started
<1>3. Met(s, v) = {}
  BY <1>2 DEF Met
<1>4. ToSet(v.todo) = {n} /\ ToSet(v.out) = {}
  BY <1>2 DEF ToSet
<1>5. Coming(s, v) = {Class(s, n)}
  BY <1>4 DEF Coming
<1> QED
  BY <1>1, <1>3, <1>4, <1>5 DEF Reaching, Holds

LEMMA ReachingGoesOn ==
    ASSUME NEW s, SchemaSound(s), NamesApart(s), NEW n, NEW v \in Walkers(s, n), Reaching(s, n, v)
    PROVE  Reaching(s, n, Visit(s, v))
<1>1. PICK N, O : /\ N = Names(s, n) /\ O = {Name(c) : c \in ClassSet(s)}
                  /\ v.todo \in Seq(N) /\ v.out \in Seq(O)
  BY DEF Walkers
<1>2. PICK u : u = Visit(s, v)
  OBVIOUS
<1>3. PICK M, A, B : M = Met(s, v) /\ A = Coming(s, v) /\ B = {Class(s, q) : q \in ToSet(Tail(v.todo))}
  OBVIOUS
<1>4. v.todo # <<>> => A = {Class(s, Head(v.todo))} \cup B
  <2> SUFFICES ASSUME v.todo # <<>> PROVE A = {Class(s, Head(v.todo))} \cup B
    OBVIOUS
  <2>1. ToSet(v.todo) = {Head(v.todo)} \cup ToSet(Tail(v.todo))
    BY <1>1, HeadAndTail
  <2> QED
    BY <1>3, <2>1 DEF Coming
<1>5. /\ ToSet(v.out) = {Name(c) : c \in M}
      /\ Class(s, n) \in M \cup A \cup {None}
      /\ \A c \in M : \A p \in ToSet(c.sup) : Class(s, p) \in M \cup A \cup {None}
      /\ \A S \in SUBSET ClassSet(s) : Holds(s, n, S) => M \subseteq S /\ A \subseteq S \cup {None}
  BY <1>3 DEF Reaching
<1>6. CASE v.todo = <<>> /\ u = v
  BY <1>2, <1>6
<1>7. CASE Passes(s, v) /\ u = [todo |-> Tail(v.todo), out |-> v.out, seen |-> v.seen]
  <2>1. u.todo = Tail(v.todo) /\ u.out = v.out /\ u.seen = v.seen
    BY <1>7
  <2>2. Met(s, u) = M /\ Coming(s, u) = B
    BY <1>3, <2>1 DEF Met, Coming
  <2>3. PICK c : c = Class(s, Head(v.todo))
    OBVIOUS
  <2>4. v.todo # <<>> /\ (c = None \/ Lower[c.oid] \in v.seen)
    BY <1>7, <2>3 DEF Passes
  <2>5. c = None \/ c \in ClassSet(s)
    BY <2>3, ClassFacts
  <2>6. c \in M \cup {None}
    BY <1>3, <2>4, <2>5 DEF Met
  <2>7. A = {c} \cup B
    BY <1>4, <2>3, <2>4
  <2>8. M \cup A \cup {None} = M \cup B \cup {None} /\ B \subseteq A
    BY <2>6, <2>7
  <2>9. /\ ToSet(u.out) = {Name(d) : d \in M}
        /\ Class(s, n) \in M \cup B \cup {None}
        /\ \A d \in M : \A p \in ToSet(d.sup) : Class(s, p) \in M \cup B \cup {None}
        /\ \A S \in SUBSET ClassSet(s) : Holds(s, n, S) => M \subseteq S /\ B \subseteq S \cup {None}
    BY <1>5, <2>1, <2>8
  <2> QED
    BY <1>2, <2>2, <2>9 DEF Reaching
<1>8. ASSUME NEW c \in ClassSet(s), Notices(s, v, c),
             u = [todo |-> c.sup \o Tail(v.todo), out |-> Append(v.out, Name(c)),
                  seen |-> v.seen \cup {Lower[c.oid]}]
      PROVE  Reaching(s, n, u)
  <2>1. u.todo = c.sup \o Tail(v.todo) /\ u.out = Append(v.out, Name(c))
        /\ u.seen = v.seen \cup {Lower[c.oid]}
    <3>1. PICK r, o, z : /\ r = c.sup \o Tail(v.todo) /\ o = Append(v.out, Name(c))
                         /\ z = v.seen \cup {Lower[c.oid]}
      OBVIOUS
    <3>2. u = [todo |-> r, out |-> o, seen |-> z]
      BY <1>8, <3>1
    <3> QED
      BY <3>1, <3>2
  <2>2. v.todo # <<>> /\ c = Class(s, Head(v.todo)) /\ c # None
    BY <1>8, ClassFacts DEF Notices
  <2>3. Met(s, u) = M \cup {c}
    <3>1. \A d \in ClassSet(s) : Lower[d.oid] \in Keys(d) /\ s.Classes[Lower[d.oid]] = d
      BY DEF NamesApart, Keys, ClassSet
    <3>2. \A d \in ClassSet(s) : Lower[d.oid] = Lower[c.oid] => d = c
      BY <3>1
    <3> QED
      BY <1>3, <2>1, <3>2 DEF Met
  <2>4. PICK P : P = {Class(s, p) : p \in ToSet(c.sup)}
    OBVIOUS
  <2>5. Coming(s, u) = P \cup B
    <3>1. Listed(c.sup) /\ ToSet(c.sup) \subseteq N
      BY <1>1, ClassFacts DEF ClassSound, Names
    <3>2. c.sup \in Seq(N)
      BY <3>1 DEF Listed
    <3>3. Tail(v.todo) \in Seq(N)
      BY <1>1, <2>2
    <3>4. ToSet(u.todo) = ToSet(c.sup) \cup ToSet(Tail(v.todo))
      <4>1. PICK p \in Seq(N), r \in Seq(N) : p = c.sup /\ r = Tail(v.todo)
        BY <3>2, <3>3
      <4>2. ToSet(p \o r) = ToSet(p) \cup ToSet(r)
        BY ConcatElements
      <4> QED
        BY <2>1, <4>1, <4>2
    <3>5. PICK X, Y, U : X = ToSet(c.sup) /\ Y = ToSet(Tail(v.todo)) /\ U = ToSet(u.todo)
      OBVIOUS
    <3>6. Coming(s, u) = {Class(s, q) : q \in U}
      BY <3>5 DEF Coming
    <3>7. P = {Class(s, p) : p \in X} /\ B = {Class(s, q) : q \in Y} /\ U = X \cup Y
      BY <1>3, <2>4, <3>4, <3>5
    <3> QED
      BY <3>6, <3>7
  <2>6. ToSet(u.out) = ToSet(v.out) \cup {Name(c)}
    <3>1. Name(c) \in O
      BY <1>1
    <3> QED
      BY <1>1, <2>1, <3>1, AppendElements
  <2>7. A = {c} \cup B
    BY <1>4, <2>2
  <2>8. M \cup A \cup {None} \subseteq (M \cup {c}) \cup (P \cup B) \cup {None}
    BY <2>7
  <2>9. ToSet(u.out) = {Name(d) : d \in M \cup {c}}
    BY <1>5, <2>6
  <2>10. \A d \in M \cup {c} : \A p \in ToSet(d.sup) :
            Class(s, p) \in (M \cup {c}) \cup (P \cup B) \cup {None}
    <3>1. \A p \in ToSet(c.sup) : Class(s, p) \in P
      BY <2>4
    <3> QED
      BY <1>5, <2>8, <3>1
  <2>11. ASSUME NEW S \in SUBSET ClassSet(s), Holds(s, n, S)
         PROVE  M \cup {c} \subseteq S /\ P \cup B \subseteq S \cup {None}
    <3>1. M \subseteq S /\ A \subseteq S \cup {None}
      BY <1>5, <2>11
    <3>2. c \in S
      BY <2>2, <2>7, <3>1
    <3>3. P \subseteq S \cup {None}
      BY <2>4, <2>11, <3>2 DEF Holds
    <3> QED
      BY <2>7, <3>1, <3>2, <3>3
  <2>12. Class(s, n) \in (M \cup {c}) \cup (P \cup B) \cup {None}
    BY <1>5, <2>8
  <2> QED
    BY <2>3, <2>5, <2>9, <2>10, <2>11, <2>12 DEF Reaching
<1>9. \/ v.todo = <<>> /\ u = v
      \/ Passes(s, v) /\ u = [todo |-> Tail(v.todo), out |-> v.out, seen |-> v.seen]
      \/ \E c \in ClassSet(s) :
            /\ Notices(s, v, c)
            /\ u = [todo |-> c.sup \o Tail(v.todo), out |-> Append(v.out, Name(c)),
                    seen |-> v.seen \cup {Lower[c.oid]}]
  BY <1>2, VisitCases
<1> QED
  BY <1>2, <1>6, <1>7, <1>8, <1>9

LEMMA LineageAncestors ==
    ASSUME NEW s, SchemaSound(s), NamesApart(s), NEW n
    PROVE  /\ Ancestors(s, n) \subseteq ClassSet(s)
           /\ ToSet(Lineage(s, n)) = {Name(c) : c \in Ancestors(s, n)}
<1>1. Visits(s) \in Nat
  BY VisitsNat
<1>2. PICK w : Walks(w, s, n) /\ Lineage(s, n) = w[Visits(s)].out
  BY <1>1, LineageWalks
<1>3. \A i \in Nat : w[i] \in Walkers(s, n) /\ w[i + 1] = Visit(s, w[i])
  BY <1>2 DEF Walks
<1> DEFINE T == {i \in Nat : Reaching(s, n, w[i])}
<1>4. 0 \in T
  BY <1>2, ReachingStarts DEF Walks
<1>5. ASSUME NEW i \in Nat, i \in T PROVE i + 1 \in T
  <2>1. PICK v \in Walkers(s, n) : v = w[i] /\ w[i + 1] = Visit(s, v)
    BY <1>3
  <2>2. Reaching(s, n, Visit(s, v))
    BY <1>5, <2>1, ReachingGoesOn
  <2> QED
    BY <2>1, <2>2
<1>6. Visits(s) \in T
  <2> HIDE DEF T
  <2> QED
    BY <1>1, <1>4, <1>5, SetInduction
<1>7. PICK v : v = w[Visits(s)]
  OBVIOUS
<1>8. v.todo = <<>> /\ Reaching(s, n, v) /\ Lineage(s, n) = v.out
  BY <1>2, <1>6, <1>7, WalkEnds
<1>9. PICK M : M = Met(s, v)
  OBVIOUS
<1>10. Coming(s, v) = {} /\ M \in SUBSET ClassSet(s)
  BY <1>8, <1>9 DEF Coming, Met, ToSet
<1>11. /\ ToSet(Lineage(s, n)) = {Name(c) : c \in M}
       /\ Class(s, n) \in M \cup {None}
       /\ \A c \in M : \A p \in ToSet(c.sup) : Class(s, p) \in M \cup {None}
       /\ \A S \in SUBSET ClassSet(s) : Holds(s, n, S) => M \subseteq S
  BY <1>8, <1>9, <1>10 DEF Reaching
<1>12. CASE Class(s, n) = None
  <2>1. Holds(s, n, {})
    BY <1>12 DEF Holds
  <2>2. M = {}
    BY <1>11, <2>1
  <2>3. Ancestors(s, n) = {}
    BY <1>12 DEF Ancestors
  <2> QED
    BY <1>11, <2>2, <2>3
<1>13. CASE Class(s, n) # None
  <2> DEFINE Closed(S) ==
               /\ Class(s, n) \in S
               /\ \A c \in S : \A p \in ToSet(c.sup) : Class(s, p) \in S \cup {None}
  <2>1. Ancestors(s, n) = {c \in ClassSet(s) : \A S \in SUBSET ClassSet(s) : Closed(S) => c \in S}
    BY <1>13 DEF Ancestors, ClassSet
  <2>2. Closed(M)
    BY <1>11, <1>13
  <2>3. \A S : Closed(S) => Holds(s, n, S)
    BY DEF Holds
  <2> HIDE DEF Closed
  <2>4. Ancestors(s, n) \subseteq M
    BY <1>10, <2>1, <2>2
  <2>5. M \subseteq Ancestors(s, n)
    BY <1>10, <1>11, <2>1, <2>3
  <2>6. Ancestors(s, n) = M
    BY <2>4, <2>5
  <2> QED
    BY <1>10, <1>11, <2>6
<1> QED
  BY <1>12, <1>13

-----------------------------------------------------------------------------
(* What classes demand.                                                    *)

LEMMA ListedBegins ==
    ASSUME NEW s, NEW t, Listed(s), Listed(t), Begins(s, t)
    PROVE  \E S : s \in Seq(S) /\ t \in Seq(S)
<1>1. PICK S : S = ToSet(s) \cup ToSet(t)
  OBVIOUS
<1>2. s \in Seq(S) /\ t \in Seq(S)
  BY <1>1 DEF Listed
<1> QED
  BY <1>2

\* What is in one of several lists.
Every(lists) == UNION {ToSet(lists[i]) : i \in DOMAIN lists}

LEMMA EveryFacts ==
    ASSUME NEW lists, NEW i \in DOMAIN lists
    PROVE  ToSet(lists[i]) \subseteq Every(lists)
<1>1. PICK T : T = ToSet(lists[i])
  OBVIOUS
<1>2. T \in {ToSet(lists[j]) : j \in DOMAIN lists}
  BY <1>1
<1>3. T \subseteq UNION {ToSet(lists[j]) : j \in DOMAIN lists}
  BY <1>2
<1> QED
  BY <1>1, <1>3 DEF Every

\* A list of lists that begins another, flattened.
LEMMA ListsBegin ==
    ASSUME NEW ss, NEW tt, Listed(ss), Listed(tt), Begins(ss, tt),
           \A i \in DOMAIN ss : Listed(ss[i]), \A i \in DOMAIN tt : Listed(tt[i])
    PROVE  Begins(FlattenSeq(ss), FlattenSeq(tt))
<1>1. PICK S : S = Every(ss) \cup Every(tt)
  OBVIOUS
<1>2. \A i \in DOMAIN ss : ss[i] \in Seq(S)
  <2> SUFFICES ASSUME NEW i \in DOMAIN ss PROVE ss[i] \in Seq(S)
    OBVIOUS
  <2>1. ToSet(ss[i]) \subseteq S
    BY <1>1, EveryFacts
  <2> QED
    BY <2>1 DEF Listed
<1>3. \A i \in DOMAIN tt : tt[i] \in Seq(S)
  <2> SUFFICES ASSUME NEW i \in DOMAIN tt PROVE tt[i] \in Seq(S)
    OBVIOUS
  <2>1. ToSet(tt[i]) \subseteq S
    BY <1>1, EveryFacts
  <2> QED
    BY <2>1 DEF Listed
<1>4. ToSet(ss) \subseteq Seq(S) /\ ToSet(tt) \subseteq Seq(S)
  BY <1>2, <1>3 DEF ToSet
<1>5. ss \in Seq(Seq(S)) /\ tt \in Seq(Seq(S))
  BY <1>4 DEF Listed
<1> QED
  BY <1>5, FlattenBegins

LEMMA CanonicalFacts ==
    ASSUME NEW s, NEW lists, Listed(lists), \A i \in DOMAIN lists : Listed(lists[i])
    PROVE  /\ Listed(Canonical(s, lists)) /\ Different(Canonical(s, lists))
           /\ {Lower[a] : a \in ToSet(Canonical(s, lists))}
                = {Lower[CanonAttr(s, a)] : a \in UNION {ToSet(lists[i]) : i \in DOMAIN lists}}
           /\ \A a \in ToSet(Canonical(s, lists)) : \E x : a = CanonAttr(s, x)
<1> DEFINE named == [i \in DOMAIN lists |-> [j \in DOMAIN lists[i] |-> CanonAttr(s, lists[i][j])]]
<1>1. PICK ss : ss = named
  OBVIOUS
<1>2. /\ Len(lists) \in Nat /\ DOMAIN lists = 1 .. Len(lists) /\ DOMAIN ss = DOMAIN lists
      /\ \A i \in DOMAIN lists : ss[i] = [j \in DOMAIN lists[i] |-> CanonAttr(s, lists[i][j])]
  BY <1>1, ListedFacts
<1>3. ASSUME NEW i \in DOMAIN lists
      PROVE  Listed(ss[i]) /\ ToSet(ss[i]) = {CanonAttr(s, a) : a \in ToSet(lists[i])}
  <2>1. PICK list, t : list = lists[i] /\ t = ss[i] /\ Listed(list)
    OBVIOUS
  <2>2. Len(list) \in Nat /\ DOMAIN list = 1 .. Len(list) /\ t = [j \in DOMAIN list |-> CanonAttr(s, list[j])]
    BY <1>2, <2>1, ListedFacts
  <2>3. t \in Seq({CanonAttr(s, list[j]) : j \in DOMAIN list})
    BY <2>2
  <2>4. ToSet(t) = {CanonAttr(s, a) : a \in ToSet(list)}
    BY <2>2 DEF ToSet
  <2> QED
    BY <2>1, <2>3, <2>4, ListedFacts
<1>4. Listed(ss)
  <2>1. ss \in Seq({ss[i] : i \in DOMAIN lists})
    <3> HIDE DEF named
    <3>1. ss \in [1 .. Len(lists) -> {ss[i] : i \in DOMAIN lists}]
      BY <1>1, <1>2 DEF named
    <3> QED
      BY <1>2, <3>1
  <2> QED
    BY <2>1, ListedFacts
<1>5. /\ Listed(FlattenSeq(ss))
      /\ ToSet(FlattenSeq(ss)) = UNION {ToSet(ss[i]) : i \in DOMAIN ss}
  BY <1>2, <1>3, <1>4, FlattenElements
<1>6. PICK flat : flat = FlattenSeq(ss)
  OBVIOUS
<1>7. Canonical(s, lists) = Once(flat)
  BY <1>1, <1>6 DEF Canonical
<1>8. /\ Once(flat) \in Seq(ToSet(flat)) /\ Different(Once(flat))
      /\ {Lower[a] : a \in ToSet(Once(flat))} = {Lower[a] : a \in ToSet(flat)}
  BY <1>5, <1>6, OnceFacts
<1>9. ToSet(flat) = {CanonAttr(s, a) : a \in UNION {ToSet(lists[i]) : i \in DOMAIN lists}}
  BY <1>2, <1>3, <1>5, <1>6
<1>10. {Lower[a] : a \in ToSet(flat)}
         = {Lower[CanonAttr(s, a)] : a \in UNION {ToSet(lists[i]) : i \in DOMAIN lists}}
  BY <1>9
<1>11. ToSet(Once(flat)) \subseteq ToSet(flat)
  BY <1>8, ListedFacts
<1>12. \A a \in ToSet(Once(flat)) : \E x : a = CanonAttr(s, x)
  BY <1>9, <1>11
<1> QED
  BY <1>7, <1>8, <1>10, <1>12, ListedFacts

LEMMA CanonicalBegins ==
    ASSUME NEW s, NEW lists, Listed(lists), \A i \in DOMAIN lists : Listed(lists[i]),
           NEW longer, Listed(longer), \A i \in DOMAIN longer : Listed(longer[i]), Begins(lists, longer)
    PROVE  Begins(Canonical(s, lists), Canonical(s, longer))
<1> DEFINE Named(ls) == [i \in DOMAIN ls |-> [j \in DOMAIN ls[i] |-> CanonAttr(s, ls[i][j])]]
<1>1. ASSUME NEW ls, Listed(ls), \A i \in DOMAIN ls : Listed(ls[i])
      PROVE  /\ Listed(Named(ls)) /\ Len(Named(ls)) = Len(ls) /\ DOMAIN Named(ls) = DOMAIN ls
             /\ \A i \in DOMAIN ls : Listed(Named(ls)[i])
  <2>1. Len(ls) \in Nat /\ DOMAIN ls = 1 .. Len(ls)
    BY <1>1, ListedFacts
  <2>2. ASSUME NEW i \in DOMAIN ls PROVE Listed(Named(ls)[i])
    <3>1. PICK list : list = ls[i] /\ Listed(list)
      BY <1>1
    <3>2. Len(list) \in Nat /\ DOMAIN list = 1 .. Len(list)
      BY <3>1, ListedFacts
    <3>3. PICK t : t = [j \in DOMAIN list |-> CanonAttr(s, list[j])]
      OBVIOUS
    <3>4. t \in Seq({CanonAttr(s, list[j]) : j \in DOMAIN list})
      BY <3>2, <3>3
    <3>5. Named(ls)[i] = t
      BY <3>1, <3>3
    <3> QED
      BY <3>4, <3>5, ListedFacts
  <2>3. PICK ss : ss = Named(ls)
    OBVIOUS
  <2>4. DOMAIN ss = DOMAIN ls /\ ss = [i \in DOMAIN ls |-> ss[i]]
    BY <2>3
  <2>5. ss \in Seq({ss[i] : i \in DOMAIN ls}) /\ Len(ss) = Len(ls)
    <3> HIDE DEF Named
    <3>1. ss \in [1 .. Len(ls) -> {ss[i] : i \in DOMAIN ls}]
      BY <2>1, <2>4
    <3> QED
      BY <2>1, <3>1
  <2> HIDE DEF Named
  <2>6. Listed(ss)
    BY <2>5, ListedFacts
  <2> QED
    BY <2>2, <2>3, <2>4, <2>5, <2>6
<1>2. PICK ss, tt : ss = Named(lists) /\ tt = Named(longer)
  OBVIOUS
<1>3. /\ Listed(ss) /\ Len(ss) = Len(lists) /\ DOMAIN ss = DOMAIN lists
      /\ Listed(tt) /\ Len(tt) = Len(longer) /\ DOMAIN tt = DOMAIN longer
      /\ \A i \in DOMAIN ss : Listed(ss[i])
      /\ \A i \in DOMAIN tt : Listed(tt[i])
  <2> HIDE DEF Named
  <2> QED
    BY <1>1, <1>2
<1>4. Begins(ss, tt)
  <2>1. /\ Len(lists) \in Nat /\ DOMAIN lists = 1 .. Len(lists)
        /\ Len(longer) \in Nat /\ DOMAIN longer = 1 .. Len(longer)
    BY ListedFacts
  <2>2. ASSUME NEW i \in 1 .. Len(lists) PROVE ss[i] = tt[i]
    <3>1. i \in DOMAIN lists /\ i \in DOMAIN longer /\ lists[i] = longer[i]
      BY <2>1 DEF Begins
    <3>2. ss[i] = [j \in DOMAIN lists[i] |-> CanonAttr(s, lists[i][j])]
      BY <1>2, <3>1
    <3>3. tt[i] = [j \in DOMAIN longer[i] |-> CanonAttr(s, longer[i][j])]
      BY <1>2, <3>1
    <3> QED
      BY <3>1, <3>2, <3>3
  <2> HIDE DEF Named
  <2> QED
    BY <1>3, <2>2 DEF Begins
<1> HIDE DEF Named
<1>5. PICK flat, all : flat = FlattenSeq(ss) /\ all = FlattenSeq(tt)
  OBVIOUS
<1>6. Listed(flat) /\ Listed(all)
  BY <1>3, <1>5, FlattenElements
<1>7. Begins(flat, all)
  BY <1>3, <1>4, <1>5, ListsBegin
<1>8. Begins(Once(flat), Once(all))
  <2>1. PICK S : flat \in Seq(S) /\ all \in Seq(S)
    BY <1>6, <1>7, ListedBegins
  <2> QED
    BY <1>7, <2>1, OnceBegins
<1>9. Canonical(s, lists) = Once(flat) /\ Canonical(s, longer) = Once(all)
  BY <1>2, <1>5 DEF Canonical, Named
<1> QED
  BY <1>8, <1>9

LEMMA LinesFacts ==
    ASSUME NEW s, SchemaSound(s), NEW classes, Listed(classes)
    PROVE  /\ Listed(Lines(s, classes))
           /\ ToSet(Lines(s, classes)) = UNION {ToSet(Lineage(s, n)) : n \in ToSet(classes)}
           /\ \A a \in ToSet(Lines(s, classes)) : \E c \in ClassSet(s) : a = Name(c)
<1>1. PICK ss : ss = [i \in DOMAIN classes |-> Lineage(s, classes[i])]
  OBVIOUS
<1>2. Len(classes) \in Nat /\ DOMAIN classes = 1 .. Len(classes) /\ DOMAIN ss = DOMAIN classes
  BY <1>1, ListedFacts
<1>3. ss \in Seq({Lineage(s, n) : n \in ToSet(classes)})
  BY <1>1, <1>2 DEF ToSet
<1>4. Listed(ss) /\ \A i \in DOMAIN ss : Listed(ss[i])
  BY <1>1, <1>2, <1>3, ListedFacts, LineageType
<1>5. /\ Listed(FlattenSeq(ss))
      /\ ToSet(FlattenSeq(ss)) = UNION {ToSet(ss[i]) : i \in DOMAIN ss}
  BY <1>4, FlattenElements
<1>6. Lines(s, classes) = FlattenSeq(ss)
  BY <1>1 DEF Lines
<1>7. UNION {ToSet(ss[i]) : i \in DOMAIN ss} = UNION {ToSet(Lineage(s, n)) : n \in ToSet(classes)}
  <2>1. {ToSet(ss[i]) : i \in DOMAIN ss} = {ToSet(Lineage(s, classes[i])) : i \in DOMAIN classes}
    BY <1>1
  <2>2. ToSet(classes) = {classes[i] : i \in DOMAIN classes}
    BY DEF ToSet
  <2>3. {ToSet(Lineage(s, n)) : n \in ToSet(classes)} = {ToSet(Lineage(s, classes[i])) : i \in DOMAIN classes}
    BY <2>2
  <2> QED
    BY <2>1, <2>3
<1>8. \A n : \A a \in ToSet(Lineage(s, n)) : \E c \in ClassSet(s) : a = Name(c)
  BY LineageType
<1> QED
  BY <1>5, <1>6, <1>7, <1>8

LEMMA LinesBegin ==
    ASSUME NEW s, SchemaSound(s), NEW classes, Listed(classes), NEW more, Listed(more),
           Begins(classes, more)
    PROVE  Begins(Lines(s, classes), Lines(s, more))
<1>1. PICK ss, tt : /\ ss = [i \in DOMAIN classes |-> Lineage(s, classes[i])]
                    /\ tt = [i \in DOMAIN more |-> Lineage(s, more[i])]
  OBVIOUS
<1>2. /\ Len(classes) \in Nat /\ DOMAIN classes = 1 .. Len(classes)
      /\ Len(more) \in Nat /\ DOMAIN more = 1 .. Len(more)
  BY ListedFacts
<1>3. /\ ss \in Seq({Lineage(s, n) : n \in ToSet(classes)}) /\ Len(ss) = Len(classes)
      /\ tt \in Seq({Lineage(s, n) : n \in ToSet(more)}) /\ Len(tt) = Len(more)
  BY <1>1, <1>2 DEF ToSet
<1>4. Listed(ss) /\ Listed(tt)
  BY <1>3, ListedFacts
<1>5. (\A i \in DOMAIN ss : Listed(ss[i])) /\ (\A i \in DOMAIN tt : Listed(tt[i]))
  BY <1>1, LineageType
<1>6. Begins(ss, tt)
  <2>1. \A i \in 1 .. Len(classes) : i \in DOMAIN classes /\ i \in DOMAIN more /\ classes[i] = more[i]
    BY <1>2 DEF Begins
  <2>2. \A i \in 1 .. Len(classes) : ss[i] = tt[i]
    BY <1>1, <2>1
  <2> QED
    BY <1>3, <2>2 DEF Begins
<1> QED
  BY <1>1, <1>4, <1>5, <1>6, ListsBegin DEF Lines

\* What each class of a line lists as required.
Demands(s, lines) == [i \in DOMAIN lines |-> Class(s, lines[i]).must]

LEMMA DemandsFacts ==
    ASSUME NEW s, SchemaSound(s), NEW lines, Listed(lines),
           \A a \in ToSet(lines) : \E c \in ClassSet(s) : a = Name(c)
    PROVE  /\ Listed(Demands(s, lines)) /\ Len(Demands(s, lines)) = Len(lines)
           /\ \A i \in DOMAIN Demands(s, lines) : Listed(Demands(s, lines)[i])
           /\ Every(Demands(s, lines)) = UNION {ToSet(Class(s, a).must) : a \in ToSet(lines)}
<1>1. PICK ss : ss = Demands(s, lines)
  OBVIOUS
<1>2. Len(lines) \in Nat /\ DOMAIN lines = 1 .. Len(lines)
  BY ListedFacts
<1>3. DOMAIN ss = DOMAIN lines /\ \A i \in DOMAIN lines : ss[i] = Class(s, lines[i]).must
  BY <1>1 DEF Demands
<1>4. ss \in Seq({Class(s, a).must : a \in ToSet(lines)}) /\ Len(ss) = Len(lines)
  <2>1. ss = [i \in 1 .. Len(lines) |-> Class(s, lines[i]).must]
    BY <1>1, <1>2 DEF Demands
  <2>2. \A i \in 1 .. Len(lines) : lines[i] \in ToSet(lines)
    BY <1>2 DEF ToSet
  <2> QED
    BY <1>2, <2>1, <2>2
<1>5. ASSUME NEW i \in DOMAIN lines PROVE Listed(ss[i])
  <2>1. lines[i] \in ToSet(lines)
    BY DEF ToSet
  <2>2. PICK c \in ClassSet(s) : lines[i] = Name(c)
    BY <2>1
  <2>3. Class(s, Name(c)) \in ClassSet(s)
    BY ClassFacts
  <2>4. ClassSound(Class(s, lines[i]))
    BY <2>2, <2>3, ClassFacts
  <2> QED
    BY <1>3, <2>4 DEF ClassSound
<1>6. Every(ss) = UNION {ToSet(Class(s, a).must) : a \in ToSet(lines)}
  <2>1. {ToSet(ss[i]) : i \in DOMAIN ss} = {ToSet(Class(s, a).must) : a \in ToSet(lines)}
    BY <1>3 DEF ToSet
  <2> QED
    BY <2>1 DEF Every
<1>7. Listed(ss)
  BY <1>4, ListedFacts
<1>8. \A i \in DOMAIN ss : Listed(ss[i])
  BY <1>3, <1>5
<1> QED
  BY <1>1, <1>4, <1>6, <1>7, <1>8

LEMMA MustFacts ==
    ASSUME NEW s, SchemaSound(s), NEW classes, Listed(classes)
    PROVE  /\ Listed(Must(s, classes)) /\ Different(Must(s, classes))
           /\ \A a \in ToSet(Must(s, classes)) : \E x : a = CanonAttr(s, x)
           /\ NamesApart(s) =>
                {Lower[a] : a \in ToSet(Must(s, classes))} = Demanded(s, ToSet(classes))
<1>1. PICK lines : lines = Lines(s, classes)
  OBVIOUS
<1>2. Listed(lines) /\ \A a \in ToSet(lines) : \E c \in ClassSet(s) : a = Name(c)
  BY <1>1, LinesFacts
<1>3. PICK lists : lists = Demands(s, lines)
  OBVIOUS
<1>4. /\ Listed(lists) /\ \A i \in DOMAIN lists : Listed(lists[i])
      /\ Every(lists) = UNION {ToSet(Class(s, a).must) : a \in ToSet(lines)}
  BY <1>2, <1>3, DemandsFacts
<1>5. PICK must : must = Must(s, classes)
  OBVIOUS
<1>6. must = Canonical(s, lists)
  BY <1>1, <1>3, <1>5 DEF Must, Demands
<1>7. /\ Listed(must) /\ Different(must)
      /\ {Lower[a] : a \in ToSet(must)}
           = {Lower[CanonAttr(s, a)] : a \in Every(lists)}
      /\ \A a \in ToSet(must) : \E x : a = CanonAttr(s, x)
  BY <1>4, <1>6, CanonicalFacts DEF Every
<1>8. ASSUME NamesApart(s)
      PROVE  {Lower[a] : a \in ToSet(must)} = Demanded(s, ToSet(classes))
  <2>1. PICK C : C = UNION {Ancestors(s, n) : n \in ToSet(classes)}
    OBVIOUS
  <2>2. C \subseteq ClassSet(s)
    BY <1>8, <2>1, LineageAncestors
  <2>3. ToSet(lines) = UNION {ToSet(Lineage(s, n)) : n \in ToSet(classes)}
    BY <1>1, LinesFacts
  <2>4. \A n \in ToSet(classes) : ToSet(Lineage(s, n)) = {Name(c) : c \in Ancestors(s, n)}
    BY <1>8, LineageAncestors
  <2>5. ToSet(lines) = {Name(c) : c \in C}
    BY <2>1, <2>3, <2>4
  <2>6. \A c \in C : Class(s, Name(c)) = c
    BY <1>8, <2>2, ClassFacts
  <2>7. UNION {ToSet(Class(s, a).must) : a \in ToSet(lines)} = UNION {ToSet(c.must) : c \in C}
    <3>1. {ToSet(Class(s, a).must) : a \in ToSet(lines)} = {ToSet(c.must) : c \in C}
      BY <2>5, <2>6
    <3> QED
      BY <3>1
  <2>8. Demanded(s, ToSet(classes)) = {Lower[CanonAttr(s, a)] : a \in UNION {ToSet(c.must) : c \in C}}
    BY <2>1 DEF Demanded
  <2> QED
    BY <1>4, <1>7, <2>7, <2>8
<1> QED
  BY <1>5, <1>7, <1>8

LEMMA MustBegins ==
    ASSUME NEW s, SchemaSound(s), NEW classes, Listed(classes), NEW more, Listed(more),
           Begins(classes, more)
    PROVE  Begins(Must(s, classes), Must(s, more))
<1>1. PICK lines, longer : lines = Lines(s, classes) /\ longer = Lines(s, more)
  OBVIOUS
<1>2. /\ Listed(lines) /\ \A a \in ToSet(lines) : \E c \in ClassSet(s) : a = Name(c)
      /\ Listed(longer) /\ \A a \in ToSet(longer) : \E c \in ClassSet(s) : a = Name(c)
  BY <1>1, LinesFacts
<1>3. Begins(lines, longer)
  BY <1>1, LinesBegin
<1>4. PICK ss, tt : ss = Demands(s, lines) /\ tt = Demands(s, longer)
  OBVIOUS
<1>5. /\ Listed(ss) /\ Len(ss) = Len(lines) /\ \A i \in DOMAIN ss : Listed(ss[i])
      /\ Listed(tt) /\ Len(tt) = Len(longer) /\ \A i \in DOMAIN tt : Listed(tt[i])
  BY <1>2, <1>4, DemandsFacts
<1>6. Begins(ss, tt)
  <2>1. /\ Len(lines) \in Nat /\ DOMAIN lines = 1 .. Len(lines)
        /\ Len(longer) \in Nat /\ DOMAIN longer = 1 .. Len(longer)
    BY <1>2, ListedFacts
  <2>2. \A i \in 1 .. Len(lines) : i \in DOMAIN lines /\ i \in DOMAIN longer /\ lines[i] = longer[i]
    BY <1>3, <2>1 DEF Begins
  <2>3. \A i \in 1 .. Len(lines) : ss[i] = tt[i]
    BY <1>4, <2>2 DEF Demands
  <2> QED
    BY <1>3, <1>5, <2>3 DEF Begins
<1>7. Begins(Canonical(s, ss), Canonical(s, tt))
  BY <1>5, <1>6, CanonicalBegins
<1> QED
  BY <1>1, <1>4, <1>7 DEF Must, Demands

-----------------------------------------------------------------------------
(* Lineages: each class once, and after one below it.                      *)

\* One of the classes noted names q as its superclass.
Below(s, out, q) == \E j \in DOMAIN out : q \in ToSet(Class(s, out[j]).sup)

\* Each class once, and after one that has it as a superclass.
InLine(s, out) ==
    /\ \A i, j \in DOMAIN out : out[i] = out[j] => i = j
    /\ \A i \in 2 .. Len(out) :
          \E j \in 1 .. i - 1 : \E p \in ToSet(Class(s, out[j]).sup) : Class(s, p) = Class(s, out[i])

LEMMA LineGrows ==
    ASSUME NEW s, SchemaSound(s), NamesApart(s), NEW O, NEW out \in Seq(O), InLine(s, out),
           NEW c \in ClassSet(s), Name(c) \in O \ ToSet(out),
           out = <<>> \/ \E q : Below(s, out, q) /\ Class(s, q) = c
    PROVE  LET line == Append(out, Name(c))
           IN  /\ InLine(s, line) /\ line # <<>>
               /\ \A q : Below(s, out, q) \/ q \in ToSet(c.sup) => Below(s, line, q)
<1>1. PICK line, L : line = Append(out, Name(c)) /\ L = Len(out)
  OBVIOUS
<1>2. /\ L \in Nat /\ DOMAIN out = 1 .. L /\ DOMAIN line = 1 .. L + 1 /\ Len(line) = L + 1
      /\ line[L + 1] = Name(c) /\ \A i \in 1 .. L : line[i] = out[i]
  BY <1>1
<1>3. \A i \in DOMAIN line : i = L + 1 \/ i \in DOMAIN out
  BY <1>2
<1>4. L + 1 \in DOMAIN line /\ \A i \in DOMAIN out : i \in DOMAIN line /\ i # L + 1
  BY <1>2
<1>5. Class(s, line[L + 1]) = c
  BY <1>2, ClassFacts
<1>6. \A i \in DOMAIN out : out[i] # Name(c)
  BY DEF ToSet
<1>7. ASSUME NEW i \in DOMAIN line, NEW j \in DOMAIN line, line[i] = line[j] PROVE i = j
  BY <1>2, <1>3, <1>6, <1>7 DEF InLine
<1>8. ASSUME NEW q, Below(s, out, q) \/ q \in ToSet(c.sup) PROVE Below(s, line, q)
  <2>1. CASE Below(s, out, q)
    BY <1>2, <1>4, <2>1 DEF Below
  <2>2. CASE q \in ToSet(c.sup)
    BY <1>4, <1>5, <2>2 DEF Below
  <2> QED
    BY <1>8, <2>1, <2>2
<1>9. ASSUME NEW i \in 2 .. Len(line)
      PROVE  \E j \in 1 .. i - 1 : \E p \in ToSet(Class(s, line[j]).sup) : Class(s, p) = Class(s, line[i])
  <2>1. CASE i = L + 1
    <3>1. L # 0
      BY <1>2, <1>9, <2>1
    <3>2. out # <<>>
      BY <1>1, <3>1
    <3>3. PICK q : Below(s, out, q) /\ Class(s, q) = c
      BY <3>2
    <3>4. PICK j \in DOMAIN out : q \in ToSet(Class(s, out[j]).sup)
      BY <3>3 DEF Below
    <3>5. j \in 1 .. i - 1 /\ line[j] = out[j]
      BY <1>2, <2>1, <3>4
    <3> QED
      BY <1>5, <2>1, <3>3, <3>4, <3>5
  <2>2. CASE i # L + 1
    <3>1. i \in 2 .. L /\ i \in 1 .. L /\ \A j \in 1 .. i - 1 : j \in 1 .. L
      BY <1>2, <1>9, <2>2
    <3>2. PICK j \in 1 .. i - 1 : \E p \in ToSet(Class(s, out[j]).sup) : Class(s, p) = Class(s, out[i])
      BY <1>1, <3>1 DEF InLine
    <3>3. line[j] = out[j] /\ line[i] = out[i]
      BY <1>2, <3>1, <3>2
    <3> QED
      BY <3>2, <3>3
  <2> QED
    BY <2>1, <2>2
<1>10. InLine(s, line)
  BY <1>7, <1>9 DEF InLine
<1>11. line # <<>>
  BY <1>2
<1> QED
  BY <1>1, <1>8, <1>10, <1>11

\* What is to come is a superclass of something noted, but for the first.
Ordered(s, n, v) ==
    /\ InLine(s, v.out)
    /\ v.out = <<>> => v.todo \in {<<>>, <<n>>}
    /\ v.out # <<>> => \A q \in ToSet(v.todo) : Below(s, v.out, q)

LEMMA OrderedStarts ==
    ASSUME NEW s, NEW n PROVE Ordered(s, n, Started(n))
<1>1. PICK v : v = Started(n)
  OBVIOUS
<1>2. v.todo = <<n>> /\ v.out = <<>>
  BY <1>1 DEF Started
<1>3. InLine(s, <<>>)
  BY DEF InLine
<1> QED
  BY <1>1, <1>2, <1>3 DEF Ordered

LEMMA OrderedGoesOn ==
    ASSUME NEW s, SchemaSound(s), NamesApart(s), NEW n, NEW v \in Walkers(s, n),
           Reaching(s, n, v), Ordered(s, n, v)
    PROVE  Ordered(s, n, Visit(s, v))
<1>1. PICK N, O : /\ N = Names(s, n) /\ O = {Name(c) : c \in ClassSet(s)}
                  /\ v.todo \in Seq(N) /\ v.out \in Seq(O)
  BY DEF Walkers
<1>2. PICK u : u = Visit(s, v)
  OBVIOUS
<1>3. PICK rest : rest = Tail(v.todo)
  OBVIOUS
<1>4. ASSUME v.todo # <<>>
      PROVE  /\ rest \in Seq(N) /\ ToSet(v.todo) = {Head(v.todo)} \cup ToSet(rest)
             /\ v.out = <<>> => rest = <<>>
  <2>1. rest \in Seq(N) /\ ToSet(v.todo) = {Head(v.todo)} \cup ToSet(rest)
    BY <1>1, <1>3, <1>4, HeadAndTail
  <2>2. ASSUME v.out = <<>> PROVE rest = <<>>
    <3>1. v.todo = <<n>>
      BY <1>4, <2>2 DEF Ordered
    <3> QED
      BY <1>3, <3>1
  <2> QED
    BY <2>1, <2>2
<1>5. CASE v.todo = <<>> /\ u = v
  BY <1>2, <1>5
<1>6. CASE Passes(s, v) /\ u = [todo |-> Tail(v.todo), out |-> v.out, seen |-> v.seen]
  <2>1. u.todo = rest /\ u.out = v.out /\ v.todo # <<>>
    BY <1>3, <1>6 DEF Passes
  <2> QED
    BY <1>2, <1>4, <2>1 DEF Ordered
<1>7. ASSUME NEW c \in ClassSet(s), Notices(s, v, c),
             u = [todo |-> c.sup \o Tail(v.todo), out |-> Append(v.out, Name(c)),
                  seen |-> v.seen \cup {Lower[c.oid]}]
      PROVE  Ordered(s, n, u)
  <2>1. u.todo = c.sup \o rest /\ u.out = Append(v.out, Name(c))
    <3>1. PICK r, o, z : /\ r = c.sup \o Tail(v.todo) /\ o = Append(v.out, Name(c))
                         /\ z = v.seen \cup {Lower[c.oid]}
      OBVIOUS
    <3>2. u = [todo |-> r, out |-> o, seen |-> z]
      BY <1>7, <3>1
    <3> QED
      BY <1>3, <3>1, <3>2
  <2>2. v.todo # <<>> /\ c = Class(s, Head(v.todo)) /\ Lower[c.oid] \notin v.seen
    BY <1>7 DEF Notices
  <2>3. Name(c) \in O \ ToSet(v.out)
    <3>1. ToSet(v.out) = {Name(d) : d \in Met(s, v)}
      BY DEF Reaching
    <3>2. c \notin Met(s, v) /\ Met(s, v) \subseteq ClassSet(s)
      BY <2>2 DEF Met
    <3>3. \A d \in ClassSet(s) : Name(d) = Name(c) => d = c
      BY ClassFacts
    <3> QED
      BY <1>1, <3>1, <3>2, <3>3
  <2>4. v.out = <<>> \/ Below(s, v.out, Head(v.todo))
    BY <1>4, <2>2 DEF Ordered
  <2>5. PICK out, line : out = v.out /\ line = Append(out, Name(c))
    OBVIOUS
  <2>6. /\ out \in Seq(O) /\ InLine(s, out) /\ Name(c) \in O \ ToSet(out)
        /\ out = <<>> \/ \E q : Below(s, out, q) /\ Class(s, q) = c
    BY <1>1, <2>2, <2>3, <2>4, <2>5 DEF Ordered
  <2>7. /\ InLine(s, line) /\ line # <<>>
        /\ \A q : Below(s, out, q) \/ q \in ToSet(c.sup) => Below(s, line, q)
    BY <2>5, <2>6, LineGrows
  <2>8. ToSet(u.todo) = ToSet(c.sup) \cup ToSet(rest)
    <3>1. Listed(c.sup) /\ ToSet(c.sup) \subseteq N
      BY <1>1, ClassFacts DEF ClassSound, Names
    <3>2. PICK p \in Seq(N) : p = c.sup
      BY <3>1 DEF Listed
    <3>3. ToSet(p \o rest) = ToSet(p) \cup ToSet(rest)
      BY <1>4, <2>2, ConcatElements
    <3> QED
      BY <2>1, <3>2, <3>3
  <2>9. ASSUME NEW q \in ToSet(rest) PROVE Below(s, line, q)
    <3>1. v.out # <<>>
      BY <1>4, <2>2, <2>9 DEF ToSet
    <3>2. Below(s, out, q)
      BY <1>4, <2>2, <2>5, <3>1 DEF Ordered
    <3> QED
      BY <2>7, <3>2
  <2> QED
    BY <2>1, <2>5, <2>7, <2>8, <2>9 DEF Ordered
<1>8. \/ v.todo = <<>> /\ u = v
      \/ Passes(s, v) /\ u = [todo |-> Tail(v.todo), out |-> v.out, seen |-> v.seen]
      \/ \E c \in ClassSet(s) :
            /\ Notices(s, v, c)
            /\ u = [todo |-> c.sup \o Tail(v.todo), out |-> Append(v.out, Name(c)),
                    seen |-> v.seen \cup {Lower[c.oid]}]
  BY <1>2, VisitCases
<1> QED
  BY <1>2, <1>5, <1>6, <1>7, <1>8

LEMMA LineageInLine ==
    ASSUME NEW s, SchemaSound(s), NamesApart(s), NEW n
    PROVE  LineageSound(s, n)
<1>1. Visits(s) \in Nat
  BY VisitsNat
<1>2. PICK w : Walks(w, s, n) /\ Lineage(s, n) = w[Visits(s)].out
  BY <1>1, LineageWalks
<1>3. \A i \in Nat : w[i] \in Walkers(s, n) /\ w[i + 1] = Visit(s, w[i])
  BY <1>2 DEF Walks
<1> DEFINE T == {i \in Nat : Reaching(s, n, w[i]) /\ Ordered(s, n, w[i])}
<1>4. 0 \in T
  BY <1>2, ReachingStarts, OrderedStarts DEF Walks
<1>5. ASSUME NEW i \in Nat, i \in T PROVE i + 1 \in T
  <2>1. PICK v \in Walkers(s, n) : v = w[i] /\ w[i + 1] = Visit(s, v)
    BY <1>3
  <2>2. Reaching(s, n, v) /\ Ordered(s, n, v)
    BY <1>5, <2>1
  <2>3. Reaching(s, n, Visit(s, v)) /\ Ordered(s, n, Visit(s, v))
    BY <2>2, ReachingGoesOn, OrderedGoesOn
  <2> QED
    BY <2>1, <2>3
<1>6. Visits(s) \in T
  <2> HIDE DEF T
  <2> QED
    BY <1>1, <1>4, <1>5, SetInduction
<1>7. InLine(s, Lineage(s, n))
  BY <1>2, <1>6 DEF Ordered
<1> QED
  BY <1>7, LineageAncestors DEF LineageSound, InLine

-----------------------------------------------------------------------------
(* What the classes require and allow.                                     *)

Above(s, classes) == UNION {Ancestors(s, n) : n \in ToSet(classes)}

\* What they list.
MustAbove(s, classes) == {Lower[CanonAttr(s, a)] : a \in UNION {ToSet(c.must) : c \in Above(s, classes)}}
MayAbove(s, classes) == {Lower[CanonAttr(s, a)] : a \in UNION {ToSet(c.may) : c \in Above(s, classes)}}

LEMMA AboveFacts ==
    ASSUME NEW s, SchemaSound(s), NamesApart(s), NEW classes, Listed(classes)
    PROVE  /\ Above(s, classes) \subseteq ClassSet(s)
           /\ ToSet(Lines(s, classes)) = {Name(c) : c \in Above(s, classes)}
           /\ \A c \in ClassSet(s) : Class(s, Name(c)) = c
<1>1. PICK C : C = Above(s, classes)
  OBVIOUS
<1>2. C = UNION {Ancestors(s, n) : n \in ToSet(classes)}
  BY <1>1 DEF Above
<1>3. C \subseteq ClassSet(s)
  BY <1>2, LineageAncestors
<1>4. ToSet(Lines(s, classes)) = UNION {ToSet(Lineage(s, n)) : n \in ToSet(classes)}
  BY LinesFacts
<1>5. \A n \in ToSet(classes) : ToSet(Lineage(s, n)) = {Name(c) : c \in Ancestors(s, n)}
  BY LineageAncestors
<1>6. ToSet(Lines(s, classes)) = {Name(c) : c \in C}
  BY <1>2, <1>4, <1>5
<1> QED
  BY <1>1, <1>3, <1>6, ClassFacts

\* What each class of a line lists as allowed.
Allows(s, lines) == [i \in DOMAIN lines |-> Class(s, lines[i]).may]

LEMMA AllowsFacts ==
    ASSUME NEW s, SchemaSound(s), NEW lines, Listed(lines),
           \A a \in ToSet(lines) : \E c \in ClassSet(s) : a = Name(c)
    PROVE  /\ Listed(Allows(s, lines))
           /\ \A i \in DOMAIN Allows(s, lines) : Listed(Allows(s, lines)[i])
           /\ Every(Allows(s, lines)) = UNION {ToSet(Class(s, a).may) : a \in ToSet(lines)}
<1>1. PICK ss : ss = Allows(s, lines)
  OBVIOUS
<1>2. Len(lines) \in Nat /\ DOMAIN lines = 1 .. Len(lines)
  BY ListedFacts
<1>3. DOMAIN ss = DOMAIN lines /\ \A i \in DOMAIN lines : ss[i] = Class(s, lines[i]).may
  BY <1>1 DEF Allows
<1>4. ss \in Seq({Class(s, a).may : a \in ToSet(lines)})
  <2>1. ss = [i \in 1 .. Len(lines) |-> Class(s, lines[i]).may]
    BY <1>1, <1>2 DEF Allows
  <2>2. \A i \in 1 .. Len(lines) : lines[i] \in ToSet(lines)
    BY <1>2 DEF ToSet
  <2> QED
    BY <1>2, <2>1, <2>2
<1>5. ASSUME NEW i \in DOMAIN lines PROVE Listed(ss[i])
  <2>1. PICK c \in ClassSet(s) : lines[i] = Name(c)
    BY DEF ToSet
  <2>2. ClassSound(Class(s, lines[i]))
    BY <2>1, ClassFacts
  <2> QED
    BY <1>3, <2>2 DEF ClassSound
<1>6. {ToSet(ss[i]) : i \in DOMAIN ss} = {ToSet(Class(s, a).may) : a \in ToSet(lines)}
  BY <1>3 DEF ToSet
<1>7. Every(ss) = UNION {ToSet(Class(s, a).may) : a \in ToSet(lines)}
  BY <1>6 DEF Every
<1> QED
  BY <1>1, <1>3, <1>4, <1>5, <1>7, ListedFacts

LEMMA MayFacts ==
    ASSUME NEW s, SchemaSound(s), NamesApart(s), NEW classes, Listed(classes)
    PROVE  /\ Listed(May(s, classes)) /\ Different(May(s, classes))
           /\ \A a \in ToSet(May(s, classes)) : \E x : a = CanonAttr(s, x)
           /\ {Lower[a] : a \in ToSet(May(s, classes))}
                = {Lower[CanonAttr(s, a)] : a \in UNION {ToSet(c.may) : c \in Above(s, classes)}}
<1>1. PICK lines, C : lines = Lines(s, classes) /\ C = Above(s, classes)
  OBVIOUS
<1>2. Listed(lines) /\ \A a \in ToSet(lines) : \E c \in ClassSet(s) : a = Name(c)
  BY <1>1, LinesFacts
<1>3. PICK lists, may : lists = Allows(s, lines) /\ may = May(s, classes)
  OBVIOUS
<1>4. /\ Listed(lists) /\ \A i \in DOMAIN lists : Listed(lists[i])
      /\ Every(lists) = UNION {ToSet(Class(s, a).may) : a \in ToSet(lines)}
  BY <1>2, <1>3, AllowsFacts
<1>5. may = Canonical(s, lists)
  BY <1>1, <1>3 DEF May, Allows
<1>6. /\ Listed(may) /\ Different(may)
      /\ {Lower[a] : a \in ToSet(may)} = {Lower[CanonAttr(s, a)] : a \in Every(lists)}
      /\ \A a \in ToSet(may) : \E x : a = CanonAttr(s, x)
  BY <1>4, <1>5, CanonicalFacts DEF Every
<1>7. ToSet(lines) = {Name(c) : c \in C} /\ \A c \in C : Class(s, Name(c)) = c
  BY <1>1, AboveFacts
<1>8. {ToSet(Class(s, a).may) : a \in ToSet(lines)} = {ToSet(c.may) : c \in C}
  BY <1>7
<1>9. Every(lists) = UNION {ToSet(c.may) : c \in C}
  BY <1>4, <1>8
<1> QED
  BY <1>1, <1>3, <1>6, <1>9

LEMMA DifferentConcat ==
    ASSUME NEW s, Listed(s), Different(s), NEW t, Listed(t), Different(t),
           \A a \in ToSet(s), b \in ToSet(t) : Lower[a] # Lower[b]
    PROVE  Different(s \o t) /\ ToSet(s \o t) = ToSet(s) \cup ToSet(t)
<1>1. PICK u, m, n : u = s \o t /\ m = Len(s) /\ n = Len(t)
  OBVIOUS
<1>2. PICK S : S = ToSet(s) \cup ToSet(t)
  OBVIOUS
<1>3. s \in Seq(S) /\ t \in Seq(S)
  BY <1>2 DEF Listed
<1>4. ToSet(u) = ToSet(s) \cup ToSet(t)
  BY <1>1, <1>3, ConcatElements
<1>5. /\ m \in Nat /\ n \in Nat /\ DOMAIN s = 1 .. m /\ DOMAIN t = 1 .. n /\ DOMAIN u = 1 .. m + n
      /\ \A i \in 1 .. m : u[i] = s[i]
      /\ \A i \in m + 1 .. m + n : u[i] = t[i - m]
  BY <1>1, <1>3
<1>6. ASSUME NEW i \in DOMAIN u
      PROVE  \/ i \in DOMAIN s /\ u[i] = s[i]
             \/ i - m \in DOMAIN t /\ u[i] = t[i - m]
  <2>1. CASE i <= m
    BY <1>5, <2>1
  <2>2. CASE i > m
    <3>1. i \in m + 1 .. m + n /\ i - m \in 1 .. n
      BY <1>5, <2>2
    <3> QED
      BY <1>5, <3>1
  <2> QED
    BY <1>5, <2>1, <2>2
<1>7. ASSUME NEW i \in DOMAIN u, NEW j \in DOMAIN u, Lower[u[i]] = Lower[u[j]] PROVE i = j
  <2>1. CASE i \in DOMAIN s /\ u[i] = s[i] /\ j \in DOMAIN s /\ u[j] = s[j]
    BY <1>7, <2>1 DEF Different
  <2>2. CASE i - m \in DOMAIN t /\ u[i] = t[i - m] /\ j - m \in DOMAIN t /\ u[j] = t[j - m]
    <3>1. i - m = j - m
      BY <1>7, <2>2 DEF Different
    <3>2. i \in Int /\ j \in Int /\ m \in Int
      BY <1>5
    <3> QED
      BY <3>1, <3>2
  <2>3. CASE i \in DOMAIN s /\ u[i] = s[i] /\ j - m \in DOMAIN t /\ u[j] = t[j - m]
    BY <1>7, <2>3 DEF ToSet
  <2>4. CASE i - m \in DOMAIN t /\ u[i] = t[i - m] /\ j \in DOMAIN s /\ u[j] = s[j]
    BY <1>7, <2>4 DEF ToSet
  <2> QED
    BY <1>6, <2>1, <2>2, <2>3, <2>4
<1> QED
  BY <1>1, <1>4, <1>7 DEF Different

\* The answer is what is required, and what is allowed apart from it.
LEMMA ResolveFacts ==
    ASSUME NEW s, SchemaSound(s), NamesApart(s), NEW classes, Listed(classes),
           NEW r, r = Resolve(s, classes)
    PROVE  /\ ToSet(r.must \o r.may) = ToSet(r.must) \cup ToSet(r.may)
           /\ {Lower[a] : a \in ToSet(r.must)} = MustAbove(s, classes)
           /\ {Lower[a] : a \in ToSet(r.may)} = MayAbove(s, classes) \ MustAbove(s, classes)
           /\ Different(r.must \o r.may)
           /\ \A a \in ToSet(r.must) \cup ToSet(r.may) : \E x : a = CanonAttr(s, x)
<1>1. PICK must, may : must = Must(s, classes) /\ may = May(s, classes)
  OBVIOUS
<1>2. PICK K : K = {a \in ToSet(may) : \A m \in ToSet(must) : Lower[m] # Lower[a]}
  OBVIOUS
<1>3. PICK rest : rest = Only(may, K)
  OBVIOUS
<1>4. r = [must |-> must, may |-> rest]
  BY <1>1, <1>2, <1>3 DEF Resolve
<1>5. r.must = must /\ r.may = rest
  BY <1>4
<1>6. /\ Listed(must) /\ Different(must)
      /\ \A a \in ToSet(must) : \E x : a = CanonAttr(s, x)
      /\ {Lower[a] : a \in ToSet(must)} = Demanded(s, ToSet(classes))
  BY <1>1, MustFacts
<1>7. /\ Listed(may) /\ Different(may)
      /\ \A a \in ToSet(may) : \E x : a = CanonAttr(s, x)
      /\ {Lower[a] : a \in ToSet(may)} = MayAbove(s, classes)
  BY <1>1, MayFacts DEF MayAbove
<1>8. rest \in Seq(ToSet(may)) /\ ToSet(rest) = ToSet(may) \cap K /\ Different(rest)
  BY <1>3, <1>7, OnlyFacts
<1>9. Listed(rest)
  BY <1>8, ListedFacts
<1>10. \A a \in ToSet(must), b \in ToSet(rest) : Lower[a] # Lower[b]
  BY <1>2, <1>8
<1>11. Different(must \o rest) /\ ToSet(must \o rest) = ToSet(must) \cup ToSet(rest)
  BY <1>6, <1>8, <1>9, <1>10, DifferentConcat
<1>12. {Lower[a] : a \in ToSet(rest)} = {Lower[a] : a \in ToSet(may)} \ {Lower[a] : a \in ToSet(must)}
  BY <1>2, <1>8
<1>13. Demanded(s, ToSet(classes)) = MustAbove(s, classes)
  BY DEF Demanded, Above, MustAbove
<1> QED
  BY <1>5, <1>6, <1>7, <1>8, <1>11, <1>12, <1>13

LEMMA InheritanceFacts ==
    ASSUME NEW s, SchemaSound(s), NamesApart(s), NEW classes, Listed(classes)
    PROVE  InheritanceSound(s, classes)
<1>1. PICK r : r = Resolve(s, classes)
  OBVIOUS
<1>2. PICK C, D, E : C = Above(s, classes) /\ D = MustAbove(s, classes) /\ E = MayAbove(s, classes)
  OBVIOUS
<1>3. /\ D = {Lower[CanonAttr(s, a)] : a \in UNION {ToSet(c.must) : c \in C}}
      /\ E = {Lower[CanonAttr(s, a)] : a \in UNION {ToSet(c.may) : c \in C}}
  BY <1>2 DEF MustAbove, MayAbove
<1>4. /\ ToSet(r.must \o r.may) = ToSet(r.must) \cup ToSet(r.may)
      /\ {Lower[a] : a \in ToSet(r.must)} = D /\ {Lower[a] : a \in ToSet(r.may)} = E \ D
      /\ Different(r.must \o r.may)
  BY <1>1, <1>2, ResolveFacts
<1>5. Demanded(s, ToSet(classes)) = D
  BY <1>2, <1>3 DEF Demanded, Above
<1>6. Allowed(s, ToSet(classes)) = D \cup E
  <2>1. Allowed(s, ToSet(classes))
          = {Lower[CanonAttr(s, a)] : a \in UNION {ToSet(c.must) \cup ToSet(c.may) : c \in C}}
    BY <1>2 DEF Allowed, Above
  <2>2. UNION {ToSet(c.must) \cup ToSet(c.may) : c \in C}
          = (UNION {ToSet(c.must) : c \in C}) \cup (UNION {ToSet(c.may) : c \in C})
    OBVIOUS
  <2> QED
    BY <1>3, <2>1, <2>2
<1>7. {Lower[a] : a \in ToSet(r.must \o r.may)} = D \cup E
  BY <1>4
<1> QED
  BY <1>1, <1>4, <1>5, <1>6, <1>7 DEF InheritanceSound, Different

-----------------------------------------------------------------------------
(* Attributes, and the classes that use them.                              *)

AttrSet(s) == ToSet(s.AttrList)
AttrSound(a) == a.oid # "" /\ Listed(a.names)
AttrsSound(s) ==
    /\ \A a \in AttrSet(s) : AttrSound(a) /\ Keys(a) \subseteq DOMAIN s.Attrs
    /\ \A k \in DOMAIN s.Attrs : s.Attrs[k] \in AttrSet(s)

LEMMA AttrOfSound ==
    ASSUME NEW S, NEW t \in Seq(S), HasHeader(t)
    PROVE  AttrSound(AttrOf(t))
<1>1. PICK c : c = Clauses(AttrWords, t)
  OBVIOUS
<1>2. Listed(Said(c, "NAME", <<>>))
  BY <1>1, ClausesListed, ListedFacts DEF Said
<1>3. 2 \in DOMAIN t /\ t[2].s # ""
  BY DEF HasHeader, Peek, Tok
<1>4. PICK d : d = AttrOf(t)
  OBVIOUS
<1>5. d.oid = t[2].s /\ d.names = Said(c, "NAME", <<>>)
  BY <1>1, <1>4 DEF AttrOf
<1> QED
  BY <1>2, <1>3, <1>4, <1>5 DEF AttrSound

LEMMA ParseAttrs ==
    ASSUME NEW v \in Servers
    PROVE  AttrsSound(Parse(v.classes, v.attrs))
<1>1. PICK texts \in Seq(Seq(Token)) : texts = v.attrs
  BY ServersAssumption
<1>2. PICK heads : heads = Headed(texts)
  OBVIOUS
<1>3. heads \in Seq(ToSet(texts)) /\ \A t \in ToSet(heads) : t \in Seq(Token) /\ HasHeader(t)
  BY <1>2, HeadedFacts
<1>4. PICK as : as = AttrsOf(texts)
  OBVIOUS
<1>5. as = [i \in DOMAIN heads |-> AttrOf(heads[i])]
  BY <1>2, <1>4 DEF AttrsOf
<1>6. Len(heads) \in Nat /\ DOMAIN heads = 1 .. Len(heads)
  BY <1>3, LenProperties
<1>7. Listed(as) /\ \A a \in ToSet(as) : AttrSound(a)
  <2>1. as \in Seq({AttrOf(t) : t \in ToSet(heads)})
    BY <1>5, <1>6 DEF ToSet
  <2>2. Listed(as) /\ ToSet(as) \subseteq {AttrOf(t) : t \in ToSet(heads)}
    BY <2>1, ListedFacts
  <2>3. \A t \in ToSet(heads) : AttrSound(AttrOf(t))
    BY <1>3, AttrOfSound
  <2> QED
    BY <2>2, <2>3
<1>8. PICK s : s = Parse(v.classes, v.attrs)
  OBVIOUS
<1>9. s.AttrList = as /\ s.Attrs = Index(as)
  BY <1>1, <1>4, <1>8 DEF Parse
<1>10. AttrsSound(s)
  BY <1>7, <1>9, IndexFacts DEF AttrsSound, AttrSet
<1> QED
  BY <1>8, <1>10

LEMMA AttrFacts ==
    ASSUME NEW s, AttrsSound(s)
    PROVE  /\ \A n : Attr(s, n) = None \/ Attr(s, n) \in AttrSet(s)
           /\ \A a \in AttrSet(s) : a # None
           /\ NamesApart(s) /\ NamesPlain(s) => \A a \in AttrSet(s) : Attr(s, Name(a)) = a
<1>1. \A a \in AttrSet(s) : a # None
  <2>1. \A a \in AttrSet(s) : AttrSound(a)
    BY DEF AttrsSound
  <2>2. None.oid = ""
    BY DEF None
  <2>3. \A a : AttrSound(a) => a.oid # ""
    BY DEF AttrSound
  <2> QED
    BY <2>1, <2>2, <2>3, Zenon
<1>2. \A n : Attr(s, n) = None \/ Attr(s, n) \in AttrSet(s)
  BY DEF AttrsSound, Attr, Lookup
<1>3. ASSUME NEW a \in AttrSet(s) PROVE Lower[Name(a)] \in Keys(a)
  <2>1. Listed(a.names)
    BY DEF AttrsSound, AttrSound
  <2>2. a.names # <<>> => a.names[1] \in ToSet(a.names)
    BY <2>1 DEF Listed
  <2> QED
    BY <2>2 DEF Name, Keys
<1>4. ASSUME NamesApart(s), NamesPlain(s), NEW a \in AttrSet(s) PROVE Attr(s, Name(a)) = a
  <2>1. PICK k : k = Lower[Name(a)] /\ k \in Keys(a)
    BY <1>3
  <2>2. Stem[k] = k /\ k \in DOMAIN s.Attrs /\ s.Attrs[k] = a
    BY <1>4, <2>1 DEF NamesApart, NamesPlain, AttrsSound, AttrSet
  <2> QED
    BY <2>1, <2>2 DEF Attr, Lookup
<1> QED
  BY <1>1, <1>2, <1>4

\* A name that was replaced by its attribute's is not replaced again.
LEMMA CanonAgain ==
    ASSUME NEW s, AttrsSound(s), NamesApart(s), NamesPlain(s), NEW x
    PROVE  CanonAttr(s, CanonAttr(s, x)) = CanonAttr(s, x)
<1>1. CASE Attr(s, x) = None
  BY <1>1 DEF CanonAttr
<1>2. CASE Attr(s, x) # None
  <2>1. PICK a \in AttrSet(s) : a = Attr(s, x)
    BY <1>2, AttrFacts
  <2>2. CanonAttr(s, x) = Name(a)
    BY <1>2, <2>1 DEF CanonAttr
  <2>3. Attr(s, Name(a)) = a /\ a # None
    BY AttrFacts
  <2> QED
    BY <2>2, <2>3 DEF CanonAttr
<1> QED
  BY <1>1, <1>2

UserOf(s, a, names) == \E b \in ToSet(names) : Lower[CanonAttr(s, b)] = Lower[a]

LEMMA UseFacts ==
    ASSUME NEW s, SchemaSound(s), AttrsSound(s), NamesApart(s), NamesPlain(s),
           NEW classes, Listed(classes)
    PROVE  UseSound(s, classes)
<1>1. PICK r : r = Resolve(s, classes)
  OBVIOUS
<1>2. PICK C, D, E : C = Above(s, classes) /\ D = MustAbove(s, classes) /\ E = MayAbove(s, classes)
  OBVIOUS
<1>3. /\ D = {Lower[CanonAttr(s, a)] : a \in UNION {ToSet(c.must) : c \in C}}
      /\ E = {Lower[CanonAttr(s, a)] : a \in UNION {ToSet(c.may) : c \in C}}
  BY <1>2 DEF MustAbove, MayAbove
<1>4. /\ ToSet(r.must \o r.may) = ToSet(r.must) \cup ToSet(r.may)
      /\ {Lower[a] : a \in ToSet(r.must)} = D /\ {Lower[a] : a \in ToSet(r.may)} = E \ D
      /\ Different(r.must \o r.may)
  BY <1>1, <1>2, ResolveFacts
<1>5. \A a \in ToSet(r.must) \cup ToSet(r.may) : \E x : a = CanonAttr(s, x)
  BY <1>1, ResolveFacts
<1>6. C \subseteq ClassSet(s) /\ \A c \in ClassSet(s) : Class(s, Name(c)) = c
  BY <1>2, AboveFacts
<1>7. \A n : Ancestors(s, n) \subseteq ClassSet(s) /\ ToSet(Lineage(s, n)) = {Name(c) : c \in Ancestors(s, n)}
  BY LineageAncestors
<1>8. ASSUME NEW S \in SUBSET ClassSet(s)
      PROVE  (\E n \in ToSet(classes) : {Name(c) : c \in S} \cap ToSet(Lineage(s, n)) # {}) <=> S \cap C # {}
  <2>1. ASSUME NEW n \in ToSet(classes), {Name(c) : c \in S} \cap ToSet(Lineage(s, n)) # {}
        PROVE  S \cap C # {}
    <3>1. PICK c \in S, d \in Ancestors(s, n) : Name(c) = Name(d)
      BY <1>7, <2>1
    <3>2. c = d
      BY <1>6, <1>7, <3>1
    <3> QED
      BY <1>2, <2>1, <3>1, <3>2 DEF Above
  <2>2. ASSUME S \cap C # {}
        PROVE  \E n \in ToSet(classes) : {Name(c) : c \in S} \cap ToSet(Lineage(s, n)) # {}
    <3>1. PICK c \in S, n \in ToSet(classes) : c \in Ancestors(s, n)
      BY <1>2, <2>2 DEF Above
    <3>2. Name(c) \in {Name(d) : d \in S} \cap ToSet(Lineage(s, n))
      BY <1>7, <3>1
    <3> QED
      BY <3>2
  <2> QED
    BY <2>1, <2>2
<1>9. ASSUME NEW a \in ToSet(r.must \o r.may)
      PROVE  /\ a \in ToSet(r.must) <=>
                   \E n \in ToSet(classes) : UsedBy(s, a).must \cap ToSet(Lineage(s, n)) # {}
             /\ a \in ToSet(r.may) =>
                   \E n \in ToSet(classes) : UsedBy(s, a).may \cap ToSet(Lineage(s, n)) # {}
  <2>1. CanonAttr(s, a) = a
    BY <1>4, <1>5, CanonAgain
  <2>2. PICK M, Y : /\ M = {c \in ClassSet(s) : UserOf(s, a, c.must)}
                    /\ Y = {c \in ClassSet(s) : UserOf(s, a, c.may)}
    OBVIOUS
  <2>3. UsedBy(s, a).must = {Name(c) : c \in M} /\ UsedBy(s, a).may = {Name(c) : c \in Y}
    BY <2>1, <2>2 DEF UsedBy, UserOf, ClassSet
  <2>4. M \cap C # {} <=> Lower[a] \in D
    BY <1>3, <1>6, <2>2 DEF UserOf
  <2>5. Y \cap C # {} <=> Lower[a] \in E
    BY <1>3, <1>6, <2>2 DEF UserOf
  <2>6. a \in ToSet(r.must) <=> Lower[a] \in D
    BY <1>4, <1>9
  <2>7. a \in ToSet(r.may) => Lower[a] \in E
    BY <1>4
  <2>8. M \in SUBSET ClassSet(s) /\ Y \in SUBSET ClassSet(s)
    BY <2>2
  <2> QED
    BY <1>8, <2>3, <2>4, <2>5, <2>6, <2>7, <2>8
<1> QED
  BY <1>1, <1>9 DEF UseSound

-----------------------------------------------------------------------------
(* What an attribute inherits.                                             *)

\* What may be found of each sort, and of all.
Found(s, f) == {Unset} \cup {a.own[f] : a \in AttrSet(s)}
Outs(s) == {h \in [Inherited -> UNION {Found(s, f) : f \in Inherited}] :
               \A f \in Inherited : h[f] \in Found(s, f)}
Climbers(s) == {[cur |-> a, out |-> h] : a \in AttrSet(s) \cup {None}, h \in Outs(s)}
Bottom(a) == [cur |-> a, out |-> Filled(Nothing, a)]
Climbs(w, s, n) ==
    /\ w[0] = Bottom(Attr(s, n))
    /\ \A i \in Nat : w[i] \in Climbers(s) /\ w[i + 1] = Climb(s, w[i])

LEMMA NearestFacts ==
    \A v, p : /\ v = Unset => Nearest(v, p) = p
              /\ v # Unset => Nearest(v, p) = v
BY DEF Nearest

LEMMA OutsFacts ==
    ASSUME NEW s, NEW h, \A f \in Inherited : h[f] \in Found(s, f), h = [f \in Inherited |-> h[f]]
    PROVE  h \in Outs(s)
<1>1. PICK U : U = UNION {Found(s, f) : f \in Inherited}
  OBVIOUS
<1>2. ASSUME NEW f \in Inherited PROVE h[f] \in U
  <2>1. PICK F : F = Found(s, f) /\ h[f] \in F
    OBVIOUS
  <2>2. F \in {Found(s, g) : g \in Inherited}
    BY <2>1
  <2> QED
    BY <1>1, <2>1, <2>2
<1>3. h \in [Inherited -> U]
  BY <1>2
<1> QED
  BY <1>1, <1>3 DEF Outs

LEMMA FilledFacts ==
    ASSUME NEW s, NEW h \in Outs(s), NEW a \in AttrSet(s) \cup {None}
    PROVE  /\ Filled(h, a) \in Outs(s)
           /\ a = None => Filled(h, a) = h
           /\ a # None => \A f \in Inherited : Filled(h, a)[f] = Nearest(h[f], a.own[f])
<1>1. CASE a = None
  BY <1>1 DEF Filled
<1>2. CASE a # None
  <2>1. PICK g : g = Filled(h, a)
    OBVIOUS
  <2>2. g = [f \in Inherited |-> Nearest(h[f], a.own[f])]
    BY <1>2, <2>1 DEF Filled
  <2>3. \A f \in Inherited : g[f] = Nearest(h[f], a.own[f])
    BY <2>2
  <2>4. ASSUME NEW f \in Inherited PROVE g[f] \in Found(s, f)
    <3>1. h[f] \in Found(s, f)
      BY DEF Outs
    <3>2. a.own[f] \in Found(s, f)
      BY <1>2 DEF Found
    <3>3. g[f] = h[f] \/ g[f] = a.own[f]
      BY <2>3, NearestFacts
    <3> QED
      BY <3>1, <3>2, <3>3
  <2>5. g = [f \in Inherited |-> g[f]]
    BY <2>2
  <2>6. g \in Outs(s)
    BY <2>4, <2>5, OutsFacts
  <2> QED
    BY <1>2, <2>1, <2>3, <2>6
<1> QED
  BY <1>1, <1>2

LEMMA NothingFacts ==
    ASSUME NEW s
    PROVE  Nothing \in Outs(s) /\ \A f \in Inherited : Nothing[f] = Unset
<1>1. PICK h : h = Nothing
  OBVIOUS
<1>2. h = [f \in Inherited |-> Unset]
  BY <1>1 DEF Nothing
<1>3. \A f \in Inherited : h[f] = Unset /\ Unset \in Found(s, f)
  BY <1>2 DEF Found
<1>4. h = [f \in Inherited |-> h[f]]
  BY <1>2
<1>5. h \in Outs(s)
  BY <1>3, <1>4, OutsFacts
<1> QED
  BY <1>1, <1>3, <1>5

LEMMA SuperiorFacts ==
    ASSUME NEW s, AttrsSound(s)
    PROVE  /\ \A a : Superior(s, a) \in AttrSet(s) \cup {None}
           /\ Superior(s, None) = None
           /\ \A a \in AttrSet(s) : a.sup = Unset \/ Attr(s, a.sup) = None => Superior(s, a) = None
           /\ \A a \in AttrSet(s) : a.sup # Unset => Superior(s, a) = Attr(s, a.sup)
<1>1. \A n : Attr(s, n) \in AttrSet(s) \cup {None}
  BY AttrFacts
<1>2. \A a \in AttrSet(s) : a # None
  BY AttrFacts
<1> QED
  BY <1>1, <1>2 DEF Superior

LEMMA ClimbFacts ==
    ASSUME NEW s, AttrsSound(s), NEW v \in Climbers(s)
    PROVE  /\ Climb(s, v) \in Climbers(s)
           /\ v.cur \in AttrSet(s) \cup {None} /\ v.out \in Outs(s)
           /\ Climb(s, v).cur = Superior(s, v.cur)
           /\ Climb(s, v).out = Filled(v.out, Superior(s, v.cur))
<1>1. PICK a \in AttrSet(s) \cup {None}, h \in Outs(s) : v = [cur |-> a, out |-> h]
  BY DEF Climbers
<1>2. v.cur = a /\ v.out = h
  BY <1>1
<1>3. PICK p \in AttrSet(s) \cup {None} : p = Superior(s, a)
  BY SuperiorFacts
<1>4. PICK g \in Outs(s) : g = Filled(h, p)
  BY FilledFacts
<1>5. Climb(s, v) = [cur |-> p, out |-> g]
  BY <1>2, <1>3, <1>4 DEF Climb
<1> QED
  BY <1>2, <1>3, <1>4, <1>5 DEF Climbers

LEMMA BottomFacts ==
    ASSUME NEW s, NEW a \in AttrSet(s) \cup {None}
    PROVE  /\ Bottom(a) \in Climbers(s)
           /\ Bottom(a).cur = a /\ Bottom(a).out = Filled(Nothing, a)
<1>1. PICK g \in Outs(s) : g = Filled(Nothing, a)
  BY NothingFacts, FilledFacts
<1>2. Bottom(a) = [cur |-> a, out |-> g]
  BY <1>1 DEF Bottom
<1> QED
  BY <1>1, <1>2 DEF Climbers

LEMMA EffectiveClimbs ==
    ASSUME NEW s, AttrsSound(s), NEW n
    PROVE  \E w : Climbs(w, s, n) /\ Effective(s, n) = w[SupSteps].out
<1> DEFINE Step(w, i) == IF i = 0 THEN [cur |-> Attr(s, n), out |-> Filled(Nothing, Attr(s, n))]
                         ELSE Climb(s, w[i - 1])
           Solves(h) == h = [i \in Nat |-> Step(h, i)]
           Walk == CHOOSE h : Solves(h)
           V == Climbers(s)
           g == [i \in Nat |-> [v \in V |-> Climb(s, v)]]
<1>1. Effective(s, n) = Walk[SupSteps].out
  BY DEF Effective
<1>2. PICK b \in V : b = Bottom(Attr(s, n))
  BY AttrFacts, BottomFacts
<1>3. \A v \in V : Climb(s, v) \in V
  BY ClimbFacts
<1>4. g \in [Nat -> [V -> V]]
  BY <1>3
<1>5. PICK w : Recursive(w, V, b, g)
  <2> HIDE DEF g, V
  <2> QED
    BY <1>2, <1>4, Recursion
<1>6. /\ w \in [Nat -> V] /\ w[0] = b
      /\ \A i \in Nat : w[i + 1] = g[i][w[i]]
  <2> HIDE DEF g, V
  <2> QED
    BY <1>5 DEF Recursive
<1>7. ASSUME NEW i \in Nat PROVE w[i] \in V /\ w[i + 1] = Climb(s, w[i])
  <2>1. w[i] \in V
    BY <1>6
  <2>2. g[i][w[i]] = Climb(s, w[i])
    BY <2>1
  <2> HIDE DEF g, V
  <2> QED
    BY <1>6, <2>1, <2>2
<1>8. Step(w, 0) = b
  BY <1>2 DEF Bottom
<1>9. Solves(w)
  <2>1. ASSUME NEW i \in Nat PROVE w[i] = Step(w, i)
    <3>1. CASE i = 0
      <4> HIDE DEF Step, V, g
      <4> QED
        BY <1>6, <1>8, <3>1
    <3>2. CASE i # 0
      <4>1. i - 1 \in Nat /\ (i - 1) + 1 = i
        BY <3>2
      <4>2. w[i] = Climb(s, w[i - 1])
        BY <1>7, <4>1
      <4> QED
        BY <3>2, <4>2
    <3> QED
      BY <3>1, <3>2
  <2> HIDE DEF Step, V, g
  <2> QED
    BY <1>6, <2>1
<1>10. Solves(Walk)
  <2> HIDE DEF Solves
  <2> QED
    BY <1>9
<1>11. \A i \in Nat : Walk[i] = Step(Walk, i)
  <2> HIDE DEF Walk, Step
  <2> QED
    BY <1>10
<1>12. Step(Walk, 0) = b
  <2> HIDE DEF Walk
  <2> QED
    BY <1>2 DEF Bottom
<1>13. ASSUME NEW i \in Nat PROVE Step(Walk, i + 1) = Climb(s, Walk[i])
  <2>1. i + 1 # 0 /\ (i + 1) - 1 = i
    OBVIOUS
  <2> HIDE DEF Walk
  <2> QED
    BY <2>1
<1> HIDE DEF Walk, Step, Solves, g
<1>14. Climbs(Walk, s, n)
  <2>1. Walk[0] = b
    BY <1>11, <1>12
  <2>2. \A i \in Nat : Walk[i + 1] = Climb(s, Walk[i])
    <3>1. \A i \in Nat : i + 1 \in Nat
      OBVIOUS
    <3> QED
      BY <1>11, <1>13, <3>1
  <2> DEFINE T == {i \in Nat : Walk[i] \in V}
  <2>3. 0 \in T
    BY <1>2, <2>1
  <2>4. ASSUME NEW i \in Nat, i \in T PROVE i + 1 \in T
    BY <1>3, <2>2, <2>4
  <2>5. \A i \in Nat : i \in T
    <3> HIDE DEF T
    <3> QED
      BY <2>3, <2>4, SetInduction
  <2>6. \A i \in Nat : Walk[i] \in V
    BY <2>5
  <2> QED
    BY <1>2, <2>1, <2>2, <2>6 DEF Climbs
<1> QED
  BY <1>1, <1>14

\* What a climb meets and has at each step.
LEMMA ClimbsFacts ==
    ASSUME NEW s, AttrsSound(s), NEW n, NEW w, Climbs(w, s, n)
    PROVE  /\ w[0].cur = Attr(s, n) /\ w[0].out = Filled(Nothing, Attr(s, n))
           /\ \A i \in Nat : /\ w[i].cur \in AttrSet(s) \cup {None} /\ w[i].out \in Outs(s)
                             /\ w[i + 1].cur = Superior(s, w[i].cur)
                             /\ w[i + 1].out = Filled(w[i].out, Superior(s, w[i].cur))
<1>1. w[0].cur = Attr(s, n) /\ w[0].out = Filled(Nothing, Attr(s, n))
  BY AttrFacts, BottomFacts DEF Climbs
<1>2. ASSUME NEW i \in Nat
      PROVE  /\ w[i].cur \in AttrSet(s) \cup {None} /\ w[i].out \in Outs(s)
             /\ w[i + 1].cur = Superior(s, w[i].cur)
             /\ w[i + 1].out = Filled(w[i].out, Superior(s, w[i].cur))
  BY ClimbFacts DEF Climbs
<1> QED
  BY <1>1, <1>2

\* A value that was found stays.
LEMMA ValueStays ==
    ASSUME NEW s, AttrsSound(s), NEW n, NEW w, Climbs(w, s, n), NEW f \in Inherited,
           w[0].out[f] # Unset, NEW i \in Nat
    PROVE  w[i].out[f] = w[0].out[f]
<1> DEFINE T == {j \in Nat : w[j].out[f] = w[0].out[f]}
<1>1. 0 \in T
  OBVIOUS
<1>2. ASSUME NEW j \in Nat, j \in T PROVE j + 1 \in T
  <2>1. PICK h \in Outs(s), p \in AttrSet(s) \cup {None} : h = w[j].out /\ w[j + 1].out = Filled(h, p)
    BY ClimbsFacts, SuperiorFacts
  <2>2. Filled(h, p)[f] = h[f] \/ Filled(h, p)[f] = Nearest(h[f], p.own[f])
    BY FilledFacts
  <2>3. h[f] = w[0].out[f]
    BY <1>2, <2>1
  <2>4. Filled(h, p)[f] = h[f]
    BY <2>2, <2>3, NearestFacts
  <2> QED
    BY <2>1, <2>3, <2>4
<1>3. \A j \in Nat : j \in T
  <2> HIDE DEF T
  <2> QED
    BY <1>1, <1>2, SetInduction
<1> QED
  BY <1>3

\* Nothing is met above the end of the links.
LEMMA StaysAbove ==
    ASSUME NEW s, AttrsSound(s), NEW n, NEW w, Climbs(w, s, n), NEW m \in Nat, w[m].cur = None,
           NEW i \in Nat, m <= i
    PROVE  w[i].cur = None
<1> DEFINE T == {j \in Nat : m <= j => w[j].cur = None}
<1>1. 0 \in T
  OBVIOUS
<1>2. ASSUME NEW j \in Nat, j \in T PROVE j + 1 \in T
  <2>1. CASE m <= j
    BY <1>2, <2>1, ClimbsFacts, SuperiorFacts
  <2>2. CASE ~(m <= j)
    <3>1. m <= j + 1 => m = j + 1
      BY <2>2
    <3> QED
      BY <3>1
  <2> QED
    BY <2>1, <2>2
<1>3. \A j \in Nat : j \in T
  <2> HIDE DEF T
  <2> QED
    BY <1>1, <1>2, SetInduction
<1> QED
  BY <1>3

\* Where the links end a climb has nothing more to meet.
LEMMA EndMeets ==
    ASSUME NEW s, AttrsSound(s), NEW n, NEW w, Climbs(w, s, n), NEW a \in AttrSet(s), a = Attr(s, n),
           NEW k \in Nat, Ends(s, a, k)
    PROVE  w[k].cur = None
<1> DEFINE Leads(path, l) ==
      /\ path[1] = a
      /\ \A i \in 1 .. l - 1 : path[i].sup # Unset /\ Attr(s, path[i].sup) = path[i + 1]
      /\ path[l].sup = Unset \/ Attr(s, path[l].sup) = None
<1>1. PICK m \in 1 .. k : \E path \in [1 .. m -> AttrSet(s)] : Leads(path, Len(path))
  BY DEF Ends, AttrSet
<1>2. PICK path \in [1 .. m -> AttrSet(s)] : Leads(path, Len(path))
  BY <1>1
<1>3. m \in Nat /\ 1 <= m /\ m <= k
  OBVIOUS
<1>4. Len(path) = m
  <2> HIDE DEF Leads
  <2>1. path \in Seq(AttrSet(s)) /\ DOMAIN path = 1 .. m
    BY <1>3
  <2>2. Len(path) \in Nat /\ DOMAIN path = 1 .. Len(path)
    BY <2>1, LenProperties
  <2> QED
    BY <1>3, <2>1, <2>2
<1>5. /\ path[1] = a
      /\ \A i \in 1 .. m - 1 : path[i].sup # Unset /\ Attr(s, path[i].sup) = path[i + 1]
      /\ path[m].sup = Unset \/ Attr(s, path[m].sup) = None
  <2>1. Leads(path, m)
    <3> HIDE DEF Leads
    <3> QED
      BY <1>2, <1>4
  <2> QED
    BY <2>1
<1> HIDE DEF Leads
<1> DEFINE T == {j \in Nat : j < m => w[j].cur = path[j + 1]}
<1>6. 0 \in T
  <2>1. w[0].cur = a
    BY ClimbsFacts
  <2>2. path[0 + 1] = a
    BY <1>5
  <2> QED
    BY <2>1, <2>2
<1>7. ASSUME NEW j \in Nat, j \in T PROVE j + 1 \in T
  <2>1. ASSUME j + 1 < m PROVE w[j + 1].cur = path[(j + 1) + 1]
    <3>1. j < m /\ j + 1 \in 1 .. m - 1 /\ j + 1 \in 1 .. m
      BY <1>3, <2>1
    <3>2. PICK p \in AttrSet(s) : p = path[j + 1] /\ w[j].cur = p
      BY <1>7, <3>1
    <3>3. p.sup # Unset /\ Attr(s, p.sup) = path[(j + 1) + 1]
      BY <1>5, <3>1, <3>2
    <3>4. w[j + 1].cur = Superior(s, w[j].cur)
      BY ClimbsFacts
    <3>5. Superior(s, p) = Attr(s, p.sup)
      BY <3>3, SuperiorFacts
    <3> QED
      BY <3>2, <3>3, <3>4, <3>5
  <2> QED
    BY <2>1
<1>8. \A j \in Nat : j \in T
  <2> HIDE DEF T
  <2> QED
    BY <1>6, <1>7, SetInduction
<1>9. w[m].cur = None
  <2>1. m - 1 \in Nat /\ m - 1 < m /\ (m - 1) + 1 = m /\ m \in 1 .. m
    BY <1>3
  <2>2. w[m - 1].cur = path[m]
    BY <1>8, <2>1
  <2>3. PICK p \in AttrSet(s) : p = path[m] /\ w[m - 1].cur = p
    BY <2>1, <2>2
  <2>4. Superior(s, p) = None
    BY <1>5, <2>3, SuperiorFacts
  <2>5. w[(m - 1) + 1].cur = Superior(s, w[m - 1].cur)
    BY <2>1, ClimbsFacts
  <2> QED
    BY <2>1, <2>3, <2>4, <2>5
<1> QED
  BY <1>3, <1>9, StaysAbove

\* Above an attribute that says nothing itself a climb goes like the one from
\* its superior.
LEMMA SameAbove ==
    ASSUME NEW s, AttrsSound(s), NEW n, NEW w, Climbs(w, s, n), NEW a \in AttrSet(s), a = Attr(s, n),
           a.sup # Unset, NEW u, Climbs(u, s, a.sup), Attr(s, a.sup) # None,
           NEW f \in Inherited, a.own[f] = Unset, NEW i \in Nat
    PROVE  w[i + 1].cur = u[i].cur /\ w[i + 1].out[f] = u[i].out[f]
<1> DEFINE T == {j \in Nat : w[j + 1].cur = u[j].cur /\ w[j + 1].out[f] = u[j].out[f]}
<1>1. a # None
  BY AttrFacts
<1>2. 0 \in T
  <2>1. PICK p \in AttrSet(s) : p = Attr(s, a.sup) /\ p # None
    BY AttrFacts
  <2>2. Superior(s, a) = p
    BY <2>1, SuperiorFacts
  <2>3. PICK h \in Outs(s) : h = w[0].out /\ w[0 + 1].cur = p /\ w[0 + 1].out = Filled(h, p)
    BY <2>2, ClimbsFacts
  <2>4. h[f] = Unset
    <3>1. h = Filled(Nothing, a)
      BY <2>3, ClimbsFacts
    <3>2. Nothing \in Outs(s) /\ Nothing[f] = Unset
      BY NothingFacts
    <3>3. Filled(Nothing, a)[f] = Nearest(Nothing[f], a.own[f])
      BY <1>1, <3>2, FilledFacts
    <3> QED
      BY <3>1, <3>2, <3>3, NearestFacts
  <2>5. Filled(h, p)[f] = p.own[f]
    <3>1. Filled(h, p)[f] = Nearest(h[f], p.own[f])
      BY <2>1, FilledFacts
    <3> QED
      BY <2>4, <3>1, NearestFacts
  <2>6. u[0].cur = p /\ u[0].out[f] = p.own[f]
    <3>1. u[0].cur = p /\ u[0].out = Filled(Nothing, p)
      BY <2>1, ClimbsFacts
    <3>2. Nothing \in Outs(s) /\ Nothing[f] = Unset
      BY NothingFacts
    <3>3. Filled(Nothing, p)[f] = Nearest(Nothing[f], p.own[f])
      BY <2>1, <3>2, FilledFacts
    <3> QED
      BY <3>1, <3>2, <3>3, NearestFacts
  <2> QED
    BY <2>3, <2>5, <2>6
<1>3. ASSUME NEW j \in Nat, j \in T PROVE j + 1 \in T
  <2>1. PICK c \in AttrSet(s) \cup {None} : c = u[j].cur /\ w[j + 1].cur = c
    BY <1>3, ClimbsFacts
  <2>2. PICK p \in AttrSet(s) \cup {None} : p = Superior(s, c)
    BY SuperiorFacts
  <2>3. PICK g \in Outs(s), h \in Outs(s) : g = w[j + 1].out /\ h = u[j].out /\ g[f] = h[f]
    BY <1>3, ClimbsFacts
  <2>4. /\ w[(j + 1) + 1].cur = p /\ w[(j + 1) + 1].out = Filled(g, p)
        /\ u[j + 1].cur = p /\ u[j + 1].out = Filled(h, p)
    BY <2>1, <2>2, <2>3, ClimbsFacts
  <2>5. Filled(g, p)[f] = Filled(h, p)[f]
    <3>1. CASE p = None
      BY <2>3, <3>1, FilledFacts
    <3>2. CASE p # None
      <4>1. Filled(g, p)[f] = Nearest(g[f], p.own[f]) /\ Filled(h, p)[f] = Nearest(h[f], p.own[f])
        BY <3>2, FilledFacts
      <4> QED
        BY <2>3, <4>1
    <3> QED
      BY <3>1, <3>2
  <2> QED
    BY <2>4, <2>5
<1>4. \A j \in Nat : j \in T
  <2> HIDE DEF T
  <2> QED
    BY <1>2, <1>3, SetInduction
<1> QED
  BY <1>4

\* Without a superior a climb adds nothing.
LEMMA NothingAbove ==
    ASSUME NEW s, AttrsSound(s), NEW n, NEW w, Climbs(w, s, n), NEW a \in AttrSet(s), a = Attr(s, n),
           a.sup = Unset \/ Attr(s, a.sup) = None, NEW i \in Nat
    PROVE  w[i].out = w[0].out
<1>1. w[1].cur = None
  <2>1. w[0 + 1].cur = Superior(s, a) /\ Superior(s, a) = None
    BY ClimbsFacts, SuperiorFacts
  <2> QED
    BY <2>1
<1> DEFINE T == {j \in Nat : w[j].out = w[0].out}
<1>2. 0 \in T
  OBVIOUS
<1>3. ASSUME NEW j \in Nat, j \in T PROVE j + 1 \in T
  <2>1. j + 1 \in Nat /\ 1 <= j + 1 /\ 1 \in Nat
    OBVIOUS
  <2>2. w[j + 1].cur = None
    BY <1>1, <2>1, StaysAbove
  <2>3. PICK h \in Outs(s) : h = w[j].out
    BY ClimbsFacts
  <2>4. w[j + 1].out = Filled(h, None)
    BY <2>2, <2>3, ClimbsFacts
  <2> QED
    BY <1>3, <2>3, <2>4, FilledFacts
<1>4. \A j \in Nat : j \in T
  <2> HIDE DEF T
  <2> QED
    BY <1>2, <1>3, SetInduction
<1> QED
  BY <1>4

LEMMA EffectiveFacts ==
    ASSUME NEW s, AttrsSound(s), NamesApart(s), NamesPlain(s), NEW a \in AttrSet(s)
    PROVE  EffectiveSound(s, a)
<1>1. a = Attr(s, Name(a)) /\ a # None
  BY AttrFacts
<1>2. PICK w : Climbs(w, s, Name(a)) /\ Effective(s, Name(a)) = w[SupSteps].out
  BY EffectiveClimbs
<1>3. PICK mine : mine = Effective(s, Name(a)) /\ mine = w[SupSteps].out /\ mine \in Outs(s)
  BY <1>2, SupStepsAssumption, ClimbsFacts
<1>4. PICK sup : sup = IF a.sup = Unset \/ Attr(s, a.sup) = None THEN Nothing ELSE Effective(s, a.sup)
  OBVIOUS
<1>5. ASSUME NEW f \in Inherited
      PROVE  w[0].out[f] = a.own[f]
  <2>1. w[0].out = Filled(Nothing, a)
    BY <1>1, <1>2, ClimbsFacts
  <2>2. Nothing \in Outs(s) /\ Nothing[f] = Unset
    BY NothingFacts
  <2>3. Filled(Nothing, a)[f] = Nearest(Nothing[f], a.own[f])
    BY <1>1, <2>2, FilledFacts
  <2> QED
    BY <2>1, <2>2, <2>3, NearestFacts
<1>6. ASSUME NEW f \in Inherited, a.own[f] # Unset PROVE mine[f] = a.own[f]
  BY <1>2, <1>3, <1>5, <1>6, SupStepsAssumption, ValueStays
<1>7. ASSUME NEW f \in Inherited, Ends(s, a, SupSteps + 1), a.own[f] = Unset PROVE mine[f] = sup[f]
  <2>1. CASE a.sup = Unset \/ Attr(s, a.sup) = None
    <3>1. w[SupSteps].out = w[0].out
      BY <1>1, <1>2, <2>1, SupStepsAssumption, NothingAbove
    <3>2. sup = Nothing /\ Nothing[f] = Unset
      BY <1>4, <2>1, NothingFacts
    <3> QED
      BY <1>3, <1>5, <1>7, <3>1, <3>2
  <2>2. CASE ~(a.sup = Unset \/ Attr(s, a.sup) = None)
    <3>1. PICK u : Climbs(u, s, a.sup) /\ Effective(s, a.sup) = u[SupSteps].out
      BY EffectiveClimbs
    <3>2. w[SupSteps + 1].out[f] = u[SupSteps].out[f]
      BY <1>1, <1>2, <1>7, <2>2, <3>1, SupStepsAssumption, SameAbove
    <3>3. w[SupSteps + 1].cur = None
      <4>1. SupSteps + 1 \in Nat
        BY SupStepsAssumption
      <4> QED
        BY <1>1, <1>2, <1>7, <4>1, EndMeets
    <3>4. w[SupSteps + 1].out = mine
      <4>1. w[SupSteps + 1].out = Filled(mine, None)
        BY <1>2, <1>3, <3>3, SupStepsAssumption, ClimbsFacts
      <4> QED
        BY <1>3, <4>1, FilledFacts
    <3>5. sup = u[SupSteps].out
      BY <1>4, <2>2, <3>1
    <3> QED
      BY <3>2, <3>4, <3>5
  <2> QED
    BY <2>1, <2>2
<1>8. \A f \in Inherited : mine[f] \in {Unset} \cup {b.own[f] : b \in ToSet(s.AttrList)}
  BY <1>3 DEF Outs, Found, AttrSet
<1> QED
  BY <1>3, <1>4, <1>6, <1>7, <1>8 DEF EffectiveSound

-----------------------------------------------------------------------------
(* The fields of the form.                                                 *)

LEMMA ShownFacts ==
    ASSUME NEW s, SchemaSound(s), NEW f, Listed(f.classes)
    PROVE  /\ Listed(Shown(f, s)) /\ Different(Shown(f, s))
           /\ NamesApart(s) =>
                {Lower[a] : a \in ToSet(Shown(f, s))}
                  = Demanded(s, ToSet(f.classes)) \ ({"objectclass"} \cup RDNSet(f))
<1>1. PICK must, R : must = Must(s, f.classes) /\ R = {"objectclass"} \cup RDNSet(f)
  OBVIOUS
<1>2. /\ Listed(must) /\ Different(must)
      /\ NamesApart(s) => {Lower[a] : a \in ToSet(must)} = Demanded(s, ToSet(f.classes))
  BY <1>1, MustFacts
<1>3. PICK K : K = {a \in ToSet(must) : Lower[a] \notin R}
  OBVIOUS
<1>4. Shown(f, s) = Only(must, K)
  BY <1>1, <1>3 DEF Shown
<1>5. /\ Only(must, K) \in Seq(ToSet(must)) /\ Different(Only(must, K))
      /\ ToSet(Only(must, K)) = ToSet(must) \cap K
  BY <1>2, OnlyFacts
<1>6. {Lower[a] : a \in ToSet(must) \cap K} = {Lower[a] : a \in ToSet(must)} \ R
  BY <1>3
<1> QED
  BY <1>1, <1>2, <1>4, <1>5, <1>6, ListedFacts

LEMMA ShownBegins ==
    ASSUME NEW s, SchemaSound(s), NEW f, Listed(f.classes), NEW g, Listed(g.classes),
           g.rdn = f.rdn, Begins(f.classes, g.classes)
    PROVE  Begins(Shown(f, s), Shown(g, s))
<1>1. PICK must, all, R : /\ must = Must(s, f.classes) /\ all = Must(s, g.classes)
                          /\ R = {"objectclass"} \cup RDNSet(f)
  OBVIOUS
<1>2. Listed(must) /\ Listed(all) /\ Begins(must, all)
  BY <1>1, MustFacts, MustBegins
<1>3. PICK K, L : K = {a \in ToSet(must) : Lower[a] \notin R} /\ L = {a \in ToSet(all) : Lower[a] \notin R}
  OBVIOUS
<1>4. RDNSet(g) = RDNSet(f)
  BY DEF RDNSet
<1>5. Shown(f, s) = Only(must, K) /\ Shown(g, s) = Only(all, L)
  BY <1>1, <1>3, <1>4 DEF Shown
<1>6. PICK S : must \in Seq(S) /\ all \in Seq(S)
  BY <1>2, ListedBegins
<1>7. \A i \in 1 .. Len(must) : must[i] \in K <=> must[i] \in L
  <2>1. DOMAIN must = 1 .. Len(must)
    BY <1>6, LenProperties
  <2>2. \A i \in DOMAIN must : i \in DOMAIN all /\ must[i] = all[i]
    BY <1>2, <1>6, BeginsElements
  <2>3. \A i \in DOMAIN must : must[i] \in ToSet(must) /\ must[i] \in ToSet(all)
    BY <2>2 DEF ToSet
  <2> QED
    BY <1>3, <2>1, <2>3
<1> QED
  BY <1>2, <1>5, <1>6, <1>7, OnlyBegins

\* Without classes nothing is shown.
LEMMA NothingShown ==
    ASSUME NEW s, SchemaSound(s), NEW f, f.classes = <<>>
    PROVE  Shown(f, s) = <<>>
<1>1. PICK lines : lines = Lines(s, f.classes)
  OBVIOUS
<1>2. ToSet(lines) = {} /\ Listed(lines)
  <2>1. Listed(f.classes) /\ ToSet(f.classes) = {}
    BY ListedFacts DEF ToSet
  <2>2. ToSet(lines) = UNION {ToSet(Lineage(s, n)) : n \in {}} /\ Listed(lines)
    BY <1>1, <2>1, LinesFacts
  <2> QED
    BY <2>2
<1>3. PICK lists : lists = Demands(s, lines)
  OBVIOUS
<1>4. DOMAIN lists = {} /\ Listed(lists)
  <2>1. DOMAIN lines = {}
    BY <1>2 DEF ToSet
  <2>2. DOMAIN lists = {}
    BY <1>3, <2>1 DEF Demands
  <2>3. \A a \in ToSet(lines) : \E c \in ClassSet(s) : a = Name(c)
    BY <1>2
  <2> QED
    BY <1>2, <1>3, <2>2, <2>3, DemandsFacts
<1>5. PICK must : must = Must(s, f.classes)
  OBVIOUS
<1>6. must = Canonical(s, lists)
  BY <1>1, <1>3, <1>5 DEF Must, Demands
<1>7. Every(lists) = {}
  BY <1>4 DEF Every
<1>8. Listed(must) /\ {Lower[a] : a \in ToSet(must)} = {Lower[CanonAttr(s, a)] : a \in {}}
  BY <1>4, <1>6, <1>7, CanonicalFacts DEF Every
<1>9. ToSet(must) = {}
  BY <1>8
<1>10. PICK shown, K : shown = Shown(f, s) /\ shown = Only(must, K)
  BY <1>5 DEF Shown
<1>11. shown \in Seq(ToSet(must))
  BY <1>8, <1>10, OnlyFacts
<1>12. shown = <<>>
  BY <1>9, <1>11
<1> QED
  BY <1>10, <1>12

-----------------------------------------------------------------------------
(* The form.                                                               *)

Shaped(f) ==
    f = [parent |-> f.parent, rdn |-> f.rdn, classes |-> f.classes, req |-> f.req,
         extra |-> f.extra, idx |-> f.idx]
Labels(f) == [i \in DOMAIN f.req |-> f.req[i].label]
Field(r) == r = [label |-> r.label, val |-> r.val] /\ r.val \in Values

\* A form whose fields are told apart.
FormSound(f) ==
    /\ Shaped(f) /\ Listed(f.classes) /\ Listed(f.req)
    /\ \A i \in DOMAIN f.req : Field(f.req[i])
    /\ Different(Labels(f))

\* The same but for one part.
SameForm(f, g) ==
    /\ g.parent = f.parent /\ g.rdn = f.rdn /\ g.classes = f.classes
    /\ g.extra = f.extra /\ g.idx = f.idx

LEMMA ShapeFacts ==
    ASSUME NEW f, Shaped(f), NEW x
    PROVE  /\ Shaped([f EXCEPT !.parent = x]) /\ Shaped([f EXCEPT !.rdn = x])
           /\ Shaped([f EXCEPT !.classes = x]) /\ Shaped([f EXCEPT !.req = x])
           /\ Shaped([f EXCEPT !.extra = x]) /\ Shaped([f EXCEPT !.idx = x])
           /\ [f EXCEPT !.classes = x].classes = x /\ [f EXCEPT !.req = x].req = x
           /\ [f EXCEPT !.idx = x].idx = x
<1>1. PICK p, r, c, q, e, i :
         f = [parent |-> p, rdn |-> r, classes |-> c, req |-> q, extra |-> e, idx |-> i]
  BY DEF Shaped
<1>2. Shaped([f EXCEPT !.parent = x]) /\ Shaped([f EXCEPT !.rdn = x])
  BY <1>1 DEF Shaped
<1>3. Shaped([f EXCEPT !.classes = x]) /\ [f EXCEPT !.classes = x].classes = x
  BY <1>1 DEF Shaped
<1>4. Shaped([f EXCEPT !.req = x]) /\ [f EXCEPT !.req = x].req = x
  BY <1>1 DEF Shaped
<1>5. Shaped([f EXCEPT !.extra = x])
  BY <1>1 DEF Shaped
<1>6. Shaped([f EXCEPT !.idx = x]) /\ [f EXCEPT !.idx = x].idx = x
  BY <1>1 DEF Shaped
<1> QED
  BY <1>2, <1>3, <1>4, <1>5, <1>6

LEMMA ReqReplaced ==
    ASSUME NEW f, Shaped(f), NEW x
    PROVE  SameForm(f, [f EXCEPT !.req = x])
<1>1. PICK p, r, c, q, e, i :
         f = [parent |-> p, rdn |-> r, classes |-> c, req |-> q, extra |-> e, idx |-> i]
  BY DEF Shaped
<1> QED
  BY <1>1 DEF SameForm

\* What was typed for a label stays with it.
Keeps(f, g) ==
    \A r \in ToSet(f.req), q \in ToSet(g.req) : r.label = q.label => r.val = q.val

LEMMA RebuiltFacts ==
    ASSUME NEW s, s # None => SchemaSound(s), NEW f, FormSound(f)
    PROVE  /\ FormSound(Rebuilt(f, s)) /\ SameForm(f, Rebuilt(f, s)) /\ Keeps(f, Rebuilt(f, s))
           /\ s # None => Labels(Rebuilt(f, s)) = Shown(Rebuilt(f, s), s)
           /\ s # None => Labels(Rebuilt(f, s)) = Shown(f, s)
           /\ s = None => Rebuilt(f, s) = f
<1>1. CASE s = None
  <2>1. Rebuilt(f, s) = f
    BY <1>1 DEF Rebuilt
  <2>2. ASSUME NEW r \in ToSet(f.req), NEW q \in ToSet(f.req), r.label = q.label PROVE r = q
    <3>1. PICK i \in DOMAIN f.req, j \in DOMAIN f.req : r = f.req[i] /\ q = f.req[j]
      BY DEF ToSet
    <3>2. i \in DOMAIN Labels(f) /\ j \in DOMAIN Labels(f) /\ Labels(f)[i] = Labels(f)[j]
      BY <2>2, <3>1 DEF Labels
    <3>3. Different(Labels(f))
      BY DEF FormSound
    <3>4. i = j
      BY <3>2, <3>3 DEF Different
    <3> QED
      BY <3>1, <3>4
  <2> QED
    BY <1>1, <2>1, <2>2 DEF SameForm, Keeps
<1>2. CASE s # None
  <2>1. PICK shown : shown = Shown(f, s)
    OBVIOUS
  <2>2. SchemaSound(s) /\ Listed(f.classes) /\ Shaped(f)
    BY <1>2 DEF FormSound
  <2>3. Listed(shown) /\ Different(shown)
    BY <2>1, <2>2, ShownFacts
  <2>4. Len(shown) \in Nat /\ DOMAIN shown = 1 .. Len(shown) /\ shown = [i \in DOMAIN shown |-> shown[i]]
    BY <2>3, ListedFacts DEF Listed
  <2> DEFINE Typed(a) == {r \in Known(f) : Lower[r.label] = Lower[a]}
             KeptOf(a) == IF Typed(a) = {} THEN "" ELSE (CHOOSE r \in Typed(a) : TRUE).val
  <2>5. PICK req : req = [i \in DOMAIN shown |-> [label |-> shown[i], val |-> KeptOf(shown[i])]]
    OBVIOUS
  <2>6. PICK g : g = [f EXCEPT !.req = req]
    OBVIOUS
  <2>7. Rebuilt(f, s) = g
    BY <1>2, <2>1, <2>5, <2>6 DEF Rebuilt
  <2>8. Shaped(g) /\ g.req = req /\ SameForm(f, g)
    BY <2>2, <2>6, ShapeFacts, ReqReplaced
  <2>9. Labels(g) = shown
    <3>1. DOMAIN req = DOMAIN shown /\ \A i \in DOMAIN shown : req[i].label = shown[i]
      BY <2>5
    <3>2. Labels(g) = [i \in DOMAIN shown |-> shown[i]]
      BY <2>8, <3>1 DEF Labels
    <3> QED
      BY <2>4, <3>2
  <2>10. ASSUME NEW a PROVE KeptOf(a) \in Values /\ \A r \in Typed(a) : KeptOf(a) = r.val
    <3>1. \A r \in Typed(a) : r \in ToSet(f.req) /\ Field(r)
      BY DEF Known, FormSound, ToSet
    <3>2. CASE Typed(a) = {}
      <4>1. "" \in Values
        BY Zenon DEF Values
      <4> QED
        BY <3>2, <4>1, Zenon
    <3>3. CASE Typed(a) # {}
      <4>1. PICK k : k = CHOOSE r \in Typed(a) : TRUE
        OBVIOUS
      <4>2. k \in Typed(a)
        BY <3>3, <4>1
      <4>3. KeptOf(a) = k.val
        BY <3>3, <4>1
      <4>4. ASSUME NEW r \in Typed(a) PROVE r = k
        <5>1. Lower[r.label] = Lower[k.label] /\ r \in ToSet(f.req) /\ k \in ToSet(f.req)
          BY <3>1, <4>2
        <5>2. PICK i \in DOMAIN f.req, j \in DOMAIN f.req : r = f.req[i] /\ k = f.req[j]
          BY <5>1 DEF ToSet
        <5>3. i \in DOMAIN Labels(f) /\ j \in DOMAIN Labels(f) /\ Lower[Labels(f)[i]] = Lower[Labels(f)[j]]
          BY <5>1, <5>2 DEF Labels
        <5>4. i = j
          BY <5>3 DEF FormSound, Different
        <5> QED
          BY <5>2, <5>4
      <4>5. k.val \in Values
        BY <3>1, <4>2 DEF Field
      <4> HIDE DEF KeptOf, Typed
      <4> QED
        BY <4>3, <4>4, <4>5
    <3> QED
      BY <3>2, <3>3
  <2>11. Listed(req) /\ \A i \in DOMAIN req : Field(req[i])
    <3> HIDE DEF KeptOf
    <3>1. DOMAIN req = 1 .. Len(shown) /\ req = [i \in 1 .. Len(shown) |-> req[i]]
      BY <2>4, <2>5
    <3>2. req \in Seq({req[i] : i \in 1 .. Len(shown)})
      BY <2>4, <3>1
    <3>3. ASSUME NEW i \in DOMAIN req PROVE Field(req[i])
      <4>1. PICK l, v : l = shown[i] /\ v = KeptOf(shown[i]) /\ v \in Values
        BY <2>10
      <4>2. PICK r : r = req[i] /\ r = [label |-> l, val |-> v]
        BY <2>5, <4>1
      <4>3. r.label = l /\ r.val = v
        BY <4>2
      <4>4. Field(r)
        BY <4>1, <4>2, <4>3 DEF Field
      <4> QED
        BY <4>2, <4>4
    <3> QED
      BY <3>2, <3>3, ListedFacts
  <2>12. FormSound(g)
    <3>1. Listed(g.classes)
      BY <2>2, <2>8 DEF SameForm
    <3> QED
      BY <2>3, <2>8, <2>9, <2>11, <3>1 DEF FormSound
  <2>13. Keeps(f, g)
    <3> SUFFICES ASSUME NEW r \in ToSet(f.req), NEW q \in ToSet(req), r.label = q.label PROVE r.val = q.val
      BY <2>8 DEF Keeps
    <3>1. PICK i \in DOMAIN req : q = req[i]
      BY DEF ToSet
    <3> HIDE DEF KeptOf
    <3>2. q.label = shown[i] /\ q.val = KeptOf(shown[i])
      BY <2>5, <3>1
    <3>3. r \in Typed(shown[i])
      BY <3>2 DEF Known
    <3> QED
      BY <2>10, <3>2, <3>3
  <2>14. Shown(g, s) = shown
    BY <2>1, <2>8 DEF Shown, RDNSet, SameForm
  <2> QED
    BY <1>2, <2>1, <2>7, <2>8, <2>9, <2>12, <2>13, <2>14
<1> QED
  BY <1>1, <1>2

LEMMA AroundFacts ==
    ASSUME NEW L \in Nat, L >= 4, NEW i \in 1 .. L, NEW d \in {1, -1}
    PROVE  /\ ((i - 1 + d + L) % L) + 1 \in 1 .. L
           /\ i \in {2, 3} => ((i - 1 + d + L) % L) + 1 \in 1 .. 4
<1>1. PICK k \in Int : k = i - 1 + d + L
  OBVIOUS
<1>2. k % L \in 0 .. L - 1
  OBVIOUS
<1>3. ASSUME i \in {2, 3} PROVE k % L \in 0 .. 3
  <2>1. k - L \in 0 .. 3 /\ k = 1 * L + (k - L)
    BY <1>1, <1>3
  <2>2. k % L = k - L
    BY <2>1
  <2> QED
    BY <2>1, <2>2
<1> QED
  BY <1>1, <1>2, <1>3

-----------------------------------------------------------------------------
(* The invariant.                                                          *)

MessageSound(m) ==
    /\ m.kind \in {"needSchema", "openOverlay", "pickClasses", "formCancel", "doAdd"}
    /\ m.kind = "openOverlay" => m.ov \in {Picker, Confirm}
    /\ m.kind = "pickClasses" => m.names \in Picks

\* The cursor is on a field.
OnField(f) == f.idx \in 1 .. LastField(f)

\* Off the RDN and the classes the fields are the ones to be shown.
UpToDate(f, s) ==
    IF s = None THEN f.req = <<>> ELSE f.idx \notin Rebuilding => Labels(f) = Shown(f, s)

\* The form and what is around it.  A form that is not on the screen is sound
\* but may be out of date, unless no schema ever came.
FormInv ==
    /\ server \in Servers /\ schema \in {None, Parse(server.classes, server.attrs)}
    /\ screen \in {"browser", "form"} /\ loading \in BOOLEAN
    /\ FormSound(fm) /\ OnField(fm)
    /\ screen = "form" \/ schema = None => UpToDate(fm, schema)
    /\ ov \in {NoOverlay, Picker, Confirm}
    /\ \A m \in inbox : MessageSound(m)

LEMMA SchemaIsSound ==
    ASSUME server \in Servers, NEW s \in {None, Parse(server.classes, server.attrs)}
    PROVE  s # None => SchemaSound(s)
BY ParseSound

LEMMA EmptyFormSound ==
    ASSUME NEW p, NEW s, s # None => SchemaSound(s)
    PROVE  FormSound(EmptyForm(p)) /\ OnField(EmptyForm(p)) /\ UpToDate(EmptyForm(p), s)
<1>1. PICK f : f = EmptyForm(p)
  OBVIOUS
<1>2. /\ f = [parent |-> p, rdn |-> <<>>, classes |-> <<>>, req |-> <<>>, extra |-> <<>>, idx |-> 1]
      /\ f.parent = p /\ f.rdn = <<>> /\ f.classes = <<>> /\ f.req = <<>> /\ f.extra = <<>> /\ f.idx = 1
  BY <1>1 DEF EmptyForm
<1>3. Shaped(f)
  BY <1>2 DEF Shaped
<1>4. Labels(f) = <<>>
  BY <1>2 DEF Labels
<1>5. Different(<<>>)
  BY DEF Different
<1>6. FormSound(f)
  BY <1>2, <1>3, <1>4, <1>5, ListedFacts DEF FormSound
<1>7. OnField(f)
  BY <1>2 DEF OnField, LastField
<1>8. UpToDate(f, s)
  BY <1>2, <1>4, NothingShown DEF UpToDate
<1> QED
  BY <1>1, <1>6, <1>7, <1>8

LEMMA SameLength ==
    ASSUME NEW f, FormSound(f)
    PROVE  /\ Len(Labels(f)) = Len(f.req) /\ Len(f.req) \in Nat
           /\ LastField(f) \in Nat /\ LastField(f) = 4 + Len(f.req)
<1>1. Len(f.req) \in Nat /\ DOMAIN f.req = 1 .. Len(f.req)
  BY ListedFacts DEF FormSound
<1>2. Labels(f) \in Seq({f.req[i].label : i \in DOMAIN f.req}) /\ Len(Labels(f)) = Len(f.req)
  BY <1>1 DEF Labels
<1> QED
  BY <1>1, <1>2 DEF LastField

\* When the fields are made anew the cursor stays on one of them.
LEMMA RebuiltOnField ==
    ASSUME NEW s, s # None => SchemaSound(s), NEW f, FormSound(f), OnField(f),
           \/ f.idx \in 1 .. 4
           \/ s # None /\ Begins(Labels(f), Shown(f, s))
    PROVE  OnField(Rebuilt(f, s))
<1>1. PICK g : g = Rebuilt(f, s)
  OBVIOUS
<1>2. /\ FormSound(g) /\ g.idx = f.idx /\ (s # None => Labels(g) = Shown(f, s))
  BY <1>1, RebuiltFacts DEF SameForm
<1>3. /\ Len(Labels(f)) = Len(f.req) /\ Len(f.req) \in Nat /\ LastField(f) = 4 + Len(f.req)
      /\ Len(Labels(g)) = Len(g.req) /\ Len(g.req) \in Nat /\ LastField(g) = 4 + Len(g.req)
  BY <1>2, SameLength
<1>4. CASE f.idx \in 1 .. 4
  BY <1>1, <1>2, <1>3, <1>4 DEF OnField
<1>5. CASE s # None /\ Begins(Labels(f), Shown(f, s))
  <2>1. Len(f.req) <= Len(g.req)
    BY <1>2, <1>3, <1>5 DEF Begins
  <2>2. f.idx \in 1 .. 4 + Len(f.req)
    BY <1>3 DEF OnField
  <2> QED
    BY <1>1, <1>2, <1>3, <2>1, <2>2 DEF OnField
<1> QED
  BY <1>4, <1>5

LEMMA BeginsItself ==
    ASSUME NEW list
    PROVE  Len(list) \in Nat => Begins(list, list)
BY DEF Begins

LEMMA RebuiltUpToDate ==
    ASSUME NEW s, s # None => SchemaSound(s), NEW f, FormSound(f), s = None => f.req = <<>>
    PROVE  UpToDate(Rebuilt(f, s), s)
<1>1. CASE s = None
  BY <1>1, RebuiltFacts DEF UpToDate
<1>2. CASE s # None
  BY <1>2, RebuiltFacts DEF UpToDate
<1> QED
  BY <1>1, <1>2

\* A form that was up to date may be made anew wherever the cursor is.
LEMMA RebuiltAgain ==
    ASSUME NEW s, s # None => SchemaSound(s), NEW f, FormSound(f), OnField(f), UpToDate(f, s)
    PROVE  OnField(Rebuilt(f, s))
<1>1. CASE s = None
  BY <1>1, RebuiltFacts
<1>2. CASE s # None /\ f.idx \in Rebuilding
  <2>1. f.idx \in 1 .. 4
    BY <1>2 DEF Rebuilding, RDNField, ClassField
  <2> QED
    BY <2>1, RebuiltOnField
<1>3. CASE s # None /\ f.idx \notin Rebuilding
  <2>1. Labels(f) = Shown(f, s)
    BY <1>3 DEF UpToDate
  <2>2. Begins(Labels(f), Shown(f, s))
    BY <2>1, SameLength, BeginsItself
  <2> QED
    BY <1>3, <2>2, RebuiltOnField
<1> QED
  BY <1>1, <1>2, <1>3

LEMMA FormInit == Init => FormInv
<1> SUFFICES ASSUME Init PROVE FormInv
  OBVIOUS
<1>1. schema = None /\ fm = EmptyForm("ok") /\ inbox = {} /\ ov = NoOverlay
  BY DEF Init
<1>2. FormSound(fm) /\ OnField(fm) /\ UpToDate(fm, schema)
  BY <1>1, EmptyFormSound
<1> QED
  BY <1>1, <1>2 DEF Init, FormInv

\* TypedStays of one step.
Stays ==
    screen = "form" /\ screen' = "form" /\ fm'.req # fm.req =>
        \A r \in ToSet(fm.req), q \in ToSet(fm'.req) :
            r.label = q.label /\ r.val # q.val => fm.idx = fm'.idx /\ fm.req[fm.idx - 3] = r

LEMMA KeepsStays == Keeps(fm, fm') => Stays
BY DEF Keeps, Stays

\* What stays true when the form, the schema and the screen do.
Around ==
    /\ server \in Servers /\ schema \in {None, Parse(server.classes, server.attrs)}
    /\ screen \in {"browser", "form"}
    /\ FormSound(fm) /\ OnField(fm)
    /\ screen = "form" \/ schema = None => UpToDate(fm, schema)
Inside ==
    /\ loading \in BOOLEAN /\ ov \in {NoOverlay, Picker, Confirm}
    /\ \A m \in inbox : MessageSound(m)

LEMMA AroundAndInside == FormInv <=> Around /\ Inside
BY DEF FormInv, Around, Inside

LEMMA AroundSame ==
    ASSUME Around, UNCHANGED <<server, schema, screen, fm>>
    PROVE  Around' /\ Stays
BY DEF Around, Stays

LEMMA InsideSame ==
    ASSUME Inside, loading' \in BOOLEAN, UNCHANGED <<ov, inbox>>
    PROVE  Inside'
BY DEF Inside

LEMMA PostInside ==
    ASSUME Inside, NEW m, Post(m), MessageSound(m), UNCHANGED loading, ov' \in {ov, NoOverlay}
    PROVE  Inside'
BY DEF Inside, Post

LEMMA SchemaLoadedStep ==
    ASSUME FormInv, SchemaLoaded
    PROVE  FormInv' /\ Stays
<1>1. Around /\ Inside
  BY AroundAndInside
<1>2. /\ loading' = FALSE /\ schema' = Parse(server.classes, server.attrs)
      /\ fm' = (IF screen = "form" THEN Rebuilt(fm, schema') ELSE fm)
      /\ UNCHANGED <<server, screen, ov, inbox>>
  BY DEF SchemaLoaded
<1>3. Inside'
  BY <1>1, <1>2, InsideSame
<1>4. PICK s, f : s = schema' /\ f = fm'
  OBVIOUS
<1>5. SchemaSound(s)
  BY <1>1, <1>2, <1>4, ParseSound DEF Around
<1>6. s = None => schema = None
  BY <1>1, <1>2, <1>4 DEF Around
<1>7. CASE screen # "form"
  <2>1. fm' = fm /\ (schema' = None => UpToDate(fm, schema'))
    BY <1>1, <1>2, <1>4, <1>6, <1>7 DEF Around
  <2>2. Around' /\ Stays
    BY <1>1, <1>2, <1>7, <2>1 DEF Around, Stays
  <2> QED
    BY <1>3, <2>2, AroundAndInside DEF FormInv, Around, Inside
<1>8. CASE screen = "form"
  <2>1. f = Rebuilt(fm, s) /\ FormSound(fm) /\ OnField(fm) /\ UpToDate(fm, schema)
    BY <1>1, <1>2, <1>4, <1>8 DEF Around
  <2>2. OnField(f)
    <3>1. CASE schema = None
      <4>1. fm.req = <<>>
        BY <2>1, <3>1 DEF UpToDate
      <4>2. fm.idx \in 1 .. 4
        BY <2>1, <4>1 DEF OnField, LastField
      <4> QED
        BY <1>5, <2>1, <4>2, RebuiltOnField
    <3>2. CASE schema # None
      <4>1. s = schema
        BY <1>1, <1>2, <1>4, <3>2 DEF Around
      <4> QED
        BY <1>5, <2>1, <4>1, RebuiltAgain
    <3> QED
      BY <3>1, <3>2
  <2>3. FormSound(f) /\ Keeps(fm, f)
    BY <1>5, <2>1, RebuiltFacts
  <2>4. UpToDate(f, s)
    <3>1. s = None => fm.req = <<>>
      BY <1>6, <2>1 DEF UpToDate
    <3> QED
      BY <1>5, <2>1, <3>1, RebuiltUpToDate
  <2>5. Around'
    BY <1>1, <1>2, <1>4, <2>2, <2>3, <2>4 DEF Around
  <2>6. Stays
    BY <1>4, <2>3, KeepsStays
  <2> QED
    BY <1>3, <2>5, <2>6 DEF FormInv, Around, Inside
<1> QED
  BY <1>7, <1>8

LEMMA OpenAddEntryFormStep ==
    ASSUME FormInv, OpenAddEntryForm
    PROVE  FormInv' /\ Stays
<1>1. Around /\ Inside
  BY AroundAndInside
<1>2. /\ screen = "browser" /\ screen' = "form"
      /\ loading' \in BOOLEAN
      /\ UNCHANGED <<server, schema, ov, inbox>>
  BY <1>1 DEF OpenAddEntryForm, LoadSchema, Inside
<1>3. PICK p : fm' = EmptyForm(p)
  BY DEF OpenAddEntryForm
<1>4. schema # None => SchemaSound(schema)
  BY <1>1, ParseSound DEF Around
<1>5. PICK f : f = fm' /\ FormSound(f) /\ OnField(f) /\ UpToDate(f, schema)
  BY <1>3, <1>4, EmptyFormSound
<1>6. Around'
  BY <1>1, <1>2, <1>5 DEF Around
<1>7. Inside'
  BY <1>1, <1>2, InsideSame
<1>8. Stays
  BY <1>2 DEF Stays
<1> QED
  BY <1>6, <1>7, <1>8 DEF FormInv, Around, Inside

LEMMA MovedFacts ==
    ASSUME NEW f, FormSound(f), NEW i, i \in 1 .. LastField(f)
    PROVE  LET g == [f EXCEPT !.idx = i]
           IN  /\ FormSound(g) /\ OnField(g) /\ g.idx = i /\ g.req = f.req /\ Labels(g) = Labels(f)
               /\ \A s : Shown(g, s) = Shown(f, s)
<1>1. PICK p, r, c, q, e, k :
         f = [parent |-> p, rdn |-> r, classes |-> c, req |-> q, extra |-> e, idx |-> k]
  BY DEF Shaped, FormSound
<1>2. PICK g : g = [f EXCEPT !.idx = i]
  OBVIOUS
<1>3. g.idx = i /\ g.req = f.req /\ g.classes = f.classes /\ g.rdn = f.rdn
  BY <1>1, <1>2
<1>4. Shaped(g)
  BY <1>2, ShapeFacts DEF FormSound
<1>5. Labels(g) = Labels(f)
  BY <1>3 DEF Labels
<1>6. FormSound(g)
  BY <1>3, <1>4, <1>5 DEF FormSound
<1>7. \A s : Shown(g, s) = Shown(f, s)
  BY <1>3 DEF Shown, RDNSet
<1>8. OnField(g)
  BY <1>3 DEF OnField, LastField
<1> QED
  BY <1>2, <1>3, <1>5, <1>6, <1>7, <1>8

LEMMA MoveStep ==
    ASSUME FormInv, NEW d \in {1, -1}, Move(d)
    PROVE  FormInv' /\ Stays
<1>1. Around /\ Inside
  BY AroundAndInside
<1>2. screen = "form" /\ UNCHANGED <<server, schema, loading, screen, ov, inbox>>
  BY DEF Move, Key
<1>3. PICK i : i = ((fm.idx - 1 + d + LastField(fm)) % LastField(fm)) + 1
  OBVIOUS
<1>4. PICK g : g = [fm EXCEPT !.idx = i]
  OBVIOUS
<1>5. fm' = (IF fm.idx \in Rebuilding THEN Rebuilt(g, schema) ELSE g)
  BY <1>3, <1>4 DEF Move
<1>6. /\ FormSound(fm) /\ OnField(fm) /\ UpToDate(fm, schema)
      /\ (schema # None => SchemaSound(schema))
  BY <1>1, <1>2, ParseSound DEF Around
<1>7. i \in 1 .. LastField(fm) /\ (fm.idx \in {2, 3} => i \in 1 .. 4)
  <2>1. LastField(fm) \in Nat /\ LastField(fm) >= 4 /\ fm.idx \in 1 .. LastField(fm)
    BY <1>6, SameLength DEF OnField
  <2> QED
    BY <1>3, <2>1, AroundFacts
<1>8. /\ FormSound(g) /\ OnField(g) /\ g.idx = i /\ g.req = fm.req /\ Labels(g) = Labels(fm)
      /\ Shown(g, schema) = Shown(fm, schema)
  BY <1>4, <1>6, <1>7, MovedFacts
<1>9. PICK f : f = fm'
  OBVIOUS
<1>10. FormSound(f) /\ OnField(f) /\ UpToDate(f, schema) /\ (f.req = fm.req \/ Keeps(fm, f))
  <2>1. CASE fm.idx \in Rebuilding
    <3>1. f = Rebuilt(g, schema) /\ i \in 1 .. 4
      BY <1>5, <1>7, <1>9, <2>1 DEF Rebuilding, RDNField, ClassField
    <3>2. OnField(f)
      BY <1>6, <1>8, <3>1, RebuiltOnField
    <3>3. FormSound(f) /\ Keeps(g, f)
      BY <1>6, <1>8, <3>1, RebuiltFacts
    <3>4. Keeps(fm, f)
      BY <1>8, <3>3 DEF Keeps
    <3>5. UpToDate(f, schema)
      <4>1. schema = None => g.req = <<>>
        BY <1>6, <1>8 DEF UpToDate
      <4> QED
        BY <1>6, <1>8, <3>1, <4>1, RebuiltUpToDate
    <3> QED
      BY <3>2, <3>3, <3>4, <3>5
  <2>2. CASE fm.idx \notin Rebuilding
    <3>1. f = g
      BY <1>5, <1>9, <2>2
    <3>2. UpToDate(g, schema)
      BY <1>6, <1>8, <2>2 DEF UpToDate
    <3> QED
      BY <1>8, <3>1, <3>2
  <2> QED
    BY <2>1, <2>2
<1>11. Around'
  BY <1>1, <1>2, <1>9, <1>10 DEF Around
<1>12. Inside'
  BY <1>1, <1>2, InsideSame DEF Inside
<1>13. Stays
  <2>1. fm'.req = fm.req => Stays
    BY DEF Stays
  <2> QED
    BY <1>9, <1>10, <2>1, KeepsStays
<1> QED
  BY <1>11, <1>12, <1>13 DEF FormInv, Around, Inside

\* Typing into a field that is not made from the schema, or a value into one.
LEMMA TypedFacts ==
    ASSUME NEW f, FormSound(f), OnField(f), NEW g, Shaped(g), Listed(g.classes),
           g.req = f.req, g.idx = f.idx
    PROVE  /\ FormSound(g) /\ OnField(g)
           /\ \A s : /\ UpToDate(f, s) /\ (f.idx \in Rebuilding \/ (g.classes = f.classes /\ g.rdn = f.rdn))
                     => UpToDate(g, s)
<1>1. Labels(g) = Labels(f)
  BY DEF Labels
<1>2. FormSound(g)
  BY <1>1 DEF FormSound
<1>3. OnField(g)
  BY DEF OnField, LastField
<1>4. ASSUME NEW s, UpToDate(f, s), f.idx \in Rebuilding \/ (g.classes = f.classes /\ g.rdn = f.rdn)
      PROVE  UpToDate(g, s)
  <2>1. CASE s = None
    BY <1>4, <2>1 DEF UpToDate
  <2>2. CASE s # None /\ f.idx \in Rebuilding
    BY <2>2 DEF UpToDate
  <2>3. CASE s # None /\ f.idx \notin Rebuilding
    <3>1. Shown(g, s) = Shown(f, s)
      BY <1>4, <2>3 DEF Shown, RDNSet
    <3> QED
      BY <1>1, <1>4, <2>3, <3>1 DEF UpToDate
  <2> QED
    BY <2>1, <2>2, <2>3
<1> QED
  BY <1>2, <1>3, <1>4

\* A value is put into a field.
ValuePut(req, j, text) == [req EXCEPT ![j] = [req[j] EXCEPT !.val = text]]

LEMMA NestedPut ==
    ASSUME NEW f, NEW j, NEW text
    PROVE  [f EXCEPT !.req[j].val = text] = [f EXCEPT !.req = ValuePut(f.req, j, text)]
BY DEF ValuePut

LEMMA ValuePutFacts ==
    ASSUME NEW req, Listed(req), \A i \in DOMAIN req : Field(req[i]), NEW j \in DOMAIN req,
           NEW text \in Values, NEW n, n = ValuePut(req, j, text)
    PROVE  /\ Listed(n) /\ DOMAIN n = DOMAIN req /\ Len(n) = Len(req)
           /\ \A i \in DOMAIN req : Field(n[i]) /\ n[i].label = req[i].label /\ (i # j => n[i] = req[i])
<1>1. Len(req) \in Nat /\ DOMAIN req = 1 .. Len(req)
  BY ListedFacts
<1>2. DOMAIN n = DOMAIN req /\ \A i \in DOMAIN req : i # j => n[i] = req[i]
  BY DEF ValuePut
<1>3. Field(n[j]) /\ n[j].label = req[j].label
  <2>1. PICK r : r = req[j] /\ Field(r)
    OBVIOUS
  <2>2. PICK l, w : r = [label |-> l, val |-> w]
    BY <2>1 DEF Field
  <2>3. n[j] = [r EXCEPT !.val = text]
    BY <2>1 DEF ValuePut
  <2>4. PICK x : x = n[j] /\ x = [label |-> l, val |-> text]
    BY <2>2, <2>3
  <2>5. x.label = l /\ x.val = text /\ r.label = l
    BY <2>2, <2>4
  <2>6. Field(x)
    BY <2>4, <2>5 DEF Field
  <2> QED
    BY <2>1, <2>4, <2>5, <2>6
<1>4. \A i \in DOMAIN req : Field(n[i]) /\ n[i].label = req[i].label /\ (i # j => n[i] = req[i])
  BY <1>2, <1>3
<1>5. Listed(n) /\ Len(n) = Len(req)
  <2>1. n = [i \in DOMAIN req |-> n[i]]
    BY DEF ValuePut
  <2>2. n \in [1 .. Len(req) -> {n[i] : i \in DOMAIN req}]
    BY <1>1, <2>1
  <2>3. n \in Seq({n[i] : i \in DOMAIN req}) /\ Len(n) = Len(req)
    BY <1>1, <2>2
  <2> QED
    BY <2>3, ListedFacts
<1> QED
  BY <1>2, <1>4, <1>5

IsPut(f, g, j, text) ==
    j \in DOMAIN f.req /\ text \in Values /\ g = [f EXCEPT !.req = ValuePut(f.req, j, text)]

AfterPut(f, g, j) ==
    /\ FormSound(g) /\ OnField(g) /\ g.idx = f.idx
    /\ \A s : UpToDate(f, s) => UpToDate(g, s)
    /\ \A r \in ToSet(f.req), q \in ToSet(g.req) :
         r.label = q.label /\ r.val # q.val => f.req[j] = r

LEMMA ValueFacts ==
    ASSUME NEW f, FormSound(f), OnField(f), NEW g, NEW j, NEW text, IsPut(f, g, j, text)
    PROVE  AfterPut(f, g, j)
<1>1. PICK n : n = ValuePut(f.req, j, text)
  OBVIOUS
<1>2. j \in DOMAIN f.req /\ text \in Values /\ g = [f EXCEPT !.req = n]
  BY <1>1 DEF IsPut
<1>3. Shaped(g) /\ g.req = n /\ SameForm(f, g)
  BY <1>2, ShapeFacts, ReqReplaced DEF FormSound
<1>4. g.idx = f.idx /\ g.classes = f.classes /\ g.rdn = f.rdn
  BY <1>3 DEF SameForm
<1>5. PICK req : req = f.req /\ Listed(req) /\ \A i \in DOMAIN req : Field(req[i])
  BY DEF FormSound
<1>6. /\ Listed(n) /\ DOMAIN n = DOMAIN req /\ Len(n) = Len(req)
      /\ \A i \in DOMAIN req : Field(n[i]) /\ n[i].label = req[i].label /\ (i # j => n[i] = req[i])
  BY <1>5, <1>1, <1>2, ValuePutFacts
<1>7. Labels(g) = Labels(f)
  BY <1>3, <1>5, <1>6 DEF Labels
<1>8. FormSound(g)
  BY <1>3, <1>4, <1>6, <1>7 DEF FormSound
<1>9. OnField(g)
  BY <1>3, <1>4, <1>5, <1>6 DEF OnField, LastField
<1>10. ASSUME NEW s, UpToDate(f, s) PROVE UpToDate(g, s)
  <2>1. CASE s = None
    <3>1. req = <<>>
      BY <1>5, <1>10, <2>1 DEF UpToDate
    <3>2. DOMAIN req = {}
      BY <3>1
    <3> QED
      BY <1>5, <1>2, <3>2
  <2>2. CASE s # None
    <3>1. Shown(g, s) = Shown(f, s)
      BY <1>4 DEF Shown, RDNSet
    <3> QED
      BY <1>4, <1>7, <1>10, <2>2, <3>1 DEF UpToDate
  <2> QED
    BY <2>1, <2>2
<1>11. ASSUME NEW x \in ToSet(req), NEW y \in ToSet(n), x.label = y.label, x.val # y.val
      PROVE  req[j] = x
  <2>1. PICK a \in DOMAIN req, b \in DOMAIN req : x = req[a] /\ y = n[b]
    BY <1>6 DEF ToSet
  <2>2. a \in DOMAIN Labels(f) /\ b \in DOMAIN Labels(f) /\ Labels(f)[a] = Labels(f)[b]
    BY <1>5, <1>6, <1>11, <2>1 DEF Labels
  <2>3. a = b
    BY <2>2 DEF FormSound, Different
  <2> QED
    BY <1>6, <1>11, <2>1, <2>3
<1> QED
  BY <1>3, <1>4, <1>5, <1>8, <1>9, <1>10, <1>11 DEF AfterPut

\* What may be typed, by the field under the cursor.
LEMMA TypeCases ==
    ASSUME NEW x, NEW i, NEW last, last \notin {1, 2, 3}, NEW A, NEW B, NEW C, NEW D, NEW E,
           x \in CASE i = 1 -> A [] i = 2 -> B [] i = 3 -> C [] i = last -> D [] OTHER -> E
    PROVE  /\ i = 1 => x \in A
           /\ i = 2 => x \in B
           /\ i = 3 => x \in C
           /\ i = last => x \in D
           /\ i # 1 /\ i # 2 /\ i # 3 /\ i # last => x \in E
OBVIOUS

LEMMA TypeIs ==
    ASSUME FormInv, Type, NEW f, f = fm'
    PROVE  /\ fm.idx = 1 => f \in {[fm EXCEPT !.parent = x] : x \in Parents}
           /\ fm.idx = 2 => f \in {[fm EXCEPT !.rdn = x] : x \in RDNs}
           /\ fm.idx = 3 => f \in {[fm EXCEPT !.classes = x] : x \in ClassLists}
           /\ fm.idx = LastField(fm) => f \in {[fm EXCEPT !.extra = x] : x \in Extras}
           /\ fm.idx # 1 /\ fm.idx # 2 /\ fm.idx # 3 /\ fm.idx # LastField(fm) =>
                 f \in {[fm EXCEPT !.req[fm.idx - 3].val = text] : text \in Values}
<1>1. LastField(fm) \in Nat /\ LastField(fm) = 4 + Len(fm.req) /\ Len(fm.req) \in Nat
  BY SameLength, ListedFacts DEF FormInv, OnField, FormSound
<1>2. PICK last, A, B, C, D, E :
         /\ last = LastField(fm) /\ A = {[fm EXCEPT !.parent = x] : x \in Parents}
         /\ B = {[fm EXCEPT !.rdn = x] : x \in RDNs} /\ C = {[fm EXCEPT !.classes = x] : x \in ClassLists}
         /\ D = {[fm EXCEPT !.extra = x] : x \in Extras}
         /\ E = {[fm EXCEPT !.req[fm.idx - 3].val = text] : text \in Values}
  OBVIOUS
<1>3. fm' \in CASE fm.idx = 1 -> A [] fm.idx = 2 -> B [] fm.idx = 3 -> C [] fm.idx = last -> D
                [] OTHER -> E
  BY <1>2 DEF Type, RDNField, ClassField
<1>4. last \notin {1, 2, 3}
  BY <1>1, <1>2
<1>5. PICK i : i = fm.idx
  OBVIOUS
<1>6. f \in CASE i = 1 -> A [] i = 2 -> B [] i = 3 -> C [] i = last -> D [] OTHER -> E
  BY <1>3, <1>5
<1>7. /\ i = 1 => f \in A
      /\ i = 2 => f \in B
      /\ i = 3 => f \in C
      /\ i = last => f \in D
      /\ i # 1 /\ i # 2 /\ i # 3 /\ i # last => f \in E
  BY <1>4, <1>6, TypeCases
<1> QED
  BY <1>2, <1>5, <1>7

LEMMA TypeStep ==
    ASSUME FormInv, Type
    PROVE  FormInv' /\ Stays
<1>1. Around /\ Inside
  BY AroundAndInside
<1>2. screen = "form" /\ UNCHANGED <<server, schema, loading, screen, ov, inbox>>
  BY DEF Type, Key
<1>3. FormSound(fm) /\ OnField(fm) /\ UpToDate(fm, schema)
  BY <1>1, <1>2 DEF Around
<1>4. PICK p, r, c, q, e, k :
         fm = [parent |-> p, rdn |-> r, classes |-> c, req |-> q, extra |-> e, idx |-> k]
  BY <1>3 DEF Shaped, FormSound
<1>5. Shaped(fm) /\ Listed(fm.classes)
  BY <1>3 DEF FormSound
<1>6. PICK f : f = fm'
  OBVIOUS
<1>7. LastField(fm) \in Nat /\ LastField(fm) = 4 + Len(fm.req) /\ Len(fm.req) \in Nat
      /\ DOMAIN fm.req = 1 .. Len(fm.req) /\ fm.idx \in 1 .. LastField(fm)
  BY <1>3, SameLength, ListedFacts DEF OnField, FormSound
<1>13. /\ fm.idx = 1 => f \in {[fm EXCEPT !.parent = x] : x \in Parents}
       /\ fm.idx = 2 => f \in {[fm EXCEPT !.rdn = x] : x \in RDNs}
       /\ fm.idx = 3 => f \in {[fm EXCEPT !.classes = x] : x \in ClassLists}
       /\ fm.idx = LastField(fm) => f \in {[fm EXCEPT !.extra = x] : x \in Extras}
       /\ fm.idx # 1 /\ fm.idx # 2 /\ fm.idx # 3 /\ fm.idx # LastField(fm) =>
             f \in {[fm EXCEPT !.req[fm.idx - 3].val = text] : text \in Values}
  BY <1>6, TypeIs
<1> DEFINE Sound == FormSound(f) /\ OnField(f) /\ UpToDate(f, schema)
<1>8. CASE fm.idx = 1
  <2>1. PICK x \in Parents : f = [fm EXCEPT !.parent = x]
    BY <1>8, <1>13
  <2>2. f.req = fm.req /\ f.idx = fm.idx /\ f.classes = fm.classes /\ f.rdn = fm.rdn
    BY <1>4, <2>1
  <2>3. Shaped(f)
    BY <1>5, <2>1, ShapeFacts
  <2>4. Sound
    BY <1>3, <1>5, <2>2, <2>3, TypedFacts
  <2> QED
    BY <1>1, <1>2, <1>6, <2>2, <2>4 DEF FormInv, Around, Inside, Stays
<1>9. CASE fm.idx = RDNField
  <2>1. PICK x \in RDNs : f = [fm EXCEPT !.rdn = x]
    BY <1>9, <1>13 DEF RDNField
  <2>2. f.req = fm.req /\ f.idx = fm.idx /\ f.classes = fm.classes
    BY <1>4, <2>1
  <2>3. Shaped(f)
    BY <1>5, <2>1, ShapeFacts
  <2>4. Sound
    BY <1>3, <1>5, <1>9, <2>2, <2>3, TypedFacts DEF Rebuilding
  <2> QED
    BY <1>1, <1>2, <1>6, <2>2, <2>4 DEF FormInv, Around, Inside, Stays
<1>10. CASE fm.idx = ClassField
  <2>1. PICK x \in ClassLists : f = [fm EXCEPT !.classes = x]
    BY <1>10, <1>13 DEF ClassField
  <2>2. f.req = fm.req /\ f.idx = fm.idx /\ f.classes = x
    BY <1>4, <2>1
  <2>3. Shaped(f)
    BY <1>5, <2>1, ShapeFacts
  <2>4. Listed(x)
    BY <2>1, ClassesAssumption, ListedFacts
  <2>5. Sound
    BY <1>3, <1>10, <2>2, <2>3, <2>4, TypedFacts DEF Rebuilding
  <2> QED
    BY <1>1, <1>2, <1>6, <2>2, <2>5 DEF FormInv, Around, Inside, Stays
<1>11. CASE fm.idx = LastField(fm)
  <2>2. PICK x \in Extras : f = [fm EXCEPT !.extra = x]
    BY <1>11, <1>13
  <2>3. f.req = fm.req /\ f.idx = fm.idx /\ f.classes = fm.classes /\ f.rdn = fm.rdn
    BY <1>4, <2>2
  <2>4. Shaped(f)
    BY <1>5, <2>2, ShapeFacts
  <2>5. Sound
    BY <1>3, <1>5, <2>3, <2>4, TypedFacts
  <2> QED
    BY <1>1, <1>2, <1>6, <2>3, <2>5 DEF FormInv, Around, Inside, Stays
<1>12. CASE fm.idx # 1 /\ fm.idx # RDNField /\ fm.idx # ClassField /\ fm.idx # LastField(fm)
  <2>1. PICK text \in Values : f = [fm EXCEPT !.req[fm.idx - 3].val = text]
    BY <1>12, <1>13 DEF RDNField, ClassField
  <2>2. fm.idx - 3 \in DOMAIN fm.req
    <3>1. PICK i \in Nat, L \in Nat : i = fm.idx /\ L = Len(fm.req)
      BY <1>7
    <3>2. i \in 1 .. 4 + L /\ i # 1 /\ i # 2 /\ i # 3 /\ i # 4 + L
      BY <1>7, <1>12, <3>1 DEF RDNField, ClassField
    <3>3. i - 3 \in 1 .. L
      BY <3>2
    <3> QED
      BY <1>7, <3>1, <3>3
  <2>3. PICK j \in DOMAIN fm.req : j = fm.idx - 3
    BY <2>2
  <2>4. IsPut(fm, f, j, text)
    BY <2>1, <2>3, NestedPut DEF IsPut
  <2>5. AfterPut(fm, f, j)
    BY <1>3, <2>4, ValueFacts
  <2>6. /\ FormSound(f) /\ OnField(f) /\ f.idx = fm.idx
        /\ \A s : UpToDate(fm, s) => UpToDate(f, s)
        /\ \A x \in ToSet(fm.req), y \in ToSet(f.req) :
             x.label = y.label /\ x.val # y.val => fm.req[j] = x
    BY <2>5 DEF AfterPut
  <2>7. Stays
    BY <1>6, <2>3, <2>6 DEF Stays
  <2>8. Sound
    BY <1>3, <2>6
  <2> QED
    BY <1>1, <1>2, <1>6, <2>7, <2>8 DEF FormInv, Around, Inside
<1> QED
  BY <1>8, <1>9, <1>10, <1>11, <1>12

\* The classes that are picked come after the ones that are there.
LEMMA PickedFacts ==
    ASSUME NEW f, FormSound(f), OnField(f), NEW s, s # None => SchemaSound(s), UpToDate(f, s),
           NEW names \in Picks, NEW g, g = [f EXCEPT !.classes = WithPicked(f.classes, names)]
    PROVE  LET h == Rebuilt(g, s)
           IN  FormSound(h) /\ OnField(h) /\ UpToDate(h, s) /\ Keeps(f, h)
<1>1. PICK p, r, c, q, e, k :
         f = [parent |-> p, rdn |-> r, classes |-> c, req |-> q, extra |-> e, idx |-> k]
  BY DEF Shaped, FormSound
<1>2. PICK more : more = WithPicked(c, names)
  OBVIOUS
<1>3. g = [f EXCEPT !.classes = more] /\ f.classes = c
  BY <1>1, <1>2
<1>4. g.classes = more /\ g.rdn = f.rdn /\ g.req = f.req /\ g.idx = f.idx
  BY <1>1, <1>3
<1>5. Listed(more) /\ Begins(c, more)
  <2>1. names \in Seq(DOMAIN Lower)
    BY ClassesAssumption
  <2>2. Listed(names) /\ Listed(c)
    BY <1>3, <2>1, ListedFacts DEF FormSound
  <2>3. PICK K : more = c \o Only(names, K)
    BY <1>2 DEF WithPicked
  <2>4. PICK n : n = Only(names, K) /\ n \in Seq(ToSet(names))
    BY <2>2, OnlyFacts
  <2>5. PICK S : S = ToSet(c) \cup ToSet(names)
    OBVIOUS
  <2>6. c \in Seq(S) /\ n \in Seq(S)
    BY <2>2, <2>4, <2>5 DEF Listed
  <2>7. more \in Seq(S) /\ Begins(c, more)
    BY <2>3, <2>4, <2>6, BeginsConcat
  <2> QED
    BY <2>7, ListedFacts
<1>6. Shaped(g)
  <2>1. Shaped(f)
    BY DEF FormSound
  <2>2. Shaped([f EXCEPT !.classes = more])
    BY <2>1, ShapeFacts
  <2> QED
    BY <1>3, <2>2
<1>7. Labels(g) = Labels(f)
  BY <1>4 DEF Labels
<1>8. FormSound(g) /\ OnField(g)
  BY <1>4, <1>5, <1>6, <1>7 DEF FormSound, OnField, LastField
<1>9. PICK h : h = Rebuilt(g, s)
  OBVIOUS
<1>10. FormSound(h) /\ Keeps(g, h)
  BY <1>8, <1>9, RebuiltFacts
<1>11. Keeps(f, h)
  BY <1>4, <1>10 DEF Keeps
<1>12. UpToDate(h, s)
  <2>1. s = None => g.req = <<>>
    BY <1>4 DEF UpToDate
  <2> QED
    BY <1>8, <1>9, <2>1, RebuiltUpToDate
<1>13. OnField(h)
  <2>1. CASE s = None
    BY <1>8, <1>9, <2>1, RebuiltFacts
  <2>2. CASE s # None /\ f.idx \in Rebuilding
    <3>1. g.idx \in 1 .. 4
      BY <1>4, <2>2 DEF Rebuilding, RDNField, ClassField
    <3> QED
      BY <1>8, <1>9, <3>1, RebuiltOnField
  <2>3. CASE s # None /\ f.idx \notin Rebuilding
    <3>1. Labels(f) = Shown(f, s)
      BY <2>3 DEF UpToDate
    <3>2. Listed(f.classes) /\ Listed(g.classes) /\ Begins(f.classes, g.classes) /\ g.rdn = f.rdn
      BY <1>3, <1>4, <1>5 DEF FormSound
    <3>3. Begins(Shown(f, s), Shown(g, s))
      BY <2>3, <3>2, ShownBegins
    <3>4. Begins(Labels(g), Shown(g, s))
      BY <1>7, <3>1, <3>3
    <3> QED
      BY <1>8, <1>9, <2>3, <3>4, RebuiltOnField
  <2> QED
    BY <2>1, <2>2, <2>3
<1> QED
  BY <1>9, <1>10, <1>11, <1>12, <1>13

LEMMA AddPickedStep ==
    ASSUME FormInv, NEW m \in inbox, AddPicked(m)
    PROVE  FormInv' /\ Stays
<1>1. Around /\ Inside
  BY AroundAndInside
<1>2. /\ m.kind = "pickClasses" /\ inbox' = inbox \ {m}
      /\ UNCHANGED <<server, schema, loading, screen, ov>>
  BY DEF AddPicked, Take
<1>3. m.names \in Picks
  BY <1>1, <1>2 DEF Inside, MessageSound
<1>4. Inside'
  BY <1>1, <1>2 DEF Inside
<1>5. CASE screen # "form"
  <2>1. UNCHANGED fm
    BY <1>5 DEF AddPicked
  <2>2. Around' /\ Stays
    BY <1>1, <1>2, <2>1, AroundSame
  <2> QED
    BY <1>4, <2>2 DEF FormInv, Around, Inside
<1>6. CASE screen = "form"
  <2>1. /\ FormSound(fm) /\ OnField(fm) /\ UpToDate(fm, schema)
        /\ (schema # None => SchemaSound(schema))
    BY <1>1, <1>6, ParseSound DEF Around
  <2>2. PICK names \in Picks : names = m.names
    BY <1>3
  <2>3. PICK g : g = [fm EXCEPT !.classes = WithPicked(fm.classes, names)]
    OBVIOUS
  <2>4. PICK f : f = fm'
    OBVIOUS
  <2>5. f = Rebuilt(g, schema)
    BY <1>6, <2>2, <2>3, <2>4 DEF AddPicked
  <2>6. FormSound(f) /\ OnField(f) /\ UpToDate(f, schema) /\ Keeps(fm, f)
    BY <2>1, <2>3, <2>5, PickedFacts
  <2>7. Around'
    BY <1>1, <1>2, <2>4, <2>6 DEF Around
  <2>8. Stays
    BY <2>4, <2>6, KeepsStays
  <2> QED
    BY <1>4, <2>7, <2>8 DEF FormInv, Around, Inside
<1> QED
  BY <1>5, <1>6

\* Keys and messages that leave the form as it is.
LEMMA OtherSteps ==
    ASSUME FormInv,
           \/ SchemaFailed \/ NeedSchema \/ PickClasses \/ Submit \/ Escape \/ Choose \/ Yes \/ Dismiss
           \/ \E m \in inbox : OpenOverlay(m) \/ Handle(m)
    PROVE  FormInv' /\ Stays
<1>1. Around /\ Inside
  BY AroundAndInside
<1>2. ASSUME UNCHANGED <<server, schema, screen, fm>>, Inside' PROVE FormInv' /\ Stays
  BY <1>1, <1>2, AroundSame DEF FormInv, Around, Inside
<1>3. CASE SchemaFailed
  <2>1. UNCHANGED <<server, schema, screen, fm>> /\ Inside'
    BY <1>1, <1>3 DEF SchemaFailed, Inside
  <2> QED
    BY <1>2, <2>1
<1>4. CASE NeedSchema
  <2>1. UNCHANGED <<server, schema, screen, fm>> /\ Inside'
    BY <1>1, <1>4 DEF NeedSchema, LoadSchema, Inside
  <2> QED
    BY <1>2, <2>1
<1>5. MessageSound(Plain("needSchema")) /\ MessageSound(Plain("formCancel")) /\ MessageSound(Plain("doAdd"))
  BY DEF MessageSound, Plain
<1>6. \A o \in {Picker, Confirm} : MessageSound(Opening(o))
  BY DEF MessageSound, Opening
<1>7. CASE PickClasses
  <2>1. PICK m : m = IF schema = None THEN Plain("needSchema") ELSE Opening(Picker)
    OBVIOUS
  <2>2. MessageSound(m)
    BY <1>5, <1>6, <2>1
  <2>3. Post(m) /\ UNCHANGED <<server, schema, loading, screen, fm, ov>>
    BY <1>7, <2>1 DEF PickClasses
  <2>4. Inside'
    BY <1>1, <2>2, <2>3, PostInside
  <2> QED
    BY <1>2, <2>3, <2>4
<1>8. CASE Submit
  <2>1. PICK m : m = Opening(Confirm)
    OBVIOUS
  <2>2. MessageSound(m) /\ Post(m) /\ UNCHANGED <<server, schema, loading, screen, fm, ov>>
    BY <1>6, <1>8, <2>1 DEF Submit
  <2>3. Inside'
    BY <1>1, <2>2, PostInside
  <2> QED
    BY <1>2, <2>2, <2>3
<1>9. CASE Escape
  <2>1. PICK m : m = Plain("formCancel")
    OBVIOUS
  <2>2. MessageSound(m) /\ Post(m) /\ UNCHANGED <<server, schema, loading, screen, fm, ov>>
    BY <1>5, <1>9, <2>1 DEF Escape
  <2>3. Inside'
    BY <1>1, <2>2, PostInside
  <2> QED
    BY <1>2, <2>2, <2>3
<1>10. CASE Choose
  <2>1. PICK names \in Picks : Post(Picked(names))
    BY <1>10 DEF Choose
  <2>2. PICK m : m = Picked(names)
    OBVIOUS
  <2>3. MessageSound(m)
    BY <2>2 DEF MessageSound, Picked
  <2>4. Post(m) /\ ov' = NoOverlay /\ UNCHANGED <<server, schema, loading, screen, fm>>
    BY <1>10, <2>1, <2>2 DEF Choose
  <2>5. Inside'
    BY <1>1, <2>3, <2>4, PostInside
  <2> QED
    BY <1>2, <2>4, <2>5
<1>11. CASE Yes
  <2>1. PICK m : m = Plain("doAdd")
    OBVIOUS
  <2>2. MessageSound(m) /\ Post(m) /\ ov' = NoOverlay /\ UNCHANGED <<server, schema, loading, screen, fm>>
    BY <1>5, <1>11, <2>1 DEF Yes
  <2>3. Inside'
    BY <1>1, <2>2, PostInside
  <2> QED
    BY <1>2, <2>2, <2>3
<1>12. CASE Dismiss
  <2>1. UNCHANGED <<server, schema, screen, fm>> /\ Inside'
    BY <1>1, <1>12 DEF Dismiss, Inside
  <2> QED
    BY <1>2, <2>1
<1>13. ASSUME NEW m \in inbox, OpenOverlay(m) PROVE FormInv' /\ Stays
  <2>1. m.ov \in {Picker, Confirm}
    BY <1>1, <1>13 DEF OpenOverlay, Inside, MessageSound
  <2>2. UNCHANGED <<server, schema, screen, fm>> /\ Inside'
    BY <1>1, <1>13, <2>1 DEF OpenOverlay, Take, Inside
  <2> QED
    BY <1>2, <2>2
<1>14. ASSUME NEW m \in inbox, Handle(m) PROVE FormInv' /\ Stays
  <2>1. /\ UNCHANGED <<server, schema, fm, ov>> /\ inbox' = inbox \ {m}
        /\ screen' = (IF m.kind = "needSchema" THEN screen ELSE "browser")
        /\ loading' = (loading \/ m.kind = "needSchema")
    BY <1>14 DEF Handle, Take
  <2>2. loading' \in BOOLEAN
    BY <1>1, <2>1 DEF Inside
  <2>3. Inside'
    BY <1>1, <2>1, <2>2 DEF Inside
  <2>4. screen' = screen \/ screen' = "browser"
    BY <2>1
  <2>5. Around'
    BY <1>1, <2>1, <2>4 DEF Around
  <2>6. Stays
    BY <2>1 DEF Stays
  <2> QED
    BY <2>3, <2>5, <2>6 DEF FormInv, Around, Inside
<1> QED
  BY <1>3, <1>4, <1>7, <1>8, <1>9, <1>10, <1>11, <1>12, <1>13, <1>14

LEMMA FormStep ==
    ASSUME FormInv, [Next]_vars
    PROVE  FormInv' /\ Stays
<1>1. CASE UNCHANGED vars
  <2>1. UNCHANGED <<server, schema, loading, screen, fm, ov, inbox>>
    BY <1>1 DEF vars
  <2> QED
    BY <2>1 DEF FormInv, Stays
<1>2. CASE SchemaLoaded
  BY <1>2, SchemaLoadedStep
<1>3. CASE OpenAddEntryForm
  BY <1>3, OpenAddEntryFormStep
<1>4. CASE Move(1) \/ Move(-1)
  BY <1>4, MoveStep
<1>5. CASE Type
  BY <1>5, TypeStep
<1>6. ASSUME NEW m \in inbox, AddPicked(m) PROVE FormInv' /\ Stays
  BY <1>6, AddPickedStep
<1>7. CASE \/ SchemaFailed \/ NeedSchema \/ PickClasses \/ Submit \/ Escape \/ Choose \/ Yes \/ Dismiss
           \/ \E m \in inbox : OpenOverlay(m) \/ Handle(m)
  BY <1>7, OtherSteps
<1> QED
  BY <1>1, <1>2, <1>3, <1>4, <1>5, <1>6, <1>7 DEF Next

-----------------------------------------------------------------------------
(* The answers of a schema.                                                *)

LEMMA AnswersFacts ==
    ASSUME NEW s, SchemaSound(s), AttrsSound(s), NamesApart(s), NamesPlain(s)
    PROVE  Answers(s)
<1>1. \A n : LineageSound(s, n)
  BY LineageInLine
<1>2. \A classes : Listed(classes) => ResolveSound(s, classes)
  BY InheritanceFacts, UseFacts DEF ResolveSound
<1>3. \A x, y : Listed(<<x, y>>)
  <2>1. ASSUME NEW x, NEW y PROVE Listed(<<x, y>>)
    <3>1. PICK S : S = {x, y}
      OBVIOUS
    <3>2. x \in S /\ y \in S
      BY <3>1
    <3>3. <<x, y>> \in Seq(S)
      BY <3>2
    <3> QED
      BY <3>3, ListedFacts
  <2> QED
    BY <2>1
<1>4. \A a \in ToSet(s.AttrList) : EffectiveSound(s, a)
  BY EffectiveFacts DEF AttrSet
<1> QED
  BY <1>1, <1>2, <1>3, <1>4 DEF Answers

\* A schema comes from the server's definitions.
LEMMA SchemaSteps ==
    ASSUME FormInv, [Next]_vars, schema' # schema
    PROVE  SchemaSound(schema') /\ AttrsSound(schema')
<1>1. SchemaLoaded
  <2>1. ~ UNCHANGED vars
    BY DEF vars
  <2>2. \A d : Move(d) => UNCHANGED schema
    BY DEF Move
  <2>3. \A m : OpenOverlay(m) \/ AddPicked(m) \/ Handle(m) => UNCHANGED schema
    BY DEF OpenOverlay, AddPicked, Handle
  <2>4. SchemaFailed \/ NeedSchema \/ OpenAddEntryForm \/ Type \/ PickClasses \/ Submit \/ Escape
          \/ Choose \/ Yes \/ Dismiss => UNCHANGED schema
    BY DEF SchemaFailed, NeedSchema, OpenAddEntryForm, Type, PickClasses, Submit, Escape, Choose, Yes, Dismiss
  <2> QED
    BY <2>1, <2>2, <2>3, <2>4 DEF Next
<1>2. server \in Servers /\ schema' = Parse(server.classes, server.attrs)
  BY <1>1 DEF FormInv, SchemaLoaded
<1> QED
  BY <1>2, ParseSound, ParseAttrs

-----------------------------------------------------------------------------
(* What was typed that is not made from the schema.                        *)

\* What was typed for the RDN and the further attributes are lists.
TypedSound(f) == Listed(f.rdn) /\ Listed(f.extra)

LEMMA TypedKept ==
    ASSUME NEW f, Shaped(f), TypedSound(f), NEW x
    PROVE  /\ TypedSound([f EXCEPT !.parent = x]) /\ TypedSound([f EXCEPT !.classes = x])
           /\ TypedSound([f EXCEPT !.req = x]) /\ TypedSound([f EXCEPT !.idx = x])
           /\ Listed(x) => TypedSound([f EXCEPT !.rdn = x]) /\ TypedSound([f EXCEPT !.extra = x])
<1>1. PICK p, r, c, q, e, i :
         f = [parent |-> p, rdn |-> r, classes |-> c, req |-> q, extra |-> e, idx |-> i]
  BY DEF Shaped
<1>2. Listed(r) /\ Listed(e)
  BY <1>1 DEF TypedSound
<1>3. TypedSound([f EXCEPT !.parent = x]) /\ TypedSound([f EXCEPT !.classes = x])
  BY <1>1, <1>2 DEF TypedSound
<1>4. TypedSound([f EXCEPT !.req = x]) /\ TypedSound([f EXCEPT !.idx = x])
  BY <1>1, <1>2 DEF TypedSound
<1>5. Listed(x) => TypedSound([f EXCEPT !.rdn = x]) /\ TypedSound([f EXCEPT !.extra = x])
  BY <1>1, <1>2 DEF TypedSound
<1> QED
  BY <1>3, <1>4, <1>5

LEMMA TypedRebuilt ==
    ASSUME NEW f, Shaped(f), TypedSound(f), NEW s
    PROVE  TypedSound(Rebuilt(f, s))
<1>1. s = None => Rebuilt(f, s) = f
  BY DEF Rebuilt
<1>2. s # None => \E x : Rebuilt(f, s) = [f EXCEPT !.req = x]
  BY DEF Rebuilt
<1>3. \A x : TypedSound([f EXCEPT !.req = x])
  BY TypedKept
<1> QED
  BY <1>1, <1>2, <1>3

LEMMA TypedSteps ==
    ASSUME FormInv, TypedSound(fm), [Next]_vars
    PROVE  TypedSound(fm)'
<1>1. Shaped(fm)
  BY DEF FormInv, FormSound
<1>2. PICK f : f = fm'
  OBVIOUS
<1>3. CASE SchemaLoaded
  <2>1. f = fm \/ \E s : f = Rebuilt(fm, s)
    BY <1>2, <1>3 DEF SchemaLoaded
  <2> QED
    BY <1>1, <1>2, <2>1, TypedRebuilt
<1>4. CASE OpenAddEntryForm
  <2>1. f.rdn = <<>> /\ f.extra = <<>>
    BY <1>2, <1>4 DEF OpenAddEntryForm, EmptyForm
  <2> QED
    BY <1>2, <2>1, ListedFacts DEF TypedSound
<1>5. ASSUME NEW d, Move(d) PROVE TypedSound(fm')
  <2>1. PICK i : i = ((fm.idx - 1 + d + LastField(fm)) % LastField(fm)) + 1
    OBVIOUS
  <2>2. PICK g : g = [fm EXCEPT !.idx = i]
    OBVIOUS
  <2>3. f = g \/ f = Rebuilt(g, schema)
    BY <1>2, <1>5, <2>1, <2>2 DEF Move
  <2>4. Shaped(g) /\ TypedSound(g)
    BY <1>1, <2>2, ShapeFacts, TypedKept
  <2> QED
    BY <1>2, <2>3, <2>4, TypedRebuilt
<1>6. CASE Type
  <2>1. /\ fm.idx = 1 => f \in {[fm EXCEPT !.parent = x] : x \in Parents}
        /\ fm.idx = 2 => f \in {[fm EXCEPT !.rdn = x] : x \in RDNs}
        /\ fm.idx = 3 => f \in {[fm EXCEPT !.classes = x] : x \in ClassLists}
        /\ fm.idx = LastField(fm) => f \in {[fm EXCEPT !.extra = x] : x \in Extras}
        /\ fm.idx # 1 /\ fm.idx # 2 /\ fm.idx # 3 /\ fm.idx # LastField(fm) =>
              f \in {[fm EXCEPT !.req[fm.idx - 3].val = text] : text \in Values}
    BY <1>2, <1>6, TypeIs
  <2> SUFFICES TypedSound(f)
    BY <1>2
  <2>2. CASE fm.idx = 1
    <3>1. PICK x \in Parents : f = [fm EXCEPT !.parent = x]
      BY <2>1, <2>2
    <3>2. TypedSound([fm EXCEPT !.parent = x])
      BY <1>1, TypedKept
    <3> QED
      BY <3>1, <3>2
  <2>3. CASE fm.idx = 2
    <3>1. PICK x \in RDNs : f = [fm EXCEPT !.rdn = x]
      BY <2>1, <2>3
    <3>2. TypedSound([fm EXCEPT !.rdn = x])
      BY <1>1, TypedKept, TypedAssumption, ListedFacts
    <3> QED
      BY <3>1, <3>2
  <2>4. CASE fm.idx = 3
    <3>1. PICK x \in ClassLists : f = [fm EXCEPT !.classes = x]
      BY <2>1, <2>4
    <3>2. TypedSound([fm EXCEPT !.classes = x])
      BY <1>1, TypedKept
    <3> QED
      BY <3>1, <3>2
  <2>5. CASE fm.idx = LastField(fm)
    <3>1. PICK x \in Extras : f = [fm EXCEPT !.extra = x]
      BY <2>1, <2>5
    <3>2. TypedSound([fm EXCEPT !.extra = x])
      BY <1>1, TypedKept, TypedAssumption, ListedFacts
    <3> QED
      BY <3>1, <3>2
  <2>6. CASE fm.idx # 1 /\ fm.idx # 2 /\ fm.idx # 3 /\ fm.idx # LastField(fm)
    <3>1. PICK text \in Values : f = [fm EXCEPT !.req[fm.idx - 3].val = text]
      BY <2>1, <2>6
    <3>2. PICK j : j = fm.idx - 3
      OBVIOUS
    <3>3. PICK x : x = ValuePut(fm.req, j, text)
      OBVIOUS
    <3>4. [fm EXCEPT !.req[j].val = text] = [fm EXCEPT !.req = x]
      BY <3>3, NestedPut
    <3>5. TypedSound([fm EXCEPT !.req = x])
      BY <1>1, TypedKept
    <3>6. TypedSound([fm EXCEPT !.req[j].val = text])
      BY <3>4, <3>5
    <3> QED
      BY <3>1, <3>2, <3>6
  <2> QED
    BY <2>2, <2>3, <2>4, <2>5, <2>6
<1>7. ASSUME NEW m, AddPicked(m) PROVE TypedSound(fm')
  <2>1. PICK x : x = WithPicked(fm.classes, m.names)
    OBVIOUS
  <2>2. PICK g : g = [fm EXCEPT !.classes = x]
    OBVIOUS
  <2>3. f = fm \/ f = Rebuilt(g, schema)
    BY <1>2, <1>7, <2>1, <2>2 DEF AddPicked
  <2>4. Shaped(g) /\ TypedSound(g)
    BY <1>1, <2>2, ShapeFacts, TypedKept
  <2> QED
    BY <1>2, <2>3, <2>4, TypedRebuilt
<1>8. CASE UNCHANGED vars \/ SchemaFailed \/ NeedSchema \/ PickClasses \/ Submit \/ Escape \/ Choose
           \/ Yes \/ Dismiss \/ \E m \in inbox : OpenOverlay(m) \/ Handle(m)
  <2>1. UNCHANGED fm
    BY <1>8 DEF vars, SchemaFailed, NeedSchema, PickClasses, Submit, Escape, Choose, Yes, Dismiss, OpenOverlay, Handle
  <2> QED
    BY <2>1
<1> QED
  BY <1>3, <1>4, <1>5, <1>6, <1>7, <1>8 DEF Next

-----------------------------------------------------------------------------
(* The entry and what it is warned of.                                     *)

LEMMA ConcatListed ==
    ASSUME NEW s, Listed(s), NEW t, Listed(t)
    PROVE  Listed(s \o t) /\ ToSet(s \o t) = ToSet(s) \cup ToSet(t)
<1>1. PICK S : S = ToSet(s) \cup ToSet(t)
  OBVIOUS
<1>2. s \in Seq(S) /\ t \in Seq(S)
  <2>1. PICK X, Y : X = ToSet(s) /\ Y = ToSet(t) /\ s \in Seq(X) /\ t \in Seq(Y)
    BY DEF Listed
  <2>2. X \subseteq S /\ Y \subseteq S
    BY <1>1, <2>1
  <2> QED
    BY <2>1, <2>2
<1>3. s \o t \in Seq(S)
  BY <1>2, ConcatProperties
<1>4. Listed(s \o t)
  BY <1>3, ListedFacts
<1>5. ToSet(s \o t) = ToSet(s) \cup ToSet(t)
  BY <1>2, ConcatElements
<1> QED
  BY <1>4, <1>5

\* One for each of a list.
LEMMA EachListed ==
    ASSUME NEW s, Listed(s), NEW t, DOMAIN t = DOMAIN s, t = [i \in DOMAIN s |-> t[i]]
    PROVE  Listed(t)
<1>1. PICK n \in Nat : DOMAIN s = 1 .. n
  BY ListedFacts
<1>2. PICK S : S = {t[i] : i \in 1 .. n}
  OBVIOUS
<1>3. t \in [1 .. n -> S]
  BY <1>1, <1>2
<1>4. t \in Seq(S)
  BY <1>3
<1> QED
  BY <1>4, ListedFacts

\* The entry gets what is put, with the classes first.
LEMMA PutsFacts ==
    ASSUME NEW f, FormSound(f), TypedSound(f)
    PROVE  /\ Listed(Puts(f))
           /\ \A c \in ToSet(f.classes) : [name |-> "objectClass", val |-> c] \in ToSet(Puts(f))
<1>1. PICK A, B, C, D :
        /\ A = [i \in DOMAIN f.classes |-> [name |-> "objectClass", val |-> f.classes[i]]]
        /\ B = [i \in DOMAIN f.rdn |-> [name |-> f.rdn[i], val |-> "r"]]
        /\ C = [i \in DOMAIN FilledIn(f) |-> [name |-> FilledIn(f)[i].label, val |-> FilledIn(f)[i].val]]
        /\ D = f.extra
  OBVIOUS
<1>2. Puts(f) = A \o B \o C \o D
  BY <1>1 DEF Puts
<1>3. Listed(A)
  <2>1. DOMAIN A = DOMAIN f.classes /\ A = [i \in DOMAIN f.classes |-> A[i]]
    BY <1>1
  <2> QED
    BY <2>1, EachListed DEF FormSound
<1>4. Listed(B)
  <2>1. DOMAIN B = DOMAIN f.rdn /\ B = [i \in DOMAIN f.rdn |-> B[i]]
    BY <1>1
  <2> QED
    BY <2>1, EachListed DEF TypedSound
<1>5. Listed(C)
  <2>1. \A K : Listed(Only(f.req, K))
    BY OnlyFacts, ListedFacts DEF FormSound
  <2>2. Listed(FilledIn(f))
    BY <2>1, Zenon DEF FilledIn
  <2>3. DOMAIN C = DOMAIN FilledIn(f) /\ C = [i \in DOMAIN FilledIn(f) |-> C[i]]
    BY <1>1
  <2> QED
    BY <2>2, <2>3, EachListed
<1>6. Listed(D)
  BY <1>1 DEF TypedSound
<1>7. Listed(A \o B) /\ ToSet(A \o B) = ToSet(A) \cup ToSet(B)
  BY <1>3, <1>4, ConcatListed
<1>8. Listed(A \o B \o C) /\ ToSet(A \o B \o C) = ToSet(A \o B) \cup ToSet(C)
  BY <1>5, <1>7, ConcatListed
<1>9. Listed(A \o B \o C \o D) /\ ToSet(A \o B \o C \o D) = ToSet(A \o B \o C) \cup ToSet(D)
  BY <1>6, <1>8, ConcatListed
<1>10. \A c \in ToSet(f.classes) : [name |-> "objectClass", val |-> c] \in ToSet(A)
  BY <1>1 DEF ToSet
<1> QED
  BY <1>2, <1>7, <1>8, <1>9, <1>10

\* Under a name is what was put under it, and its spelling is one of those.
LEMMA EntryFacts ==
    ASSUME NEW f, Listed(Puts(f))
    PROVE  /\ \A k \in DOMAIN Entry(f) :
                /\ Lower[Entry(f)[k].name] = k
                /\ Cardinality(Entry(f)[k].vals) \in Nat /\ Cardinality(Entry(f)[k].vals) # 0
           /\ \A p \in ToSet(Puts(f)) :
                Lower[p.name] \in DOMAIN Entry(f) /\ p.val \in Entry(f)[Lower[p.name]].vals
<1>1. PICK puts : puts = Puts(f) /\ Listed(puts)
  OBVIOUS
<1>2. ASSUME NEW k
      PROVE  Listed(PutAs(f, k)) /\ ToSet(PutAs(f, k)) = {p \in ToSet(puts) : Lower[p.name] = k}
  <2>1. PICK K : K = {p \in ToSet(puts) : Lower[p.name] = k}
    OBVIOUS
  <2>2. PutAs(f, k) = Only(puts, K)
    BY <1>1, <2>1 DEF PutAs
  <2>3. Listed(Only(puts, K)) /\ ToSet(Only(puts, K)) = ToSet(puts) \cap K
    BY <1>1, OnlyFacts, ListedFacts
  <2> QED
    BY <2>1, <2>2, <2>3
<1>3. DOMAIN Entry(f) = {Lower[p.name] : p \in ToSet(puts)}
  BY <1>1 DEF Entry
<1>4. \A k \in DOMAIN Entry(f) :
        /\ Entry(f)[k].name = PutAs(f, k)[1].name
        /\ Entry(f)[k].vals = {p.val : p \in ToSet(PutAs(f, k))}
  BY DEF Entry
<1>5. ASSUME NEW k \in DOMAIN Entry(f)
      PROVE  /\ Lower[Entry(f)[k].name] = k
             /\ Cardinality(Entry(f)[k].vals) \in Nat /\ Cardinality(Entry(f)[k].vals) # 0
  <2>1. PICK list : list = PutAs(f, k) /\ Listed(list)
    BY <1>2
  <2>2. PICK p \in ToSet(puts) : Lower[p.name] = k
    BY <1>3, <1>5
  <2>3. p \in ToSet(list)
    BY <1>2, <2>1, <2>2
  <2>4. list[1] \in ToSet(list)
    <3>1. DOMAIN list = 1 .. Len(list) /\ Len(list) \in Nat
      BY <2>1, ListedFacts
    <3>2. PICK i \in DOMAIN list : p = list[i]
      BY <2>3 DEF ToSet
    <3>3. 1 \in DOMAIN list
      BY <3>1, <3>2
    <3> QED
      BY <3>3 DEF ToSet
  <2>5. Lower[list[1].name] = k
    BY <1>2, <2>1, <2>4
  <2>6. PICK V : V = {q.val : q \in ToSet(list)}
    OBVIOUS
  <2>7. IsFiniteSet(V) /\ p.val \in V
    <3>1. IsFiniteSet(ToSet(list))
      BY <2>1, ElementsFinite
    <3>2. IsFiniteSet(V)
      <4>1. PICK S : S = ToSet(list) /\ IsFiniteSet(S)
        BY <3>1
      <4>2. PICK g : g = [q \in S |-> q.val]
        OBVIOUS
      <4>3. V = {g[q] : q \in S}
        BY <2>6, <4>1, <4>2
      <4>4. g \in Surjection(S, V)
        BY <4>2, <4>3 DEF Surjection
      <4> QED
        BY <4>1, <4>4, FS_Surjection
    <3> QED
      BY <2>3, <2>6, <3>2
  <2>8. Cardinality(V) \in Nat /\ Cardinality(V) # 0
    BY <2>7, FS_CardinalityType, FS_EmptySet
  <2> QED
    BY <1>4, <2>1, <2>5, <2>6, <2>8
<1>6. ASSUME NEW p \in ToSet(puts)
      PROVE  Lower[p.name] \in DOMAIN Entry(f) /\ p.val \in Entry(f)[Lower[p.name]].vals
  <2>1. PICK k : k = Lower[p.name]
    OBVIOUS
  <2>2. k \in DOMAIN Entry(f)
    BY <1>3, <2>1
  <2>3. p \in ToSet(PutAs(f, k))
    BY <1>2, <2>1
  <2> QED
    BY <1>4, <2>1, <2>2, <2>3
<1> QED
  BY <1>1, <1>5, <1>6

LEMMA NoAncestors ==
    ASSUME NEW s, SchemaSound(s), NEW n
    PROVE  Class(s, n) = None <=> Ancestors(s, n) = {}
<1>1. Class(s, n) = None => Ancestors(s, n) = {}
  BY DEF Ancestors
<1>2. ASSUME Class(s, n) # None PROVE Ancestors(s, n) # {}
  <2>1. Class(s, n) \in ToSet(s.ClassList)
    BY <1>2, ClassFacts DEF ClassSet
  <2>2. Class(s, n) \in Ancestors(s, n)
    BY <1>2, <2>1 DEF Ancestors
  <2> QED
    BY <2>2
<1> QED
  BY <1>1, <1>2

\* The warnings of attributes are of those that do not fit.
LEMMA WarningFacts ==
    ASSUME NEW f, Listed(f.classes), NEW s, SchemaSound(s), s # None, NamesApart(s), Listed(Puts(f)),
           NEW k \in DOMAIN Entry(f), k # "objectclass"
    PROVE  LET n == Entry(f)[k].name
           IN  n \notin Warnings(f, s).attrs <=>
                 /\ Attr(s, n) # None
                 /\ Lower[CanonAttr(s, n)] \in Allowed(s, ToSet(f.classes)) \/ k \in RDNSet(f)
                 /\ Attr(s, n).single => Cardinality(Entry(f)[k].vals) = 1
<1>1. PICK e : e = Entry(f)
  OBVIOUS
<1>2. PICK r : r = Resolve(s, f.classes)
  OBVIOUS
<1>3. PICK allowed : allowed = {Lower[a] : a \in ToSet(r.must \o r.may)}
  OBVIOUS
<1>4. allowed = Allowed(s, ToSet(f.classes))
  BY <1>2, <1>3, InheritanceFacts DEF InheritanceSound
<1> DEFINE Odd(j) ==
      LET a == Attr(s, e[j].name)
      IN  IF a = None THEN TRUE
          ELSE \/ Lower[Name(a)] \notin allowed /\ j \notin RDNSet(f)
               \/ a.single /\ Cardinality(e[j].vals) > 1
<1>5. Warnings(f, s).attrs = {e[j].name : j \in {i \in DOMAIN e \ {"objectclass"} : Odd(i)}}
  BY <1>1, <1>2, <1>3 DEF Warnings
<1>6. \A j \in DOMAIN e : /\ Lower[e[j].name] = j
                          /\ Cardinality(e[j].vals) \in Nat /\ Cardinality(e[j].vals) # 0
  BY <1>1, EntryFacts
<1>7. e[k].name \in Warnings(f, s).attrs <=> Odd(k)
  <2> HIDE DEF Odd
  <2>1. k \in DOMAIN e \ {"objectclass"}
    BY <1>1
  <2>2. \A j \in DOMAIN e : e[j].name = e[k].name => j = k
    BY <1>6, <2>1
  <2> QED
    BY <1>5, <2>1, <2>2
<1>8. PICK a, c : a = Attr(s, e[k].name) /\ c = Cardinality(e[k].vals)
  OBVIOUS
<1>9. c > 1 <=> c # 1
  BY <1>1, <1>6, <1>8
<1>10. a # None => CanonAttr(s, e[k].name) = Name(a)
  BY <1>8 DEF CanonAttr
<1>11. ~Odd(k) <=> /\ a # None
                   /\ Lower[CanonAttr(s, e[k].name)] \in allowed \/ k \in RDNSet(f)
                   /\ a.single => c = 1
  BY <1>8, <1>9, <1>10
<1> HIDE DEF Odd
<1> QED
  BY <1>1, <1>4, <1>7, <1>8, <1>11

LEMMA FitsFacts ==
    ASSUME NEW f, FormSound(f), TypedSound(f), NEW s, SchemaSound(s), s # None, Complete(f, s)
    PROVE  Fits(f, s)
<1>1. Listed(f.classes) /\ Listed(Puts(f))
  BY PutsFacts DEF FormSound
<1>2. ToSet(f.classes) \subseteq Entry(f)["objectclass"].vals
  <2>1. ASSUME NEW c \in ToSet(f.classes) PROVE c \in Entry(f)["objectclass"].vals
    <3>1. PICK p : p = [name |-> "objectClass", val |-> c]
      OBVIOUS
    <3>2. p \in ToSet(Puts(f)) /\ Lower[p.name] = "objectclass" /\ p.val = c
      BY <3>1, PutsFacts, LowerAssumption
    <3> QED
      BY <1>1, <3>2, EntryFacts
  <2> QED
    BY <2>1
<1>3. Warnings(f, s).classes = {c \in ToSet(f.classes) : Ancestors(s, c) = {}}
  <2>1. Warnings(f, s).classes = {c \in ToSet(f.classes) : Class(s, c) = None}
    BY DEF Warnings
  <2> QED
    BY <2>1, NoAncestors
<1>4. ASSUME NamesApart(s) PROVE Demanded(s, ToSet(f.classes)) \subseteq DOMAIN Entry(f)
  <2>1. \A a \in ToSet(Must(s, f.classes)) : Lower[a] \in DOMAIN Entry(f)
    BY Zenon DEF Complete
  <2>2. {Lower[a] : a \in ToSet(Must(s, f.classes))} = Demanded(s, ToSet(f.classes))
    BY <1>1, <1>4, MustFacts
  <2> QED
    BY <2>1, <2>2
<1> QED
  BY <1>1, <1>2, <1>3, <1>4, WarningFacts DEF Fits

\* Only a submission asks whether to create the entry.
LEMMA OfferStep ==
    ASSUME [Next]_vars, Opening(Confirm) \in inbox' \ inbox
    PROVE  Submit
<1>1. \A m : Post(m) => Opening(Confirm) = m
  BY DEF Post
<1>2. \A kind : Opening(Confirm) # Plain(kind)
  BY DEF Opening, Plain
<1>3. \A names : Opening(Confirm) # Picked(names)
  BY DEF Opening, Picked
<1>4. Opening(Confirm) # Opening(Picker)
  BY DEF Opening, Confirm, Picker
<1>5. ~PickClasses
  BY <1>1, <1>2, <1>4 DEF PickClasses
<1>6. ~Escape /\ ~Yes
  BY <1>1, <1>2 DEF Escape, Yes
<1>7. ~Choose
  BY <1>1, <1>3 DEF Choose
<1>8. ~UNCHANGED inbox
  OBVIOUS
<1>9. ~ UNCHANGED vars /\ ~SchemaLoaded /\ ~SchemaFailed /\ ~NeedSchema /\ ~OpenAddEntryForm /\ ~Type /\ ~Dismiss
  BY <1>8 DEF vars, SchemaLoaded, SchemaFailed, NeedSchema, OpenAddEntryForm, Type, Dismiss
<1>10. \A d : ~Move(d)
  BY <1>8 DEF Move
<1>11. \A m : ~OpenOverlay(m) /\ ~AddPicked(m) /\ ~Handle(m)
  BY DEF OpenOverlay, AddPicked, Handle, Take
<1> QED
  BY <1>5, <1>6, <1>7, <1>9, <1>10, <1>11 DEF Next

-----------------------------------------------------------------------------
(* Theorems.                                                               *)

\* The invariant holds of every state.
LEMMA FormInvariant == Spec => []FormInv
BY FormInit, FormStep, PTL DEF Spec

LEMMA TypedInvariant == Spec => []TypedSound(fm)
<1>1. Init => TypedSound(fm)
  BY ListedFacts DEF Init, EmptyForm, TypedSound
<1>2. FormInv /\ TypedSound(fm) /\ [Next]_vars => TypedSound(fm)'
  BY TypedSteps
<1> QED
  BY <1>1, <1>2, FormInvariant, PTL DEF Spec

\* The cursor is on a field of the form, however many classes and attributes
\* the schema has and whenever it arrives.
THEOREM CursorOnField == Spec => []TypeOK
<1>1. FormInv => TypeOK
  <2> SUFFICES ASSUME FormInv PROVE TypeOK
    OBVIOUS
  <2>1. fm.idx \in 1 .. LastField(fm)
    BY DEF FormInv, OnField
  <2>2. \A i \in DOMAIN fm.req : fm.req[i].val \in Values
    BY DEF FormInv, FormSound, Field
  <2>3. ov.kind \in {"none", "picker", "confirm"}
    BY DEF FormInv, NoOverlay, Picker, Confirm
  <2>4. \A m \in inbox : m.kind \in {"needSchema", "openOverlay", "pickClasses", "formCancel", "doAdd"}
    BY DEF FormInv, MessageSound
  <2> QED
    BY <2>1, <2>2, <2>3, <2>4 DEF FormInv, TypeOK
<1> QED
  BY <1>1, FormInvariant, PTL

\* What was typed for an attribute stays with it, whatever happens to the
\* fields around it.
THEOREM NothingTypedMoves == Spec => TypedStays
<1>1. FormInv /\ [Next]_vars => [Stays]_vars
  BY FormStep
<1>2. Spec => [][Stays]_vars
  BY <1>1, FormInvariant, PTL DEF Spec
<1> QED
  BY <1>2 DEF TypedStays, Stays

\* Under a schema whose names are told apart the fields are what the classes of
\* now demand: the attributes of every class above them, whatever the graph of
\* superclasses, and none but these.
THEOREM FieldsAreDemanded == Spec => [](NamesApart(schema) => FieldsFollow)
<1>1. ASSUME FormInv, NamesApart(schema), screen = "form", schema # None, fm.idx \notin {RDNField, ClassField}
      PROVE  {Lower[r.label] : r \in ToSet(fm.req)}
               = Demanded(schema, ToSet(fm.classes)) \ ({"objectclass"} \cup RDNSet(fm))
  <2>1. SchemaSound(schema) /\ Listed(fm.classes)
    BY <1>1, ParseSound DEF FormInv, FormSound
  <2>2. Labels(fm) = Shown(fm, schema)
    BY <1>1 DEF FormInv, UpToDate, Rebuilding
  <2>3. {Lower[a] : a \in ToSet(Shown(fm, schema))}
          = Demanded(schema, ToSet(fm.classes)) \ ({"objectclass"} \cup RDNSet(fm))
    BY <1>1, <2>1, ShownFacts
  <2>4. ToSet(Labels(fm)) = {r.label : r \in ToSet(fm.req)}
    BY DEF Labels, ToSet
  <2>5. {Lower[a] : a \in ToSet(Labels(fm))} = {Lower[r.label] : r \in ToSet(fm.req)}
    BY <2>4
  <2> QED
    BY <2>2, <2>3, <2>5
<1>2. FormInv => (NamesApart(schema) => FieldsFollow)
  BY <1>1 DEF FieldsFollow
<1> QED
  BY <1>2, FormInvariant, PTL

\* What a schema says of classes and attributes, whatever the graph of
\* superclasses: a lineage has each ancestor once and after a class below it, and
\* what some classes require and allow is what their ancestors list.  Where the
\* look-up of an attribute finds it by its names, the classes it is used by are
\* the ones it comes from, and its values come from the SUP links.
THEOREM ClassesAreResolved ==
    Spec => [](schema # None /\ NamesApart(schema) =>
                  /\ \A n : LineageSound(schema, n)
                  /\ \A classes \in Seq(DOMAIN Lower) : InheritanceSound(schema, classes)
                  /\ NamesPlain(schema) =>
                        /\ \A classes \in Seq(DOMAIN Lower) : ResolveSound(schema, classes)
                        /\ \A a \in ToSet(schema.AttrList) : EffectiveSound(schema, a))
<1>1. ASSUME FormInv, schema # None, NamesApart(schema)
      PROVE  /\ \A n : LineageSound(schema, n)
             /\ \A classes \in Seq(DOMAIN Lower) : InheritanceSound(schema, classes)
             /\ NamesPlain(schema) =>
                   /\ \A classes \in Seq(DOMAIN Lower) : ResolveSound(schema, classes)
                   /\ \A a \in ToSet(schema.AttrList) : EffectiveSound(schema, a)
  <2>1. SchemaSound(schema) /\ AttrsSound(schema)
    BY <1>1, ParseSound, ParseAttrs DEF FormInv
  <2>2. \A n : LineageSound(schema, n)
    BY <1>1, <2>1, LineageInLine
  <2>3. \A classes \in Seq(DOMAIN Lower) : Listed(classes)
    BY ListedFacts
  <2>4. \A classes : Listed(classes) => InheritanceSound(schema, classes)
    BY <1>1, <2>1, InheritanceFacts
  <2>5. NamesPlain(schema) => \A classes : Listed(classes) => UseSound(schema, classes)
    BY <1>1, <2>1, UseFacts
  <2>6. NamesPlain(schema) => \A a \in ToSet(schema.AttrList) : EffectiveSound(schema, a)
    BY <1>1, <2>1, EffectiveFacts DEF AttrSet
  <2> QED
    BY <2>2, <2>3, <2>4, <2>5, <2>6 DEF ResolveSound
<1>2. FormInv =>
        (schema # None /\ NamesApart(schema) =>
            /\ \A n : LineageSound(schema, n)
            /\ \A classes \in Seq(DOMAIN Lower) : InheritanceSound(schema, classes)
            /\ NamesPlain(schema) =>
                  /\ \A classes \in Seq(DOMAIN Lower) : ResolveSound(schema, classes)
                  /\ \A a \in ToSet(schema.AttrList) : EffectiveSound(schema, a))
  BY <1>1
<1> QED
  BY <1>2, FormInvariant, PTL

\* A loaded schema answers what its definitions say, and what is offered for
\* creation under one has what its classes demand and is warned of where it
\* does not fit.
THEOREM SchemaIsHonoured == Spec => SchemaHonoured
<1>1. FormInv /\ [Next]_vars =>
        [schema' # schema /\ NamesApart(schema') /\ NamesPlain(schema') => Answers(schema')]_vars
  BY SchemaSteps, AnswersFacts
<1>2. FormInv /\ TypedSound(fm) /\ [Next]_vars =>
        [Opening(Confirm) \in inbox' \ inbox /\ schema # None => Fits(fm, schema)]_vars
  <2> SUFFICES ASSUME FormInv, TypedSound(fm), [Next]_vars, Opening(Confirm) \in inbox' \ inbox, schema # None
               PROVE  Fits(fm, schema)
    OBVIOUS
  <2>1. Complete(fm, schema)
    BY OfferStep DEF Submit
  <2>2. FormSound(fm) /\ SchemaSound(schema)
    BY ParseSound DEF FormInv
  <2> QED
    BY <2>1, <2>2, FitsFacts
<1>3. Spec => AnswersSound
  BY <1>1, FormInvariant, PTL DEF Spec, AnswersSound
<1>4. Spec => OfferChecked
  BY <1>2, FormInvariant, TypedInvariant, PTL DEF Spec, OfferChecked
<1> QED
  BY <1>3, <1>4 DEF SchemaHonoured
=============================================================================
