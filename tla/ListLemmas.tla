----------------------------- MODULE ListLemmas -----------------------------
(***************************************************************************)
(* Facts the other proofs share: induction and recursion on the natural    *)
(* numbers, said of sets and functions, and what becomes of a sequence     *)
(* that is cut and of a list of saved searches when one is pushed.         *)
(***************************************************************************)
EXTENDS Integers, Sequences, SequencesExt, SavedSearches, SequenceTheorems, WellFoundedInduction, TLAPS

SmallerThan == {p \in Nat \X Nat : p[1] < p[2]}

\* Every set of natural numbers that is not empty has a least element.
LEMMA LeastElement ==
    ASSUME NEW T \in SUBSET Nat, T # {}
    PROVE  \E x \in T : \A y \in T : x <= y
<1>1. IsWellFoundedOn(SmallerThan, Nat)
  BY NatLessThanWellFounded DEF OpToRel, SmallerThan
<1>2. PICK x \in T : \A y \in T : ~(<<y, x>> \in SmallerThan)
  BY <1>1, WFMin
<1>3. ASSUME NEW y \in T PROVE x <= y
  <2>1. <<y, x>> \notin SmallerThan
    BY <1>2
  <2>2. ~(y < x)
    BY <2>1 DEF SmallerThan
  <2> QED BY <2>2
<1> QED
  BY <1>3

\* A set that has 0 and with a number the next one has them all.
LEMMA SetInduction ==
    ASSUME NEW T, 0 \in T, \A n \in Nat : n \in T => n + 1 \in T
    PROVE  \A n \in Nat : n \in T
<1>1. CASE Nat \ T = {}
  BY <1>1
<1>2. CASE Nat \ T # {}
  <2>1. PICK x \in Nat \ T : \A y \in Nat \ T : x <= y
    BY <1>2, LeastElement
  <2>2. x # 0
    BY <2>1
  <2>3. x - 1 \in Nat /\ x - 1 \in T
    BY <2>1, <2>2
  <2> QED
    BY <2>1, <2>3
<1> QED
  BY <1>1, <1>2

-----------------------------------------------------------------------------
\* f follows the recursion with base b and step g up to n.
Recurs(f, b, g, n) == f[0] = b /\ \A i \in 0 .. n - 1 : f[i + 1] = g[i][f[i]]

LEMMA RecursionOnce ==
    ASSUME NEW b, NEW g, NEW m \in Nat, NEW n \in Nat, NEW f, NEW h,
           Recurs(f, b, g, m), Recurs(h, b, g, n)
    PROVE  \A i \in Nat : i <= m /\ i <= n => f[i] = h[i]
<1> DEFINE T == {i \in Nat : i <= m /\ i <= n => f[i] = h[i]}
<1>1. 0 \in T
  BY DEF Recurs
<1>2. ASSUME NEW i \in Nat, i \in T PROVE i + 1 \in T
  <2> SUFFICES ASSUME i + 1 <= m, i + 1 <= n PROVE f[i + 1] = h[i + 1]
    OBVIOUS
  <2>1. i \in 0 .. m - 1 /\ i \in 0 .. n - 1
    OBVIOUS
  <2>2. f[i] = h[i]
    BY <1>2, <2>1
  <2> QED
    BY <2>1, <2>2 DEF Recurs
<1> HIDE DEF T
<1>3. \A i \in Nat : i \in T
  BY <1>1, <1>2, SetInduction
<1> QED
  BY <1>3 DEF T

\* There is a function that follows the recursion.
Recursive(f, V, b, g) ==
    f \in [Nat -> V] /\ f[0] = b /\ \A n \in Nat : f[n + 1] = g[n][f[n]]

LEMMA Recursion ==
    ASSUME NEW V, NEW b \in V, NEW g \in [Nat -> [V -> V]]
    PROVE  \E f : Recursive(f, V, b, g)
<1> DEFINE T == {n \in Nat : \E h \in [0 .. n -> V] : Recurs(h, b, g, n)}
<1>1. 0 \in T
  <2>1. [i \in 0 .. 0 |-> b] \in [0 .. 0 -> V] /\ Recurs([i \in 0 .. 0 |-> b], b, g, 0)
    BY DEF Recurs
  <2> QED
    BY <2>1
<1>2. ASSUME NEW n \in Nat, n \in T PROVE n + 1 \in T
  <2>1. PICK h \in [0 .. n -> V] : Recurs(h, b, g, n)
    BY <1>2
  <2> DEFINE k == [i \in 0 .. n + 1 |-> IF i = n + 1 THEN g[n][h[n]] ELSE h[i]]
  <2>2. k \in [0 .. n + 1 -> V]
    OBVIOUS
  <2>3. k[n + 1] = g[n][h[n]] /\ \A i \in 0 .. n : k[i] = h[i]
    OBVIOUS
  <2> HIDE DEF k
  <2>4. ASSUME NEW i \in 0 .. n PROVE k[i + 1] = g[i][k[i]]
    <3>1. CASE i = n
      BY <2>3, <3>1
    <3>2. CASE i # n
      <4>1. i \in 0 .. n - 1 /\ i + 1 \in 0 .. n
        BY <3>2
      <4>2. h[i + 1] = g[i][h[i]]
        BY <2>1, <4>1 DEF Recurs
      <4> QED
        BY <2>3, <4>1, <4>2
    <3> QED
      BY <3>1, <3>2
  <2>5. k[0] = b
    BY <2>1, <2>3 DEF Recurs
  <2>6. (n + 1) - 1 = n
    OBVIOUS
  <2>7. Recurs(k, b, g, n + 1)
    BY <2>4, <2>5, <2>6 DEF Recurs
  <2> QED
    BY <2>2, <2>7
<1>3. \A n \in Nat : n \in T
  <2> HIDE DEF T
  <2> QED
    BY <1>1, <1>2, SetInduction
<1> DEFINE Upto(n) == CHOOSE h \in [0 .. n -> V] : Recurs(h, b, g, n)
           f == [n \in Nat |-> Upto(n)[n]]
<1>4. ASSUME NEW n \in Nat PROVE Upto(n) \in [0 .. n -> V] /\ Recurs(Upto(n), b, g, n)
  BY <1>3
<1>5. ASSUME NEW n \in Nat PROVE f[n] \in V
  BY <1>4
<1>6. f[0] = b
  BY <1>4 DEF Recurs
<1>7. ASSUME NEW n \in Nat PROVE f[n + 1] = g[n][f[n]]
  <2> HIDE DEF Upto
  <2>1. Recurs(Upto(n + 1), b, g, n + 1) /\ Recurs(Upto(n), b, g, n)
    BY <1>4
  <2>2. Upto(n + 1)[n] = Upto(n)[n]
    BY <2>1, RecursionOnce
  <2>3. Upto(n + 1)[n + 1] = g[n][Upto(n + 1)[n]]
    BY <2>1 DEF Recurs
  <2> QED
    BY <2>2, <2>3
<1> QED
  <2> HIDE DEF f
  <2>1. f \in [Nat -> V]
    BY <1>5 DEF f
  <2> QED
    BY <2>1, <1>6, <1>7 DEF Recursive
-----------------------------------------------------------------------------
LEMMA PrefixFacts ==
    ASSUME NEW S, NEW s \in Seq(S), NEW n \in 0 .. Len(s)
    PROVE  /\ SubSeq(s, 1, n) \in Seq(S) /\ Len(SubSeq(s, 1, n)) = n
           /\ \A j \in 1 .. n : SubSeq(s, 1, n)[j] = s[j]
OBVIOUS

LEMMA ShiftFacts ==
    ASSUME NEW n \in Int, NEW i \in 1 .. n, NEW j \in i .. n - 1
    PROVE  /\ j \in 1 .. (i - 1) + (n - i) /\ ~(j <= i - 1)
           /\ j - (i - 1) \in 1 .. n - i /\ (j - (i - 1)) + i = j + 1
OBVIOUS

\* The sequence s without its element at i.
Cut(s, i) == SubSeq(s, 1, i - 1) \o SubSeq(s, i + 1, Len(s))

LEMMA CutFacts ==
    ASSUME NEW S, NEW s \in Seq(S), NEW i \in DOMAIN s
    PROVE  /\ Cut(s, i) \in Seq(S) /\ Len(Cut(s, i)) = Len(s) - 1
           /\ \A j \in 1 .. i - 1 : Cut(s, i)[j] = s[j]
           /\ \A j \in i .. Len(s) - 1 : Cut(s, i)[j] = s[j + 1]
<1> DEFINE t == Cut(s, i)
           a == SubSeq(s, 1, i - 1)
           b == SubSeq(s, i + 1, Len(s))
<1>0. Len(s) \in Nat /\ i \in 1 .. Len(s) /\ DOMAIN s = 1 .. Len(s)
  BY LenProperties
<1>1. a \in Seq(S) /\ Len(a) = i - 1 /\ \A j \in 1 .. i - 1 : a[j] = s[j]
  BY <1>0, PrefixFacts
<1>2. b \in Seq(S) /\ Len(b) = Len(s) - i /\ \A j \in 1 .. Len(s) - i : b[j] = s[j + i]
  <2>1. i + 1 \in Int /\ Len(s) \in Int /\ \A j \in i + 1 .. Len(s) : s[j] \in S
    BY <1>0, ElementOfSeq
  <2>2. /\ b \in Seq(S) /\ Len(b) = IF i + 1 <= Len(s) THEN Len(s) - (i + 1) + 1 ELSE 0
        /\ \A j \in 1 .. Len(s) - (i + 1) + 1 : b[j] = s[(i + 1) + j - 1]
    BY <2>1, SubSeqProperties
  <2> HIDE DEF b
  <2>3. \A j \in 1 .. Len(s) - i : j \in 1 .. Len(s) - (i + 1) + 1 /\ (i + 1) + j - 1 = j + i
    BY <1>0
  <2>4. Len(b) = Len(s) - i
    BY <1>0, <2>2
  <2> QED
    BY <2>2, <2>3, <2>4
<1> HIDE DEF a, b
<1>3. t = a \o b
  BY DEF a, b, Cut
<1> HIDE DEF t
<1>4. /\ t \in Seq(S) /\ Len(t) = (i - 1) + (Len(s) - i)
      /\ \A j \in 1 .. (i - 1) + (Len(s) - i) :
           t[j] = IF j <= i - 1 THEN a[j] ELSE b[j - (i - 1)]
  <2>1. /\ a \o b \in Seq(S) /\ Len(a \o b) = Len(a) + Len(b)
        /\ \A j \in 1 .. Len(a) + Len(b) : (a \o b)[j] = IF j <= Len(a) THEN a[j] ELSE b[j - Len(a)]
    BY <1>1, <1>2, ConcatProperties, Zenon
  <2> QED
    BY <2>1, <1>1, <1>2, <1>3, Zenon
<1>5. (i - 1) + (Len(s) - i) = Len(s) - 1
  BY <1>0
<1>6. ASSUME NEW j \in 1 .. i - 1 PROVE t[j] = s[j]
  <2>1. j \in 1 .. (i - 1) + (Len(s) - i) /\ j <= i - 1
    BY <1>0
  <2> QED
    BY <1>1, <1>4, <2>1
<1>7. ASSUME NEW j \in i .. Len(s) - 1 PROVE t[j] = s[j + 1]
  <2>1. /\ j \in 1 .. (i - 1) + (Len(s) - i) /\ ~(j <= i - 1)
        /\ j - (i - 1) \in 1 .. Len(s) - i /\ (j - (i - 1)) + i = j + 1
    <3>1. Len(s) \in Int
      BY <1>0
    <3> QED
      BY <1>0, <3>1, ShiftFacts, Zenon
  <2>2. t[j] = b[j - (i - 1)]
    BY <1>4, <2>1, Zenon
  <2>3. b[j - (i - 1)] = s[(j - (i - 1)) + i]
    BY <1>2, <2>1, Zenon
  <2> QED
    BY <2>1, <2>2, <2>3, Zenon
<1> QED
  BY <1>4, <1>5, <1>6, <1>7, Zenon DEF t

LEMMA CutDomain ==
    ASSUME NEW n \in Nat, NEW i \in 1 .. n
    PROVE  /\ \A j \in 1 .. n - 1 : j < i => j \in 1 .. i - 1 /\ j \in 1 .. n
           /\ \A j \in 1 .. n - 1 : ~(j < i) => j \in i .. n - 1 /\ j + 1 \in 1 .. n
           /\ \A x \in 1 .. n : x # i /\ x < i => x \in 1 .. i - 1 /\ x \in 1 .. n - 1
           /\ \A x \in 1 .. n : x # i /\ ~(x < i) =>
                x - 1 \in i .. n - 1 /\ x - 1 \in 1 .. n - 1 /\ (x - 1) + 1 = x
OBVIOUS

\* Which elements are left, and that none is there more often than before.
LEMMA CutElements ==
    ASSUME NEW S, NEW s \in Seq(S), NEW i \in DOMAIN s
    PROVE  /\ \A x \in DOMAIN s \ {i} : \E j \in DOMAIN Cut(s, i) : Cut(s, i)[j] = s[x]
           /\ \A j \in DOMAIN Cut(s, i) : \E x \in DOMAIN s : Cut(s, i)[j] = s[x]
           /\ \A j, k \in DOMAIN Cut(s, i) :
                j # k => \E x, y \in DOMAIN s :
                           x # y /\ Cut(s, i)[j] = s[x] /\ Cut(s, i)[k] = s[y]
<1> DEFINE t == Cut(s, i)
<1>1. Len(s) \in Nat /\ i \in 1 .. Len(s) /\ DOMAIN s = 1 .. Len(s)
  BY LenProperties
<1>2. /\ t \in Seq(S) /\ Len(t) = Len(s) - 1
      /\ \A j \in 1 .. i - 1 : t[j] = s[j]
      /\ \A j \in i .. Len(s) - 1 : t[j] = s[j + 1]
  BY CutFacts
<1> HIDE DEF t
<1>3. DOMAIN t = 1 .. Len(s) - 1
  <2>1. DOMAIN t = 1 .. Len(t)
    BY <1>2, LenProperties
  <2> QED
    BY <1>2, <2>1
<1>4. \A x \in 1 .. Len(s) : x # i => \E j \in DOMAIN t : t[j] = s[x]
  <2> SUFFICES ASSUME NEW x \in 1 .. Len(s), x # i PROVE \E j \in DOMAIN t : t[j] = s[x]
    OBVIOUS
  <2>1. CASE x < i
    BY <1>1, <1>2, <1>3, <2>1, CutDomain
  <2>2. CASE ~(x < i)
    <3>1. x - 1 \in i .. Len(s) - 1 /\ x - 1 \in 1 .. Len(s) - 1 /\ (x - 1) + 1 = x
      BY <1>1, <2>2, CutDomain
    <3>2. t[x - 1] = s[x]
      BY <1>2, <3>1, Zenon
    <3> QED
      BY <1>3, <3>1, <3>2
  <2> QED
    BY <2>1, <2>2
<1> DEFINE from == [j \in DOMAIN t |-> IF j < i THEN j ELSE j + 1]
<1>5. ASSUME NEW j \in DOMAIN t PROVE from[j] \in DOMAIN s /\ t[j] = s[from[j]]
  <2>1. CASE j < i
    <3>1. from[j] = j
      BY <2>1
    <3> QED
      BY <1>1, <1>2, <1>3, <2>1, <3>1, CutDomain
  <2>2. CASE ~(j < i)
    <3>1. from[j] = j + 1
      BY <2>2
    <3> QED
      BY <1>1, <1>2, <1>3, <2>2, <3>1, CutDomain
  <2> QED
    BY <2>1, <2>2
<1>6. ASSUME NEW j \in DOMAIN t, NEW k \in DOMAIN t, j # k PROVE from[j] # from[k]
  <2>1. j \in Int /\ k \in Int /\ i \in Int
    BY <1>1, <1>3
  <2> QED
    BY <1>6, <2>1
<1> HIDE DEF from
<1>7. \A x \in DOMAIN s \ {i} : \E j \in DOMAIN t : t[j] = s[x]
  BY <1>1, <1>4
<1>8. \A j \in DOMAIN t : \E x \in DOMAIN s : t[j] = s[x]
  BY <1>5
<1>9. \A j, k \in DOMAIN t :
        j # k => \E x, y \in DOMAIN s : x # y /\ t[j] = s[x] /\ t[k] = s[y]
  BY <1>5, <1>6
<1> QED
  BY <1>7, <1>8, <1>9 DEF t

-----------------------------------------------------------------------------
\* A recursive function on 0 .. n is what its equation says.
RecursiveTo(f, V, b, g, n) ==
    f \in [0 .. n -> V] /\ f[0] = b /\ \A i \in 1 .. n : f[i] = g[i - 1][f[i - 1]]

LEMMA RecursiveFunction ==
    ASSUME NEW V, NEW b \in V, NEW g \in [Nat -> [V -> V]], NEW n \in Nat
    PROVE  \E f : RecursiveTo(f, V, b, g, n)
<1>0. PICK h : Recursive(h, V, b, g)
  BY Recursion
<1>1. h \in [Nat -> V] /\ h[0] = b /\ \A i \in Nat : h[i + 1] = g[i][h[i]]
  BY <1>0 DEF Recursive
<1> DEFINE f == [i \in 0 .. n |-> h[i]]
<1>2. f \in [0 .. n -> V] /\ f[0] = b
  BY <1>1
<1>3. ASSUME NEW i \in 1 .. n PROVE f[i] = g[i - 1][f[i - 1]]
  <2>1. i - 1 \in Nat /\ i - 1 \in 0 .. n /\ i \in 0 .. n /\ (i - 1) + 1 = i
    OBVIOUS
  <2>2. h[(i - 1) + 1] = g[i - 1][h[i - 1]]
    BY <1>1, <2>1, Zenon
  <2> QED
    BY <2>1, <2>2
<1> HIDE DEF f
<1> QED
  BY <1>2, <1>3 DEF RecursiveTo

\* A loop that keeps of s what is in K: f[i] is what it has after i elements.
Loops(f, s, K) ==
    /\ f[0] = <<>>
    /\ \A i \in 1 .. Len(s) : f[i] = IF s[i] \in K THEN Append(f[i - 1], s[i]) ELSE f[i - 1]

LEMMA LoopExists ==
    ASSUME NEW S, NEW s \in Seq(S), NEW K
    PROVE  \E f \in [0 .. Len(s) -> Seq(S)] : Loops(f, s, K)
<1> DEFINE g == [i \in Nat |-> [q \in Seq(S) |->
                  IF i + 1 \in 1 .. Len(s) /\ s[i + 1] \in K THEN Append(q, s[i + 1]) ELSE q]]
<1>1. g \in [Nat -> [Seq(S) -> Seq(S)]]
  <2>1. ASSUME NEW i \in Nat, NEW q \in Seq(S), i + 1 \in 1 .. Len(s)
        PROVE  Append(q, s[i + 1]) \in Seq(S)
    BY <2>1
  <2> QED
    BY <2>1
<1>2. <<>> \in Seq(S) /\ Len(s) \in Nat
  OBVIOUS
<1>a. PICK f : RecursiveTo(f, Seq(S), <<>>, g, Len(s))
  <2> HIDE DEF g
  <2> QED
    BY <1>1, <1>2, RecursiveFunction
<1>3. /\ f \in [0 .. Len(s) -> Seq(S)]
      /\ f[0] = <<>> /\ \A i \in 1 .. Len(s) : f[i] = g[i - 1][f[i - 1]]
  BY <1>a DEF RecursiveTo
<1>4. ASSUME NEW i \in 1 .. Len(s)
      PROVE  f[i] = IF s[i] \in K THEN Append(f[i - 1], s[i]) ELSE f[i - 1]
  <2>0. i - 1 \in Nat /\ i - 1 \in 0 .. Len(s) /\ (i - 1) + 1 = i
    BY <1>2
  <2>1. i - 1 \in Nat /\ f[i - 1] \in Seq(S) /\ (i - 1) + 1 = i
    BY <1>3, <2>0
  <2>2. g[i - 1][f[i - 1]] = IF (i - 1) + 1 \in 1 .. Len(s) /\ s[(i - 1) + 1] \in K
                             THEN Append(f[i - 1], s[(i - 1) + 1]) ELSE f[i - 1]
    BY <2>1
  <2> QED
    BY <1>3, <2>1, <2>2
<1> QED
  BY <1>3, <1>4 DEF Loops

LEMMA LoopOnce ==
    ASSUME NEW s, Len(s) \in Nat, NEW K, NEW f, NEW h, Loops(f, s, K), Loops(h, s, K)
    PROVE  \A i \in 0 .. Len(s) : f[i] = h[i]
<1> DEFINE T == {i \in Nat : i <= Len(s) => f[i] = h[i]}
<1>1. 0 \in T
  BY DEF Loops
<1>2. ASSUME NEW i \in Nat, i \in T PROVE i + 1 \in T
  <2> SUFFICES ASSUME i + 1 <= Len(s) PROVE f[i + 1] = h[i + 1]
    OBVIOUS
  <2>1. i + 1 \in 1 .. Len(s) /\ (i + 1) - 1 = i /\ f[i] = h[i]
    BY <1>2
  <2> QED
    BY <2>1 DEF Loops
<1>3. \A i \in Nat : i \in T
  <2> HIDE DEF T
  <2> QED
    BY <1>1, <1>2, SetInduction
<1> QED
  BY <1>3

\* What the loop leaves are elements of s that are in K, none of them twice.
LEMMA LoopFacts ==
    ASSUME NEW S, NEW s \in Seq(S), NEW K, NEW f \in [0 .. Len(s) -> Seq(S)], Loops(f, s, K)
    PROVE  /\ f[Len(s)] \in Seq(S)
           /\ \A j \in DOMAIN f[Len(s)] :
                \E x \in DOMAIN s : s[x] \in K /\ f[Len(s)][j] = s[x]
           /\ \A j, k \in DOMAIN f[Len(s)] :
                j # k => \E x, y \in DOMAIN s :
                           x # y /\ f[Len(s)][j] = s[x] /\ f[Len(s)][k] = s[y]
<1> DEFINE From(i) == \A j \in 1 .. Len(f[i]) : \E x \in 1 .. i : s[x] \in K /\ f[i][j] = s[x]
           Apart(i) == \A j, k \in 1 .. Len(f[i]) :
                         j # k => \E x, y \in 1 .. i : x # y /\ f[i][j] = s[x] /\ f[i][k] = s[y]
           T == {i \in Nat : i <= Len(s) => From(i) /\ Apart(i)}
<1>1. 0 \in T
  <2>1. Len(f[0]) = 0
    BY DEF Loops
  <2> QED
    BY <2>1
<1>2. ASSUME NEW i \in Nat, i \in T PROVE i + 1 \in T
  <2> SUFFICES ASSUME i + 1 <= Len(s) PROVE From(i + 1) /\ Apart(i + 1)
    OBVIOUS
  <2>1. i \in 0 .. Len(s) /\ i + 1 \in 1 .. Len(s) /\ (i + 1) - 1 = i
    OBVIOUS
  <2>2. From(i) /\ Apart(i) /\ f[i] \in Seq(S) /\ s[i + 1] \in S
    BY <1>2, <2>1
  <2>3. \/ s[i + 1] \in K /\ f[i + 1] = Append(f[i], s[i + 1])
        \/ f[i + 1] = f[i]
    BY <2>1 DEF Loops
  <2>4. CASE f[i + 1] = f[i]
    <3>1. From(i + 1)
      BY <2>2, <2>4
    <3>2. Apart(i + 1)
      BY <2>2, <2>4
    <3> QED
      BY <3>1, <3>2
  <2>5. CASE s[i + 1] \in K /\ f[i + 1] = Append(f[i], s[i + 1])
    <3>1. /\ Len(f[i]) \in Nat /\ Len(f[i + 1]) = Len(f[i]) + 1 /\ f[i + 1][Len(f[i]) + 1] = s[i + 1]
          /\ \A j \in 1 .. Len(f[i]) : f[i + 1][j] = f[i][j]
      BY <2>2, <2>5
    <3>2. From(i + 1)
      BY <2>2, <2>5, <3>1
    <3>3. Apart(i + 1)
      <4> SUFFICES ASSUME NEW j \in 1 .. Len(f[i + 1]), NEW k \in 1 .. Len(f[i + 1]), j # k
                   PROVE  \E x, y \in 1 .. i + 1 : x # y /\ f[i + 1][j] = s[x] /\ f[i + 1][k] = s[y]
        OBVIOUS
      <4>1. CASE j \in 1 .. Len(f[i]) /\ k \in 1 .. Len(f[i])
        <5>1. \E x, y \in 1 .. i : x # y /\ f[i][j] = s[x] /\ f[i][k] = s[y]
          BY <2>2, <4>1, Zenon
        <5>2. PICK x \in 1 .. i, y \in 1 .. i : x # y /\ f[i][j] = s[x] /\ f[i][k] = s[y]
          BY <5>1, Zenon
        <5>3. x \in 1 .. i + 1 /\ y \in 1 .. i + 1
          OBVIOUS
        <5>4. f[i + 1][j] = s[x] /\ f[i + 1][k] = s[y]
          BY <3>1, <4>1, <5>2
        <5> QED
          BY <5>2, <5>3, <5>4
      <4>2. CASE j = Len(f[i]) + 1 /\ k \in 1 .. Len(f[i])
        <5>1. PICK y \in 1 .. i : f[i][k] = s[y]
          BY <2>2, <4>2
        <5>2. y # i + 1 /\ y \in 1 .. i + 1 /\ i + 1 \in 1 .. i + 1
          OBVIOUS
        <5>3. f[i + 1][j] = s[i + 1] /\ f[i + 1][k] = s[y]
          BY <3>1, <4>2, <5>1
        <5> QED
          BY <5>2, <5>3
      <4>3. CASE k = Len(f[i]) + 1 /\ j \in 1 .. Len(f[i])
        <5>1. PICK x \in 1 .. i : f[i][j] = s[x]
          BY <2>2, <4>3
        <5>2. x # i + 1 /\ x \in 1 .. i + 1 /\ i + 1 \in 1 .. i + 1
          OBVIOUS
        <5>3. f[i + 1][j] = s[x] /\ f[i + 1][k] = s[i + 1]
          BY <3>1, <4>3, <5>1
        <5> QED
          BY <5>2, <5>3
      <4> QED
        BY <3>1, <4>1, <4>2, <4>3
    <3> QED
      BY <3>2, <3>3
  <2> QED
    BY <2>3, <2>4, <2>5
<1>3. \A i \in Nat : i \in T
  <2> HIDE DEF T
  <2> QED
    BY <1>1, <1>2, SetInduction
<1>4. Len(s) \in Nat /\ DOMAIN s = 1 .. Len(s) /\ f[Len(s)] \in Seq(S)
  OBVIOUS
<1>5. From(Len(s)) /\ Apart(Len(s))
  <2>1. Len(s) \in T
    BY <1>3, <1>4
  <2> HIDE DEF From, Apart
  <2> QED
    BY <1>4, <2>1
<1>6. DOMAIN f[Len(s)] = 1 .. Len(f[Len(s)])
  BY <1>4, LenProperties
<1>7. \A j \in DOMAIN f[Len(s)] : \E x \in DOMAIN s : s[x] \in K /\ f[Len(s)][j] = s[x]
  BY <1>4, <1>5, <1>6
<1>8. \A j, k \in DOMAIN f[Len(s)] :
        j # k => \E x, y \in DOMAIN s : x # y /\ f[Len(s)][j] = s[x] /\ f[Len(s)][k] = s[y]
  <2> SUFFICES ASSUME NEW j \in DOMAIN f[Len(s)], NEW k \in DOMAIN f[Len(s)], j # k
               PROVE  \E x, y \in DOMAIN s : x # y /\ f[Len(s)][j] = s[x] /\ f[Len(s)][k] = s[y]
    OBVIOUS
  <2>1. j \in 1 .. Len(f[Len(s)]) /\ k \in 1 .. Len(f[Len(s)])
    BY <1>6, Zenon
  <2>2. \E x, y \in 1 .. Len(s) : x # y /\ f[Len(s)][j] = s[x] /\ f[Len(s)][k] = s[y]
    BY <1>5, <2>1, Zenon
  <2>3. PICK x \in 1 .. Len(s), y \in 1 .. Len(s) :
          x # y /\ f[Len(s)][j] = s[x] /\ f[Len(s)][k] = s[y]
    BY <2>2, Zenon
  <2>4. x \in DOMAIN s /\ y \in DOMAIN s
    BY <1>4, Zenon
  <2> QED
    BY <2>3, <2>4, Zenon
<1> QED
  BY <1>4, <1>7, <1>8

-----------------------------------------------------------------------------
(* Several sequences, one after the other.                                 *)

\* f[i] is the first i sequences.
Joins(f, ss) == f[0] = <<>> /\ \A i \in 1 .. Len(ss) : f[i] = f[i - 1] \o ss[i]

Agree(s, t, k) ==
    /\ Len(s) \in Nat /\ Len(t) \in Nat /\ k \in 0 .. Len(s) /\ k \in 0 .. Len(t)
    /\ \A i \in 1 .. k : s[i] = t[i]

LEMMA JoinsOnce ==
    ASSUME NEW ss, NEW tt, NEW k, Agree(ss, tt, k),
           NEW f, NEW h, Joins(f, ss), Joins(h, tt)
    PROVE  f[k] = h[k]
<1> DEFINE T == {i \in Nat : i <= k => f[i] = h[i]}
<1>0. k \in Nat /\ Len(ss) \in Nat /\ Len(tt) \in Nat /\ k <= Len(ss) /\ k <= Len(tt)
  BY DEF Agree
<1>1. 0 \in T
  BY DEF Joins
<1>2. ASSUME NEW i \in Nat, i \in T PROVE i + 1 \in T
  <2> SUFFICES ASSUME i + 1 <= k PROVE f[i + 1] = h[i + 1]
    OBVIOUS
  <2>1. i + 1 \in 1 .. k /\ i + 1 \in 1 .. Len(ss) /\ i + 1 \in 1 .. Len(tt)
    BY <1>0
  <2>2. (i + 1) - 1 = i /\ f[i] = h[i]
    BY <1>0, <1>2
  <2>3. f[i + 1] = f[i] \o ss[i + 1] /\ h[i + 1] = h[i] \o tt[i + 1]
    BY <2>1, <2>2 DEF Joins
  <2>4. ss[i + 1] = tt[i + 1]
    BY <2>1 DEF Agree
  <2> QED
    BY <2>2, <2>3, <2>4
<1>3. \A i \in Nat : i \in T
  <2> HIDE DEF T
  <2> QED
    BY <1>1, <1>2, SetInduction
<1> QED
  BY <1>0, <1>3

LEMMA JoinsExist ==
    ASSUME NEW S, NEW ss \in Seq(Seq(S))
    PROVE  \E f \in [0 .. Len(ss) -> Seq(S)] : Joins(f, ss)
<1> DEFINE g == [i \in Nat |-> [q \in Seq(S) |->
                  IF i + 1 \in 1 .. Len(ss) THEN q \o ss[i + 1] ELSE q]]
<1>0. Len(ss) \in Nat /\ \A i \in 1 .. Len(ss) : ss[i] \in Seq(S)
  OBVIOUS
<1>1. g \in [Nat -> [Seq(S) -> Seq(S)]]
  <2>1. ASSUME NEW i \in Nat, NEW q \in Seq(S), i + 1 \in 1 .. Len(ss)
        PROVE  q \o ss[i + 1] \in Seq(S)
    <3>1. ss[i + 1] \in Seq(S)
      BY <1>0, <2>1
    <3> QED
      BY <3>1, ConcatProperties
  <2> QED
    BY <2>1
<1>2. <<>> \in Seq(S)
  OBVIOUS
<1>3. PICK f : RecursiveTo(f, Seq(S), <<>>, g, Len(ss))
  <2> HIDE DEF g
  <2> QED
    BY <1>0, <1>1, <1>2, RecursiveFunction
<1>4. f \in [0 .. Len(ss) -> Seq(S)] /\ f[0] = <<>>
      /\ \A i \in 1 .. Len(ss) : f[i] = g[i - 1][f[i - 1]]
  <2> HIDE DEF g
  <2> QED
    BY <1>3 DEF RecursiveTo
<1>5. ASSUME NEW i \in 1 .. Len(ss) PROVE f[i] = f[i - 1] \o ss[i]
  <2>1. i - 1 \in Nat /\ i - 1 \in 0 .. Len(ss) /\ (i - 1) + 1 = i
    BY <1>0
  <2>2. f[i - 1] \in Seq(S)
    BY <1>4, <2>1
  <2>3. g[i - 1][f[i - 1]] = IF (i - 1) + 1 \in 1 .. Len(ss)
                             THEN f[i - 1] \o ss[(i - 1) + 1] ELSE f[i - 1]
    BY <2>1, <2>2
  <2>4. (IF (i - 1) + 1 \in 1 .. Len(ss) THEN f[i - 1] \o ss[(i - 1) + 1] ELSE f[i - 1])
          = f[i - 1] \o ss[i]
    BY <2>1
  <2> HIDE DEF g
  <2> QED
    BY <1>4, <2>3, <2>4
<1> QED
  BY <1>4, <1>5 DEF Joins

LEMMA FlattenFacts ==
    ASSUME NEW S, NEW ss \in Seq(Seq(S)), NEW f \in [0 .. Len(ss) -> Seq(S)], Joins(f, ss)
    PROVE  FlattenSeq(ss) = f[Len(ss)]
<1>0. Len(ss) \in Nat /\ \A i \in 1 .. Len(ss) : ss[i] \in Seq(S)
  OBVIOUS
<1>1. CASE Len(ss) = 0
  <2>1. ss = <<>>
    BY <1>1
  <2> QED
    BY <1>1, <2>1 DEF FlattenSeq, Joins
<1>2. CASE Len(ss) # 0
  <2> DEFINE Step(h, i) == IF i = 1 THEN ss[i] ELSE h[i - 1] \o ss[i]
             Solves(h) == h = [i \in 1 .. Len(ss) |-> Step(h, i)]
             flatten == CHOOSE h : Solves(h)
             e == [i \in 1 .. Len(ss) |-> f[i]]
  <2>1. FlattenSeq(ss) = flatten[Len(ss)]
    BY <1>2 DEF FlattenSeq
  <2>2. \A i \in 1 .. Len(ss) : e[i] = Step(e, i)
    <3> SUFFICES ASSUME NEW i \in 1 .. Len(ss) PROVE f[i] = Step(e, i)
      OBVIOUS
    <3>1. f[i] = f[i - 1] \o ss[i]
      BY DEF Joins
    <3>2. CASE i = 1
      <4>1. f[0] = <<>> /\ i - 1 = 0 /\ ss[i] \in Seq(S)
        BY <1>0, <3>2 DEF Joins
      <4> QED
        BY <3>1, <3>2, <4>1, ConcatEmptySeq
    <3>3. CASE i # 1
      <4>1. i - 1 \in 1 .. Len(ss)
        BY <1>0, <3>3
      <4> QED
        BY <3>1, <3>3, <4>1
    <3> QED
      BY <3>2, <3>3
  <2>3. Solves(e)
    <3>1. e = [i \in 1 .. Len(ss) |-> e[i]]
      OBVIOUS
    <3> HIDE DEF e, Step
    <3> QED
      BY <2>2, <3>1
  <2>4. Solves(flatten)
    <3> HIDE DEF e, Solves
    <3> QED
      BY <2>3
  <2>5. \A i \in 1 .. Len(ss) : flatten[i] = Step(flatten, i)
    <3> HIDE DEF flatten, Step
    <3> QED
      BY <2>4
  <2> DEFINE h == [i \in 0 .. Len(ss) |-> IF i = 0 THEN <<>> ELSE flatten[i]]
  <2>6. Joins(h, ss)
    <3> HIDE DEF flatten
    <3>1. h[0] = <<>> /\ \A i \in 1 .. Len(ss) : h[i] = flatten[i]
      BY <1>0
    <3>2. ASSUME NEW i \in 1 .. Len(ss) PROVE h[i] = h[i - 1] \o ss[i]
      <4>1. CASE i = 1
        <5>1. i - 1 = 0 /\ ss[i] \in Seq(S) /\ flatten[i] = ss[i]
          BY <1>0, <2>5, <4>1
        <5> HIDE DEF h
        <5> QED
          BY <3>1, <5>1, ConcatEmptySeq
      <4>2. CASE i # 1
        <5> HIDE DEF h
        <5>1. i - 1 \in 1 .. Len(ss) /\ h[i] = flatten[i] /\ h[i - 1] = flatten[i - 1]
          BY <1>0, <3>1, <4>2
        <5>2. flatten[i] = Step(flatten, i)
          BY <2>5
        <5>3. Step(flatten, i) = flatten[i - 1] \o ss[i]
          BY <4>2
        <5> HIDE DEF Step
        <5> QED
          BY <5>1, <5>2, <5>3
      <4> QED
        BY <4>1, <4>2
    <3> HIDE DEF h
    <3> QED
      BY <3>1, <3>2 DEF Joins
  <2>7. f[Len(ss)] = h[Len(ss)]
    <3> HIDE DEF h
    <3>1. Agree(ss, ss, Len(ss))
      BY <1>0 DEF Agree
    <3> QED
      BY <2>6, <3>1, JoinsOnce
  <2>8. h[Len(ss)] = flatten[Len(ss)]
    <3> HIDE DEF flatten
    <3> QED
      BY <1>0, <1>2
  <2> HIDE DEF flatten, h
  <2> QED
    BY <2>1, <2>7, <2>8
<1> QED
  BY <1>1, <1>2

LEMMA FlattenType ==
    ASSUME NEW S, NEW ss \in Seq(Seq(S))
    PROVE  FlattenSeq(ss) \in Seq(S)
<1>1. PICK f \in [0 .. Len(ss) -> Seq(S)] : Joins(f, ss)
  BY JoinsExist
<1>2. FlattenSeq(ss) = f[Len(ss)]
  BY <1>1, FlattenFacts
<1>3. Len(ss) \in 0 .. Len(ss)
  OBVIOUS
<1> QED
  BY <1>1, <1>2, <1>3

LEMMA FlattenAppend ==
    ASSUME NEW S, NEW ss \in Seq(Seq(S)), NEW s \in Seq(S)
    PROVE  FlattenSeq(Append(ss, s)) = FlattenSeq(ss) \o s
<1> SUFFICES ASSUME NEW tt, tt = Append(ss, s)
             PROVE  FlattenSeq(tt) = FlattenSeq(ss) \o s
  OBVIOUS
<1>0. /\ tt \in Seq(Seq(S)) /\ Len(tt) = Len(ss) + 1 /\ Len(ss) \in Nat /\ Len(tt) \in Nat
      /\ tt[Len(tt)] = s /\ Len(tt) \in 1 .. Len(tt) /\ Len(tt) - 1 = Len(ss)
      /\ Len(ss) <= Len(ss) /\ Len(ss) <= Len(tt)
  OBVIOUS
<1>a. Agree(ss, tt, Len(ss))
  BY <1>0 DEF Agree
<1>1. PICK f \in [0 .. Len(ss) -> Seq(S)] : Joins(f, ss)
  BY JoinsExist
<1>2. PICK h \in [0 .. Len(tt) -> Seq(S)] : Joins(h, tt)
  BY <1>0, JoinsExist
<1>3. FlattenSeq(ss) = f[Len(ss)]
  BY <1>1, FlattenFacts
<1>4. FlattenSeq(tt) = h[Len(tt)]
  BY <1>0, <1>2, FlattenFacts
<1>5. h[Len(tt)] = h[Len(ss)] \o s
  BY <1>0, <1>2 DEF Joins
<1>6. f[Len(ss)] = h[Len(ss)]
  BY <1>1, <1>2, <1>a, JoinsOnce
<1> QED
  BY <1>3, <1>4, <1>5, <1>6

\* s is the beginning of t.
Begins(s, t) == Len(s) <= Len(t) /\ \A i \in 1 .. Len(s) : s[i] = t[i]

LEMMA BeginsPrefix ==
    ASSUME NEW S, NEW s \in Seq(S), NEW t \in Seq(S)
    PROVE  IsPrefix(s, t) <=> Begins(s, t)
<1>0. Len(s) \in Nat /\ Len(t) \in Nat
  OBVIOUS
<1> SUFFICES ASSUME Len(s) <= Len(t)
             PROVE  SubSeq(s, 1, Len(s)) = SubSeq(t, 1, Len(s))
                      <=> \A i \in 1 .. Len(s) : s[i] = t[i]
  BY DEF IsPrefix, Begins
<1> DEFINE u == SubSeq(t, 1, Len(s))
<1>1. u \in Seq(S) /\ Len(u) = Len(s) /\ \A i \in 1 .. Len(s) : u[i] = t[i]
  <2>1. Len(s) \in 0 .. Len(t)
    BY <1>0
  <2> QED
    BY <2>1, PrefixFacts
<1>2. SubSeq(s, 1, Len(s)) = s
  BY SubSeqFull
<1> HIDE DEF u
<1>3. s = u <=> \A i \in 1 .. Len(s) : s[i] = u[i]
  BY <1>1, SeqEqual
<1> QED
  BY <1>1, <1>2, <1>3 DEF u

LEMMA BeginsTransitive ==
    ASSUME NEW s, NEW t, NEW u, Len(s) \in Nat, Len(t) \in Nat, Len(u) \in Nat,
           Begins(s, t), Begins(t, u)
    PROVE  Begins(s, u)
<1>1. Len(s) <= Len(t) /\ Len(t) <= Len(u)
  BY DEF Begins
<1>2. ASSUME NEW i \in 1 .. Len(s) PROVE s[i] = u[i]
  <2>1. i \in 1 .. Len(t)
    BY <1>1
  <2> QED
    BY <2>1 DEF Begins
<1> QED
  BY <1>1, <1>2 DEF Begins

LEMMA BeginsConcat ==
    ASSUME NEW S, NEW s \in Seq(S), NEW t \in Seq(S)
    PROVE  Begins(s, s \o t)
<1>1. Len(s \o t) = Len(s) + Len(t) /\ Len(s) \in Nat /\ Len(t) \in Nat
  OBVIOUS
<1>2. \A i \in 1 .. Len(s) : (s \o t)[i] = s[i]
  OBVIOUS
<1> QED
  BY <1>1, <1>2 DEF Begins

\* A sequence that is only added to begins with each of its earlier states.
LEMMA GrowingBegins ==
    ASSUME NEW S, NEW n \in Nat, NEW h \in [0 .. n -> Seq(S)],
           \A i \in 1 .. n : Begins(h[i - 1], h[i]), NEW k \in 0 .. n
    PROVE  Begins(h[k], h[n])
<1> DEFINE T == {i \in Nat : k + i <= n => Begins(h[k], h[k + i])}
<1>1. 0 \in T
  <2>1. k + 0 = k /\ h[k] \in Seq(S)
    OBVIOUS
  <2> QED
    BY <2>1 DEF Begins
<1>2. ASSUME NEW i \in Nat, i \in T PROVE i + 1 \in T
  <2> SUFFICES ASSUME k + (i + 1) <= n PROVE Begins(h[k], h[k + (i + 1)])
    OBVIOUS
  <2>1. PICK m \in 0 .. n : m = k + i
    OBVIOUS
  <2>2. m + 1 \in 1 .. n /\ (m + 1) - 1 = m /\ k + (i + 1) = m + 1 /\ m + 1 \in 0 .. n
    BY <2>1
  <2>3. Begins(h[m], h[m + 1])
    BY <2>2
  <2>4. Begins(h[k], h[m])
    BY <1>2, <2>1
  <2>5. Len(h[k]) \in Nat /\ Len(h[m]) \in Nat /\ Len(h[m + 1]) \in Nat
    BY <2>2, LenProperties
  <2>6. Begins(h[k], h[m + 1])
    BY <2>3, <2>4, <2>5, BeginsTransitive
  <2> QED
    BY <2>2, <2>6
<1>3. \A i \in Nat : i \in T
  <2> HIDE DEF T
  <2> QED
    BY <1>1, <1>2, SetInduction
<1>4. n - k \in Nat /\ k + (n - k) = n /\ k + (n - k) <= n
  OBVIOUS
<1>5. n - k \in T
  BY <1>3, <1>4
<1> QED
  BY <1>4, <1>5

LEMMA JoinsBegins ==
    ASSUME NEW S, NEW ss \in Seq(Seq(S)), NEW f \in [0 .. Len(ss) -> Seq(S)], Joins(f, ss),
           NEW k \in 0 .. Len(ss)
    PROVE  Begins(f[k], f[Len(ss)])
<1>1. Len(ss) \in Nat
  OBVIOUS
<1>2. ASSUME NEW i \in 1 .. Len(ss) PROVE Begins(f[i - 1], f[i])
  <2>0. i - 1 \in 0 .. Len(ss) /\ i \in DOMAIN ss
    BY <1>1
  <2>1. f[i - 1] \in Seq(S) /\ ss[i] \in Seq(S)
    BY <2>0, ElementOfSeq
  <2>2. f[i] = f[i - 1] \o ss[i]
    BY DEF Joins
  <2> QED
    BY <2>1, <2>2, BeginsConcat
<1> QED
  BY <1>1, <1>2, GrowingBegins

LEMMA FlattenBegins ==
    ASSUME NEW S, NEW ss \in Seq(Seq(S)), NEW tt \in Seq(Seq(S)), Begins(ss, tt)
    PROVE  Begins(FlattenSeq(ss), FlattenSeq(tt))
<1>0. Len(ss) \in Nat /\ Len(tt) \in Nat /\ Len(ss) \in 0 .. Len(ss) /\ Len(ss) \in 0 .. Len(tt)
  BY DEF Begins
<1>a. Agree(ss, tt, Len(ss))
  BY <1>0 DEF Agree, Begins
<1>1. PICK f \in [0 .. Len(ss) -> Seq(S)] : Joins(f, ss)
  BY JoinsExist
<1>2. PICK h \in [0 .. Len(tt) -> Seq(S)] : Joins(h, tt)
  BY JoinsExist
<1>3. FlattenSeq(ss) = f[Len(ss)] /\ FlattenSeq(tt) = h[Len(tt)]
  BY <1>1, <1>2, FlattenFacts
<1>4. f[Len(ss)] = h[Len(ss)]
  BY <1>1, <1>2, <1>a, JoinsOnce
<1>5. Begins(h[Len(ss)], h[Len(tt)])
  BY <1>0, <1>2, JoinsBegins
<1> QED
  BY <1>3, <1>4, <1>5

\* What comes after the first sequences of a list is the next of them.
LEMMA FlattenNext ==
    ASSUME NEW S, NEW ss \in Seq(Seq(S)), NEW tt \in Seq(Seq(S)),
           Begins(ss, tt), Len(ss) < Len(tt)
    PROVE  Begins(FlattenSeq(ss) \o tt[Len(ss) + 1], FlattenSeq(tt))
<1> DEFINE n == Len(ss)
<1>0. /\ n \in Nat /\ Len(tt) \in Nat /\ n + 1 <= Len(tt) /\ n <= Len(tt) /\ n <= n
      /\ n + 1 \in 1 .. Len(tt) /\ (n + 1) - 1 = n
  OBVIOUS
<1>a. Agree(ss, tt, n)
  BY <1>0 DEF Agree, Begins
<1>1. PICK f \in [0 .. n -> Seq(S)] : Joins(f, ss)
  BY JoinsExist
<1>2. PICK h \in [0 .. Len(tt) -> Seq(S)] : Joins(h, tt)
  BY JoinsExist
<1>3. FlattenSeq(ss) = f[n] /\ FlattenSeq(tt) = h[Len(tt)]
  BY <1>1, <1>2, FlattenFacts
<1>4. f[n] = h[n]
  BY <1>1, <1>2, <1>a, JoinsOnce
<1>5. h[n + 1] = h[n] \o tt[n + 1]
  BY <1>0, <1>2 DEF Joins
<1>6. Begins(h[n + 1], h[Len(tt)])
  <2>1. n + 1 \in 0 .. Len(tt)
    BY <1>0
  <2> QED
    BY <1>2, <2>1, JoinsBegins
<1> QED
  BY <1>3, <1>4, <1>5, <1>6

-----------------------------------------------------------------------------
(* Sequences of whatever is in them.                                       *)

Listed(s) == s \in Seq(ToSet(s))

LEMMA AppendFacts ==
    ASSUME NEW s, Listed(s), NEW e
    PROVE  /\ Listed(Append(s, e)) /\ Append(s, e) # <<>> /\ Last(Append(s, e)) = e
           /\ \A i \in DOMAIN Append(s, e) : Append(s, e)[i] = e \/ (i \in DOMAIN s /\ Append(s, e)[i] = s[i])
<1> DEFINE T == ToSet(s) \cup {e}
           t == Append(s, e)
<1>1. s \in Seq(T)
  BY DEF Listed
<1>2. t \in Seq(T) /\ Len(t) = Len(s) + 1 /\ t[Len(s) + 1] = e /\ Len(s) \in Nat
      /\ \A i \in 1 .. Len(s) : t[i] = s[i]
  BY <1>1
<1> HIDE DEF t
<1>3. DOMAIN t = 1 .. Len(s) + 1 /\ DOMAIN s = 1 .. Len(s)
  BY <1>1, <1>2
<1>4. \A i \in DOMAIN t : t[i] = e \/ (i \in DOMAIN s /\ t[i] = s[i])
  BY <1>2, <1>3
<1>5. Listed(t)
  <2>1. \A i \in 1 .. Len(t) : t[i] \in ToSet(t)
    BY <1>2, <1>3 DEF ToSet
  <2> QED
    BY <1>2, <2>1 DEF Listed
<1>6. t # <<>> /\ Last(t) = e
  BY <1>2 DEF Last
<1> QED
  BY <1>4, <1>5, <1>6 DEF t

LEMMA TailFacts ==
    ASSUME NEW s, Listed(s), s # <<>>
    PROVE  /\ Head(s) \in ToSet(s) /\ Listed(Tail(s))
           /\ ToSet(Tail(s)) \subseteq ToSet(s)
<1> DEFINE t == Tail(s)
<1>1. /\ Len(s) \in Nat \ {0} /\ DOMAIN s = 1 .. Len(s) /\ Head(s) = s[1]
      /\ t \in Seq(ToSet(s)) /\ Len(t) = Len(s) - 1
      /\ \A i \in 1 .. Len(t) : t[i] = s[i + 1]
  BY DEF Listed
<1> HIDE DEF t
<1>2. DOMAIN t = 1 .. Len(t)
  BY <1>1
<1>3. Head(s) \in ToSet(s)
  BY <1>1 DEF ToSet
<1>4. Listed(t)
  <2>1. \A i \in 1 .. Len(t) : t[i] \in ToSet(t)
    BY <1>2 DEF ToSet
  <2> QED
    BY <1>1, <2>1 DEF Listed
<1>5. ToSet(t) \subseteq ToSet(s)
  BY <1>1, <1>2 DEF ToSet
<1> QED
  BY <1>3, <1>4, <1>5 DEF t

LEMMA ConcatElements ==
    ASSUME NEW S, NEW s \in Seq(S), NEW t \in Seq(S)
    PROVE  ToSet(s \o t) = ToSet(s) \cup ToSet(t)
<1>1. PICK u : u = s \o t
  OBVIOUS
<1>2. /\ u \in Seq(S) /\ Len(u) = Len(s) + Len(t)
      /\ \A i \in 1 .. Len(s) + Len(t) : u[i] = IF i <= Len(s) THEN s[i] ELSE t[i - Len(s)]
  BY <1>1, ConcatProperties
<1>3. /\ Len(s) \in Nat /\ Len(t) \in Nat /\ DOMAIN s = 1 .. Len(s) /\ DOMAIN t = 1 .. Len(t)
      /\ DOMAIN u = 1 .. Len(s) + Len(t)
  <2>1. DOMAIN u = 1 .. Len(u)
    BY <1>2, LenProperties
  <2> QED
    BY <1>2, <2>1, LenProperties
<1>4. \A i \in 1 .. Len(s) : i \in DOMAIN u /\ u[i] = s[i]
  BY <1>2, <1>3
<1>5. \A i \in 1 .. Len(t) : Len(s) + i \in DOMAIN u /\ u[Len(s) + i] = t[i]
  <2> SUFFICES ASSUME NEW i \in 1 .. Len(t) PROVE Len(s) + i \in DOMAIN u /\ u[Len(s) + i] = t[i]
    OBVIOUS
  <2>1. Len(s) + i \in 1 .. Len(s) + Len(t) /\ ~(Len(s) + i <= Len(s)) /\ (Len(s) + i) - Len(s) = i
    BY <1>3
  <2> QED
    BY <1>2, <1>3, <2>1
<1>6. ASSUME NEW i \in DOMAIN u PROVE u[i] \in ToSet(s) \cup ToSet(t)
  <2>1. CASE i <= Len(s)
    <3>1. i \in DOMAIN s /\ u[i] = s[i]
      BY <1>2, <1>3, <2>1
    <3> QED
      BY <3>1 DEF ToSet
  <2>2. CASE ~(i <= Len(s))
    <3>1. i - Len(s) \in DOMAIN t /\ u[i] = t[i - Len(s)]
      BY <1>2, <1>3, <2>2
    <3> QED
      BY <3>1 DEF ToSet
  <2> QED
    BY <2>1, <2>2
<1>7. ToSet(u) = ToSet(s) \cup ToSet(t)
  <2>1. ToSet(u) \subseteq ToSet(s) \cup ToSet(t)
    <3>1. ASSUME NEW x \in ToSet(u) PROVE x \in ToSet(s) \cup ToSet(t)
      <4>1. PICK i \in DOMAIN u : x = u[i]
        BY DEF ToSet
      <4> QED
        BY <1>6, <4>1
    <3> QED
      BY <3>1
  <2>2. ToSet(s) \subseteq ToSet(u)
    BY <1>3, <1>4 DEF ToSet
  <2>3. ToSet(t) \subseteq ToSet(u)
    BY <1>3, <1>5 DEF ToSet
  <2> QED
    BY <2>1, <2>2, <2>3
<1> QED
  BY <1>1, <1>7

\* The elements of several sequences, one after the other.
LEMMA FlattenElements ==
    ASSUME NEW ss, Listed(ss), \A i \in DOMAIN ss : Listed(ss[i])
    PROVE  /\ Listed(FlattenSeq(ss))
           /\ ToSet(FlattenSeq(ss)) = UNION {ToSet(ss[i]) : i \in DOMAIN ss}
<1> DEFINE S == UNION {ToSet(ss[i]) : i \in DOMAIN ss}
<1>0. Len(ss) \in Nat /\ DOMAIN ss = 1 .. Len(ss)
  BY DEF Listed
<1>1. ss \in Seq(Seq(S))
  <2>1. ASSUME NEW i \in DOMAIN ss PROVE ss[i] \in Seq(S)
    <3>1. ss[i] \in Seq(ToSet(ss[i])) /\ ToSet(ss[i]) \subseteq S
      BY DEF Listed
    <3> HIDE DEF S
    <3> QED
      BY <3>1
  <2> HIDE DEF S
  <2> QED
    BY <2>1 DEF Listed
<1> DEFINE U(i) == UNION {ToSet(ss[j]) : j \in 1 .. i}
<1>2. PICK f \in [0 .. Len(ss) -> Seq(S)] : Joins(f, ss)
  <2> HIDE DEF S
  <2> QED
    BY <1>1, JoinsExist
<1>3. FlattenSeq(ss) = f[Len(ss)]
  <2> HIDE DEF S
  <2> QED
    BY <1>1, <1>2, FlattenFacts
<1> DEFINE T == {i \in Nat : i <= Len(ss) => ToSet(f[i]) = U(i)}
<1>4. 0 \in T
  <2>1. f[0] = <<>>
    BY <1>2 DEF Joins
  <2>2. ToSet(f[0]) = {}
    BY <2>1 DEF ToSet
  <2>3. U(0) = {}
    OBVIOUS
  <2> QED
    BY <2>2, <2>3
<1>5. ASSUME NEW i \in Nat, i \in T PROVE i + 1 \in T
  <2> SUFFICES ASSUME i + 1 <= Len(ss) PROVE ToSet(f[i + 1]) = U(i + 1)
    OBVIOUS
  <2>1. i + 1 \in 1 .. Len(ss) /\ i \in 0 .. Len(ss) /\ (i + 1) - 1 = i /\ i <= Len(ss)
    BY <1>0
  <2>2. f[i + 1] = f[i] \o ss[i + 1]
    BY <1>2, <2>1 DEF Joins
  <2>3. f[i] \in Seq(S) /\ ss[i + 1] \in Seq(S)
    <3>1. i + 1 \in DOMAIN ss
      BY <1>0, <2>1
    <3> HIDE DEF S
    <3> QED
      BY <1>1, <1>2, <2>1, <3>1, ElementOfSeq
  <2>4. ToSet(f[i + 1]) = ToSet(f[i]) \cup ToSet(ss[i + 1])
    <3> HIDE DEF S
    <3> QED
      BY <2>2, <2>3, ConcatElements
  <2>5. ToSet(f[i]) = U(i)
    BY <1>5, <2>1
  <2>6. U(i + 1) = U(i) \cup ToSet(ss[i + 1])
    <3>1. 1 .. i + 1 = (1 .. i) \cup {i + 1}
      OBVIOUS
    <3> QED
      BY <3>1
  <2> QED
    BY <2>4, <2>5, <2>6
<1>6. \A i \in Nat : i \in T
  <2> HIDE DEF T
  <2> QED
    BY <1>4, <1>5, SetInduction
<1>7. ToSet(f[Len(ss)]) = U(Len(ss))
  <2>1. Len(ss) \in T /\ Len(ss) <= Len(ss)
    BY <1>0, <1>6
  <2> QED
    BY <2>1
<1>8. U(Len(ss)) = S
  BY <1>0
<1>9. Listed(f[Len(ss)])
  <2>1. f[Len(ss)] \in Seq(S)
    <3>1. Len(ss) \in 0 .. Len(ss)
      BY <1>0
    <3> HIDE DEF S
    <3> QED
      BY <1>2, <3>1
  <2> QED
    BY <2>1, <1>7, <1>8 DEF Listed
<1> QED
  BY <1>3, <1>7, <1>8, <1>9

LEMMA BeginsAppend ==
    ASSUME NEW S, NEW s \in Seq(S), NEW e \in S
    PROVE  Begins(s, Append(s, e)) /\ Begins(s, s)
BY DEF Begins

LEMMA BeginsElements ==
    ASSUME NEW S, NEW s \in Seq(S), NEW t \in Seq(S), Begins(s, t)
    PROVE  \A i \in DOMAIN s : i \in DOMAIN t /\ s[i] = t[i]
<1>1. Len(s) \in Nat /\ Len(t) \in Nat /\ DOMAIN s = 1 .. Len(s) /\ DOMAIN t = 1 .. Len(t)
  OBVIOUS
<1> QED
  BY <1>1 DEF Begins

\* A loop that goes on keeps what it had.
LEMMA LoopBegins ==
    ASSUME NEW S, NEW s \in Seq(S), NEW K, NEW f \in [0 .. Len(s) -> Seq(S)], Loops(f, s, K),
           NEW k \in 0 .. Len(s)
    PROVE  Begins(f[k], f[Len(s)])
<1>1. Len(s) \in Nat
  OBVIOUS
<1>2. ASSUME NEW i \in 1 .. Len(s) PROVE Begins(f[i - 1], f[i])
  <2>1. i - 1 \in 0 .. Len(s)
    BY <1>1
  <2>2. f[i - 1] \in Seq(S) /\ s[i] \in S
    BY <2>1, ElementOfSeq
  <2>3. f[i] = Append(f[i - 1], s[i]) \/ f[i] = f[i - 1]
    BY DEF Loops
  <2> QED
    BY <2>2, <2>3, BeginsAppend
<1> QED
  BY <1>1, <1>2, GrowingBegins

\* What is in K and was come by is left.
LEMMA LoopCovers ==
    ASSUME NEW S, NEW s \in Seq(S), NEW K, NEW f \in [0 .. Len(s) -> Seq(S)], Loops(f, s, K),
           NEW x \in DOMAIN s, s[x] \in K
    PROVE  s[x] \in ToSet(f[Len(s)])
<1>1. Len(s) \in Nat /\ x \in 1 .. Len(s) /\ x - 1 \in 0 .. Len(s) /\ x \in 0 .. Len(s)
      /\ Len(s) \in 0 .. Len(s)
  OBVIOUS
<1>2. f[x] = Append(f[x - 1], s[x])
  BY <1>1 DEF Loops
<1>3. f[x - 1] \in Seq(S) /\ s[x] \in S /\ f[x] \in Seq(S) /\ f[Len(s)] \in Seq(S)
  BY <1>1, ElementOfSeq
<1>4. PICK a \in Seq(S) : a = f[x - 1]
  BY <1>3
<1>5. Len(a) + 1 \in DOMAIN f[x] /\ f[x][Len(a) + 1] = s[x]
  BY <1>2, <1>3, <1>4
<1>6. Begins(f[x], f[Len(s)])
  BY <1>1, LoopBegins
<1>7. Len(a) + 1 \in DOMAIN f[Len(s)] /\ f[Len(s)][Len(a) + 1] = s[x]
  BY <1>3, <1>5, <1>6, BeginsElements
<1> QED
  BY <1>7 DEF ToSet

\* Of a list that goes on it leaves what it left, and more.
LEMMA LoopsBegin ==
    ASSUME NEW S, NEW s \in Seq(S), NEW t \in Seq(S), Begins(s, t), NEW K, NEW L,
           \A i \in 1 .. Len(s) : s[i] \in K <=> s[i] \in L,
           NEW f \in [0 .. Len(s) -> Seq(S)], Loops(f, s, K),
           NEW h \in [0 .. Len(t) -> Seq(S)], Loops(h, t, L)
    PROVE  Begins(f[Len(s)], h[Len(t)])
<1>0. Len(s) \in Nat /\ Len(t) \in Nat /\ Len(s) \in 0 .. Len(t) /\ Len(s) <= Len(t)
  BY DEF Begins
<1> DEFINE T == {i \in Nat : i <= Len(s) => f[i] = h[i]}
<1>1. 0 \in T
  BY DEF Loops
<1>2. ASSUME NEW i \in Nat, i \in T PROVE i + 1 \in T
  <2> SUFFICES ASSUME i + 1 <= Len(s) PROVE f[i + 1] = h[i + 1]
    OBVIOUS
  <2>1. i + 1 \in 1 .. Len(s) /\ i + 1 \in 1 .. Len(t) /\ (i + 1) - 1 = i /\ f[i] = h[i]
    BY <1>0, <1>2
  <2>2. s[i + 1] = t[i + 1] /\ (s[i + 1] \in K <=> t[i + 1] \in L)
    BY <2>1 DEF Begins
  <2> QED
    BY <2>1, <2>2 DEF Loops
<1>3. \A i \in Nat : i \in T
  <2> HIDE DEF T
  <2> QED
    BY <1>1, <1>2, SetInduction
<1>4. f[Len(s)] = h[Len(s)]
  BY <1>0, <1>3
<1> QED
  BY <1>0, <1>4, LoopBegins

-----------------------------------------------------------------------------
(* Saved searches.                                                         *)

\* What stays when s is pushed: elements of the list other than s, in places
\* of their own.
LEMMA RestFacts ==
    ASSUME NEW S, NEW items \in Seq(S), NEW s
    PROVE  /\ Rest(items, s) \in Seq(S)
           /\ \A j \in DOMAIN Rest(items, s) :
                \E x \in DOMAIN items : Kept(items[x], s) /\ Rest(items, s)[j] = items[x]
           /\ \A j, k \in DOMAIN Rest(items, s) :
                j # k => \E x, y \in DOMAIN items :
                           x # y /\ Rest(items, s)[j] = items[x] /\ Rest(items, s)[k] = items[y]
<1> DEFINE K == {it \in S : Kept(it, s)}
           Step(f, i) == IF i = 0 THEN <<>>
                         ELSE IF Kept(items[i], s) THEN Append(f[i - 1], items[i]) ELSE f[i - 1]
           Solves(h) == h = [i \in 0 .. Len(items) |-> Step(h, i)]
           From == CHOOSE h : Solves(h)
<1>1. Rest(items, s) = From[Len(items)]
  BY DEF Rest
<1>2. PICK f \in [0 .. Len(items) -> Seq(S)] : Loops(f, items, K)
  BY LoopExists
<1>3. Len(items) \in Nat /\ \A i \in DOMAIN items : items[i] \in K <=> Kept(items[i], s)
  OBVIOUS
<1>4. ASSUME NEW i \in 0 .. Len(items) PROVE f[i] = Step(f, i)
  <2>1. CASE i = 0
    BY <1>2, <2>1 DEF Loops
  <2>2. CASE i # 0
    <3>1. i \in 1 .. Len(items) /\ i \in DOMAIN items
      BY <1>3, <2>2
    <3>2. f[i] = IF items[i] \in K THEN Append(f[i - 1], items[i]) ELSE f[i - 1]
      BY <1>2, <3>1 DEF Loops
    <3> HIDE DEF K
    <3> QED
      BY <1>3, <2>2, <3>1, <3>2
  <2> QED
    BY <2>1, <2>2
<1>5. Solves(f)
  BY <1>4
<1>6. Solves(From)
  BY <1>5
<1>7. \A i \in 0 .. Len(items) : From[i] = Step(From, i)
  <2> HIDE DEF From, Step
  <2> QED
    BY <1>6
<1>8. Loops(From, items, K)
  <2> HIDE DEF From
  <2> QED
    BY <1>3, <1>7 DEF Loops
<1>9. Rest(items, s) = f[Len(items)]
  <2> HIDE DEF From, K
  <2>1. From[Len(items)] = f[Len(items)]
    BY <1>2, <1>3, <1>8, LoopOnce
  <2> QED
    BY <1>1, <2>1
<1> HIDE DEF K
<1> QED
  BY <1>2, <1>3, <1>9, LoopFacts

LEMMA FrontFacts ==
    ASSUME NEW S, NEW r \in Seq(S), NEW s \in S
    PROVE  /\ <<s>> \o r \in Seq(S) /\ Len(<<s>> \o r) = Len(r) + 1
           /\ (<<s>> \o r)[1] = s
           /\ \A j \in 2 .. Len(r) + 1 : j - 1 \in DOMAIN r /\ (<<s>> \o r)[j] = r[j - 1]
OBVIOUS
=============================================================================
