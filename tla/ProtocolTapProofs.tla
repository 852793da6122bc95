-------------------------- MODULE ProtocolTapProofs --------------------------
(***************************************************************************)
(* Theorems about ProtocolTap for every set of messages, cut into pieces of*)
(* any size, and a log of any length.                                      *)
(***************************************************************************)
EXTENDS ProtocolTap, ListLemmas, FiniteSetTheorems

-----------------------------------------------------------------------------
(* A length in several bytes.                                              *)

\* f[i] is the number the first i bytes of the length stand for.
Digits(f, b, k) == f[0] = 0 /\ \A i \in 1 .. k : f[i] = f[i - 1] * 256 + b[2 + i]

SameDigits(b, c, k) == \A i \in 1 .. k : b[2 + i] = c[2 + i]

LEMMA DigitsOnce ==
    ASSUME NEW b, NEW c, NEW k \in Nat, SameDigits(b, c, k),
           NEW f, NEW h, Digits(f, b, k), Digits(h, c, k)
    PROVE  \A i \in 0 .. k : f[i] = h[i]
<1> DEFINE T == {i \in Nat : i <= k => f[i] = h[i]}
<1>1. 0 \in T
  BY DEF Digits
<1>2. ASSUME NEW i \in Nat, i \in T PROVE i + 1 \in T
  <2> SUFFICES ASSUME i + 1 <= k PROVE f[i + 1] = h[i + 1]
    OBVIOUS
  <2>1. i + 1 \in 1 .. k /\ (i + 1) - 1 = i /\ f[i] = h[i]
    BY <1>2
  <2>2. f[i + 1] = f[i] * 256 + b[2 + (i + 1)] /\ h[i + 1] = h[i] * 256 + c[2 + (i + 1)]
    BY <2>1 DEF Digits
  <2>3. b[2 + (i + 1)] = c[2 + (i + 1)]
    BY <2>1 DEF SameDigits
  <2> QED
    BY <2>1, <2>2, <2>3
<1>3. \A i \in Nat : i \in T
  <2> HIDE DEF T
  <2> QED
    BY <1>1, <1>2, SetInduction
<1> QED
  BY <1>3

LEMMA DigitsExist ==
    ASSUME NEW b, NEW k \in Nat, \A i \in 1 .. k : b[2 + i] \in Nat
    PROVE  \E f \in [0 .. k -> Nat] : Digits(f, b, k)
<1> DEFINE g == [i \in Nat |-> [m \in Nat |->
                  IF i + 1 \in 1 .. k THEN m * 256 + b[2 + (i + 1)] ELSE m]]
<1>1. g \in [Nat -> [Nat -> Nat]]
  <2>1. ASSUME NEW i \in Nat, NEW m \in Nat, i + 1 \in 1 .. k PROVE m * 256 + b[2 + (i + 1)] \in Nat
    <3>1. b[2 + (i + 1)] \in Nat
      BY <2>1
    <3> QED
      BY <3>1
  <2> QED
    BY <2>1
<1>2. 0 \in Nat
  OBVIOUS
<1>3. PICK f : RecursiveTo(f, Nat, 0, g, k)
  <2> HIDE DEF g
  <2> QED
    BY <1>1, <1>2, RecursiveFunction
<1>4. f \in [0 .. k -> Nat] /\ f[0] = 0 /\ \A i \in 1 .. k : f[i] = g[i - 1][f[i - 1]]
  BY <1>3 DEF RecursiveTo
<1>5. ASSUME NEW i \in 1 .. k PROVE f[i] = f[i - 1] * 256 + b[2 + i]
  <2>1. i - 1 \in Nat /\ i - 1 \in 0 .. k /\ (i - 1) + 1 = i /\ f[i - 1] \in Nat
    BY <1>4
  <2>2. g[i - 1][f[i - 1]] = IF (i - 1) + 1 \in 1 .. k
                             THEN f[i - 1] * 256 + b[2 + ((i - 1) + 1)] ELSE f[i - 1]
    BY <2>1
  <2> QED
    BY <1>4, <2>1, <2>2
<1> QED
  BY <1>4, <1>5 DEF Digits

LEMMA BigEndianFacts ==
    ASSUME NEW b, NEW k \in Nat, \A i \in 1 .. k : b[2 + i] \in Nat
    PROVE  \E f \in [0 .. k -> Nat] : Digits(f, b, k) /\ BigEndian(b, k) = f[k]
<1> DEFINE Step(f, i) == IF i = 0 THEN 0 ELSE f[i - 1] * 256 + b[2 + i]
           Solves(h) == h = [i \in 0 .. k |-> Step(h, i)]
           n == CHOOSE h : Solves(h)
<1>1. BigEndian(b, k) = n[k]
  BY DEF BigEndian
<1>2. PICK f \in [0 .. k -> Nat] : Digits(f, b, k)
  BY DigitsExist
<1>3. \A i \in 0 .. k : f[i] = Step(f, i)
  BY <1>2 DEF Digits
<1>4. Solves(f)
  BY <1>3
<1>5. Solves(n)
  BY <1>4
<1>6. \A i \in 0 .. k : n[i] = Step(n, i)
  <2> HIDE DEF n, Step
  <2> QED
    BY <1>5
<1>7. Digits(n, b, k)
  <2> HIDE DEF n
  <2> QED
    BY <1>6 DEF Digits
<1>8. n[k] = f[k]
  <2> HIDE DEF n
  <2>1. SameDigits(b, b, k)
    BY DEF SameDigits
  <2> QED
    BY <1>2, <1>7, <2>1, DigitsOnce
<1> QED
  BY <1>1, <1>2, <1>8

LEMMA BigEndianNat ==
    ASSUME NEW b, NEW k \in Nat, \A i \in 1 .. k : b[2 + i] \in Nat
    PROVE  BigEndian(b, k) \in Nat
<1>1. PICK f \in [0 .. k -> Nat] : Digits(f, b, k) /\ BigEndian(b, k) = f[k]
  BY BigEndianFacts
<1> QED
  BY <1>1

LEMMA BigEndianSame ==
    ASSUME NEW b, NEW c, NEW k \in Nat, \A i \in 1 .. k : b[2 + i] \in Nat /\ b[2 + i] = c[2 + i]
    PROVE  BigEndian(b, k) = BigEndian(c, k)
<1>a. \A i \in 1 .. k : b[2 + i] \in Nat
  OBVIOUS
<1>b. \A i \in 1 .. k : c[2 + i] \in Nat
  OBVIOUS
<1>c. SameDigits(b, c, k)
  BY DEF SameDigits
<1>1. PICK f \in [0 .. k -> Nat] : Digits(f, b, k) /\ BigEndian(b, k) = f[k]
  BY <1>a, BigEndianFacts
<1>2. PICK h \in [0 .. k -> Nat] : Digits(h, c, k) /\ BigEndian(c, k) = h[k]
  BY <1>b, BigEndianFacts
<1>3. f[k] = h[k]
  <2>1. \A i \in 0 .. k : f[i] = h[i]
    <3>1. Digits(f, b, k) /\ Digits(h, c, k)
      BY <1>1, <1>2
    <3> QED
      BY <1>c, <3>1, DigitsOnce
  <2>2. k \in 0 .. k
    OBVIOUS
  <2> QED
    BY <2>1, <2>2
<1> QED
  BY <1>1, <1>2, <1>3

-----------------------------------------------------------------------------
(* What frameLen says of the bytes in the buffer.                          *)

Byte == 0 .. 255

LEMMA ByteNat == \A x \in Byte : x \in Nat
BY DEF Byte

\* A length in the long form, as far as it has been read.
LongLen(b, k) ==
    IF k = 0 \/ k > 4 THEN [is |-> "alien", len |-> 0]
    ELSE IF Len(b) < 2 + k THEN [is |-> "more", len |-> 0]
    ELSE IF BigEndian(b, k) > FrameLimit THEN [is |-> "alien", len |-> 0]
    ELSE Frame(b, 2 + k + BigEndian(b, k))

LEMMA FrameCases ==
    ASSUME NEW b
    PROVE  /\ Len(b) < 2 => FrameLen(b) = [is |-> "more", len |-> 0]
           /\ ~(Len(b) < 2) /\ b[1] # 48 => FrameLen(b) = [is |-> "alien", len |-> 0]
           /\ ~(Len(b) < 2) /\ b[1] = 48 /\ b[2] < 128 => FrameLen(b) = Frame(b, 2 + b[2])
           /\ ~(Len(b) < 2) /\ b[1] = 48 /\ ~(b[2] < 128) =>
                FrameLen(b) = LongLen(b, b[2] - 128)
BY DEF FrameLen, LongLen

LEMMA LengthNat ==
    ASSUME NEW b \in Seq(Byte), NEW k \in Nat, Len(b) >= 2 + k
    PROVE  BigEndian(b, k) \in Nat
<1>1. ASSUME NEW i \in 1 .. k PROVE b[2 + i] \in Nat
  <2>1. 2 + i \in 1 .. Len(b)
    OBVIOUS
  <2>2. b[2 + i] \in Byte
    BY <2>1
  <2> QED
    BY <2>2, ByteNat
<1> QED
  BY <1>1, BigEndianNat

LEMMA FrameWhole ==
    ASSUME NEW b \in Seq(Byte), NEW n \in Nat, n >= 2
    PROVE  /\ Frame(b, n).is \in {"whole", "more"}
           /\ Frame(b, n).is = "whole" => Frame(b, n).len = n /\ n \in 2 .. Len(b)
           /\ n <= Len(b) => Frame(b, n).is = "whole"
BY DEF Frame

LEMMA FrameBounds ==
    ASSUME NEW b \in Seq(Byte)
    PROVE  /\ FrameLen(b).is \in {"whole", "more", "alien"}
           /\ FrameLen(b).is = "whole" => FrameLen(b).len \in 2 .. Len(b)
           /\ FrameLen(b).is # "more" => Len(b) >= 2
<1>0. Len(b) \in Nat
  OBVIOUS
<1>1. CASE Len(b) < 2
  BY <1>1, FrameCases
<1>2. CASE ~(Len(b) < 2) /\ b[1] # 48
  BY <1>0, <1>2, FrameCases
<1>3. CASE ~(Len(b) < 2) /\ b[1] = 48 /\ b[2] < 128
  <2>1. b[2] \in Byte
    BY <1>0, <1>3
  <2>2. 2 + b[2] \in Nat /\ 2 + b[2] >= 2
    BY <2>1, ByteNat
  <2>3. FrameLen(b) = Frame(b, 2 + b[2])
    BY <1>3, FrameCases
  <2> QED
    BY <1>0, <1>3, <2>2, <2>3, FrameWhole
<1>4. CASE ~(Len(b) < 2) /\ b[1] = 48 /\ ~(b[2] < 128)
  <2> DEFINE k == b[2] - 128
  <2>1. b[2] \in Byte
    BY <1>0, <1>4
  <2>2. k \in Nat
    BY <1>4, <2>1, ByteNat
  <2>3. FrameLen(b) = LongLen(b, k)
    BY <1>4, FrameCases
  <2> HIDE DEF k
  <2>4. CASE k = 0 \/ k > 4 \/ Len(b) < 2 + k
    BY <1>0, <1>4, <2>3, <2>4 DEF LongLen
  <2>5. CASE ~(k = 0 \/ k > 4 \/ Len(b) < 2 + k)
    <3>1. Len(b) >= 2 + k
      BY <1>0, <2>2, <2>5
    <3>2. BigEndian(b, k) \in Nat
      BY <2>2, <3>1, LengthNat
    <3>3. 2 + k + BigEndian(b, k) \in Nat /\ 2 + k + BigEndian(b, k) >= 2
      BY <2>2, <3>2
    <3>4. LongLen(b, k) = IF BigEndian(b, k) > FrameLimit THEN [is |-> "alien", len |-> 0]
                          ELSE Frame(b, 2 + k + BigEndian(b, k))
      BY <2>5 DEF LongLen
    <3>5. CASE BigEndian(b, k) > FrameLimit
      BY <1>0, <1>4, <2>3, <3>4, <3>5
    <3>6. CASE ~(BigEndian(b, k) > FrameLimit)
      BY <1>0, <1>4, <2>3, <3>3, <3>4, <3>6, FrameWhole
    <3> QED
      BY <3>5, <3>6
  <2> QED
    BY <2>4, <2>5
<1> QED
  BY <1>1, <1>2, <1>3, <1>4

\* c has the bytes of b as far as both go.
Alike(b, c) == \A i \in 1 .. Len(b) : i <= Len(c) => b[i] = c[i]

\* frameLen reads the header only.
LEMMA FrameHeader ==
    ASSUME NEW b \in Seq(Byte), NEW c \in Seq(Byte), Alike(b, c), Len(b) >= 2, Len(c) >= 2
    PROVE  /\ b[1] = c[1] /\ b[2] = c[2] /\ b[2] \in Byte
           /\ \A k \in Nat : Len(b) >= 2 + k /\ Len(c) >= 2 + k =>
                BigEndian(b, k) = BigEndian(c, k)
<1>0. Len(b) \in Nat /\ Len(c) \in Nat
  OBVIOUS
<1>1. b[1] = c[1] /\ b[2] = c[2] /\ b[2] \in Byte
  BY <1>0 DEF Alike
<1>2. ASSUME NEW k \in Nat, Len(b) >= 2 + k, Len(c) >= 2 + k
      PROVE  BigEndian(b, k) = BigEndian(c, k)
  <2>1. ASSUME NEW i \in 1 .. k PROVE b[2 + i] \in Nat /\ b[2 + i] = c[2 + i]
    <3>1. 2 + i \in 1 .. Len(b) /\ 2 + i <= Len(c)
      BY <1>0, <1>2
    <3>2. b[2 + i] \in Byte
      BY <3>1
    <3>3. b[2 + i] = c[2 + i]
      BY <3>1 DEF Alike
    <3> QED
      BY <3>2, <3>3, ByteNat
  <2> QED
    BY <2>1, BigEndianSame
<1> QED
  BY <1>1, <1>2

LEMMA FrameSame ==
    ASSUME NEW b \in Seq(Byte), NEW c \in Seq(Byte), Alike(b, c), Len(c) >= FrameLen(b).len,
           FrameLen(b).is = "whole"
    PROVE  FrameLen(c) = FrameLen(b)
<1> DEFINE n == FrameLen(b).len
<1>0. Len(b) \in Nat /\ Len(c) \in Nat
  OBVIOUS
<1>1. n \in 2 .. Len(b)
  BY FrameBounds
<1>2. Len(b) >= 2 /\ Len(c) >= 2 /\ ~(Len(b) < 2) /\ ~(Len(c) < 2)
  BY <1>0, <1>1
<1>3. /\ b[1] = c[1] /\ b[2] = c[2] /\ b[2] \in Nat
      /\ \A k \in Nat : Len(b) >= 2 + k /\ Len(c) >= 2 + k => BigEndian(b, k) = BigEndian(c, k)
  BY <1>2, FrameHeader, ByteNat
<1>4. b[1] = 48
  BY <1>2, FrameCases
<1>5. ASSUME NEW m \in Nat, m >= 2, FrameLen(b) = Frame(b, m)
      PROVE  Frame(c, m) = Frame(b, m)
  <2>1. n = m
    BY <1>5, FrameWhole
  <2> QED
    BY <1>0, <1>1, <2>1, <1>5 DEF Frame
<1>6. CASE b[2] < 128
  <2>1. FrameLen(b) = Frame(b, 2 + b[2]) /\ FrameLen(c) = Frame(c, 2 + b[2])
    BY <1>2, <1>3, <1>4, <1>6, FrameCases
  <2>2. 2 + b[2] \in Nat /\ 2 + b[2] >= 2
    BY <1>3
  <2> HIDE DEF n
  <2> QED
    BY <1>5, <2>1, <2>2
<1>7. CASE ~(b[2] < 128)
  <2> DEFINE k == b[2] - 128
  <2>1. k \in Nat
    BY <1>3, <1>7
  <2>2. FrameLen(b) = LongLen(b, k) /\ FrameLen(c) = LongLen(c, k)
    BY <1>2, <1>3, <1>4, <1>7, FrameCases
  <2> HIDE DEF k
  <2> DEFINE m == 2 + k + BigEndian(b, k)
  <2>3. ~(k = 0 \/ k > 4) /\ ~(Len(b) < 2 + k) /\ ~(BigEndian(b, k) > FrameLimit)
    BY <2>2 DEF LongLen
  <2>4. LongLen(b, k) = Frame(b, m)
    BY <2>3 DEF LongLen
  <2>5. BigEndian(b, k) \in Nat
    <3>1. Len(b) >= 2 + k
      BY <1>0, <2>1, <2>3
    <3> QED
      BY <2>1, <3>1, LengthNat
  <2>6. m \in Nat /\ m >= 2 /\ m >= 2 + k
    BY <2>1, <2>5
  <2>7. n = m
    BY <2>2, <2>4, <2>6, FrameWhole
  <2>8. Len(b) >= 2 + k /\ Len(c) >= 2 + k
    BY <1>0, <1>1, <2>1, <2>6, <2>7
  <2>9. BigEndian(c, k) = BigEndian(b, k)
    BY <1>3, <2>1, <2>8
  <2>10. ~(Len(c) < 2 + k)
    BY <1>0, <2>1, <2>8
  <2>11. LongLen(c, k) = Frame(c, m)
    BY <2>3, <2>9, <2>10 DEF LongLen
  <2> HIDE DEF m, n
  <2> QED
    BY <1>5, <2>2, <2>4, <2>6, <2>11
<1> QED
  BY <1>6, <1>7

LEMMA FrameAlien ==
    ASSUME NEW b \in Seq(Byte), NEW c \in Seq(Byte), Alike(b, c), Len(c) >= 2,
           FrameLen(b).is = "alien"
    PROVE  FrameLen(c).is # "whole"
<1>0. Len(b) \in Nat /\ Len(c) \in Nat
  OBVIOUS
<1>1. Len(b) >= 2
  BY FrameBounds
<1>2. ~(Len(b) < 2) /\ ~(Len(c) < 2)
  BY <1>0, <1>1
<1>3. /\ b[1] = c[1] /\ b[2] = c[2] /\ b[2] \in Nat
      /\ \A k \in Nat : Len(b) >= 2 + k /\ Len(c) >= 2 + k => BigEndian(b, k) = BigEndian(c, k)
  BY <1>1, FrameHeader, ByteNat
<1>4. CASE b[1] # 48
  BY <1>2, <1>3, <1>4, FrameCases
<1>5. CASE b[1] = 48 /\ b[2] < 128
  <2>1. FrameLen(b) = Frame(b, 2 + b[2]) /\ 2 + b[2] \in Nat /\ 2 + b[2] >= 2
    BY <1>2, <1>3, <1>5, FrameCases
  <2> QED
    BY <2>1, FrameWhole
<1>6. CASE b[1] = 48 /\ ~(b[2] < 128)
  <2> DEFINE k == b[2] - 128
  <2>1. k \in Nat
    BY <1>3, <1>6
  <2>2. FrameLen(b) = LongLen(b, k) /\ FrameLen(c) = LongLen(c, k)
    BY <1>2, <1>3, <1>6, FrameCases
  <2> HIDE DEF k
  <2>3. CASE k = 0 \/ k > 4 \/ Len(c) < 2 + k
    BY <2>2, <2>3 DEF LongLen
  <2>4. CASE ~(k = 0 \/ k > 4 \/ Len(c) < 2 + k)
    <3>1. ~(Len(b) < 2 + k)
      BY <2>2, <2>4 DEF LongLen
    <3>2. Len(b) >= 2 + k /\ Len(c) >= 2 + k
      BY <1>0, <2>1, <2>4, <3>1
    <3>3. BigEndian(c, k) = BigEndian(b, k) /\ BigEndian(b, k) \in Nat
      BY <1>3, <2>1, <3>2, LengthNat
    <3>4. CASE BigEndian(b, k) > FrameLimit
      BY <2>2, <2>4, <3>3, <3>4 DEF LongLen
    <3>5. CASE ~(BigEndian(b, k) > FrameLimit)
      <4>1. FrameLen(b) = Frame(b, 2 + k + BigEndian(b, k))
        BY <2>2, <2>4, <3>1, <3>5 DEF LongLen
      <4>2. 2 + k + BigEndian(b, k) \in Nat /\ 2 + k + BigEndian(b, k) >= 2
        BY <2>1, <3>3
      <4> QED
        BY <4>1, <4>2, FrameWhole
    <3> QED
      BY <3>4, <3>5
  <2> QED
    BY <2>3, <2>4
<1> QED
  BY <1>4, <1>5, <1>6

\* A message is one whole frame, unless frameLen refuses its length.
LEMMA FrameOfMessage ==
    ASSUME NEW f \in Frames
    PROVE  /\ f \in Seq(Byte) /\ Len(f) >= 2
           /\ \/ FrameLen(f).is = "whole" /\ FrameLen(f).len = Len(f)
              \/ FrameLen(f).is = "alien"
<1>0. f \in Seq(Byte) /\ Len(f) >= 2 /\ f[1] = 48 /\ Len(f) \in Nat /\ ~(Len(f) < 2)
  BY FramesAssumption DEF Sequence, Byte
<1>1. f[2] \in Nat
  <2>1. f[2] \in Byte
    BY <1>0
  <2> QED
    BY <2>1, ByteNat
<1>2. CASE f[2] < 128
  <2>1. Len(f) = 2 + f[2]
    BY <1>1, <1>2, FramesAssumption DEF Sequence
  <2>2. FrameLen(f) = Frame(f, Len(f))
    BY <1>0, <1>2, <2>1, FrameCases
  <2> QED
    BY <1>0, <2>2, FrameWhole
<1>3. CASE ~(f[2] < 128)
  <2> DEFINE k == f[2] - 128
  <2>1. Len(f) >= 2 + k /\ Len(f) = 2 + k + BigEndian(f, k) /\ k \in Nat
    BY <1>1, <1>3, FramesAssumption DEF Sequence
  <2>2. FrameLen(f) = LongLen(f, k)
    BY <1>0, <1>3, FrameCases
  <2> HIDE DEF k
  <2>3. ~(Len(f) < 2 + k)
    BY <1>0, <2>1
  <2>4. CASE k = 0 \/ k > 4 \/ BigEndian(f, k) > FrameLimit
    BY <1>0, <2>2, <2>3, <2>4 DEF LongLen
  <2>5. CASE ~(k = 0 \/ k > 4 \/ BigEndian(f, k) > FrameLimit)
    <3>1. FrameLen(f) = Frame(f, Len(f))
      BY <2>1, <2>2, <2>3, <2>5 DEF LongLen
    <3> QED
      BY <1>0, <3>1, FrameWhole
  <2> QED
    BY <1>0, <2>4, <2>5
<1> QED
  BY <1>0, <1>2, <1>3

\* A buffer that begins like a message and is whole has just that message at its
\* start; one that frameLen refuses begins a message that it refuses.
LEMMA FrameAtStart ==
    ASSUME NEW b \in Seq(Byte), NEW f \in Frames, Alike(b, f)
    PROVE  /\ FrameLen(b).is = "whole" =>
                FrameLen(b).len = Len(f) /\ FrameLen(f).is = "whole"
           /\ FrameLen(b).is = "alien" => FrameLen(f).is = "alien"
<1>0. f \in Seq(Byte) /\ Len(f) >= 2 /\ Len(f) \in Nat /\ Len(b) \in Nat
  BY FrameOfMessage, LenProperties
<1>1. ASSUME FrameLen(b).is = "whole"
      PROVE  FrameLen(b).len = Len(f) /\ FrameLen(f).is = "whole"
  <2>1. FrameLen(b).len \in 2 .. Len(b)
    BY <1>1, FrameBounds
  <2>2. CASE Len(f) >= FrameLen(b).len
    <3>1. FrameLen(f) = FrameLen(b)
      BY <1>0, <1>1, <2>2, FrameSame
    <3> QED
      BY <1>1, <3>1, FrameOfMessage
  <2>3. CASE ~(Len(f) >= FrameLen(b).len)
    <3>1. Alike(f, b) /\ Len(b) >= Len(f) /\ Len(b) >= 2
      BY <1>0, <2>1, <2>3 DEF Alike
    <3>2. CASE FrameLen(f).is = "whole" /\ FrameLen(f).len = Len(f)
      <4>1. FrameLen(b) = FrameLen(f)
        BY <1>0, <3>1, <3>2, FrameSame
      <4> QED
        BY <3>2, <4>1
    <3>3. CASE FrameLen(f).is = "alien"
      BY <1>0, <1>1, <3>1, <3>3, FrameAlien
    <3> QED
      BY <3>2, <3>3, FrameOfMessage
  <2> QED
    BY <2>2, <2>3
<1>2. ASSUME FrameLen(b).is = "alien" PROVE FrameLen(f).is = "alien"
  <2>1. FrameLen(f).is # "whole"
    BY <1>0, <1>2, FrameAlien
  <2> QED
    BY <2>1, FrameOfMessage
<1> QED
  BY <1>1, <1>2

\* What is cut off as a frame is a frame.
LEMMA FrameCut ==
    ASSUME NEW b \in Seq(Byte), FrameLen(b).is = "whole"
    PROVE  FrameLen(SubSeq(b, 1, FrameLen(b).len)).is = "whole"
<1> DEFINE n == FrameLen(b).len
           c == SubSeq(b, 1, n)
<1>1. n \in 2 .. Len(b) /\ n \in 0 .. Len(b) /\ n \in Nat
  BY FrameBounds
<1>2. c \in Seq(Byte) /\ Len(c) = n /\ \A j \in 1 .. n : c[j] = b[j]
  BY <1>1, PrefixFacts
<1>3. Alike(b, c)
  BY <1>2 DEF Alike
<1>4. Len(c) >= n
  BY <1>1, <1>2
<1> HIDE DEF c
<1>5. FrameLen(c) = FrameLen(b)
  BY <1>2, <1>3, <1>4, FrameSame
<1> QED
  BY <1>5 DEF c

-----------------------------------------------------------------------------
(* Types.                                                                  *)

Messages == [seq : Nat, dir : Dirs, raw : Bytes \ {<<>>}]
                \cup [seq : Nat, dir : {"note"}, raw : {<<>>}]

LEMMA MessageTyped ==
    ASSUME NEW d \in Dirs, NEW f \in Bytes \ {<<>>}, NEW n \in Nat
    PROVE  /\ [seq |-> n, dir |-> d, raw |-> f] \in Messages
           /\ [seq |-> n, dir |-> "note", raw |-> <<>>] \in Messages
BY DEF Messages

\* What is kept of a log that has grown by one.
Newest(all) == IF LogMax > 0 /\ Len(all) > LogMax
             THEN SubSeq(all, Len(all) - LogMax + 1, Len(all)) ELSE all

LEMMA KeptTyped ==
    ASSUME NEW S, NEW s \in Seq(S), NEW e \in S
    PROVE  Newest(Append(s, e)) \in Seq(S)
<1> DEFINE all == Append(s, e)
           m == Len(all) - LogMax + 1
<1>1. all \in Seq(S)
  BY AppendProperties
<1> HIDE DEF all
<1>2. CASE LogMax > 0 /\ Len(all) > LogMax
  <2>1. Len(all) \in Nat /\ LogMax \in Nat
    BY <1>1, LimitsAssumption
  <2>2. m \in 1 .. Len(all) /\ m \in Int /\ Len(all) \in Int
    BY <1>2, <2>1
  <2>3. \A i \in m .. Len(all) : all[i] \in S
    <3> SUFFICES ASSUME NEW i \in m .. Len(all) PROVE all[i] \in S
      OBVIOUS
    <3>1. i \in 1 .. Len(all)
      BY <2>1, <2>2
    <3> QED
      BY <1>1, <3>1, ElementOfSeq
  <2>4. SubSeq(all, m, Len(all)) \in Seq(S)
    <3> HIDE DEF m
    <3> QED
      BY <2>2, <2>3, SubSeqProperties
  <2> QED
    BY <1>2, <2>4 DEF Newest, all
<1>3. CASE ~(LogMax > 0 /\ Len(all) > LogMax)
  BY <1>1, <1>3 DEF Newest, all
<1> QED
  BY <1>2, <1>3

LEMMA MessageBytes == \A f \in Frames : f \in Bytes /\ Len(f) >= 2
BY FrameOfMessage DEF Bytes, Byte

\* A part of what is on its way.
LEMMA PieceTyped ==
    ASSUME NEW b \in Bytes, NEW n \in 0 .. Len(b)
    PROVE  /\ SubSeq(b, 1, n) \in Bytes /\ SubSeq(b, n + 1, Len(b)) \in Bytes
           /\ SubSeq(b, 1, n) \o SubSeq(b, n + 1, Len(b)) = b
           /\ Begins(SubSeq(b, 1, n), b)
<1>0. b \in Seq(Byte) /\ Bytes = Seq(Byte) /\ Len(b) \in Nat
  BY DEF Bytes, Byte
<1>1. /\ SubSeq(b, 1, n) \in Seq(Byte) /\ Len(SubSeq(b, 1, n)) = n
      /\ \A j \in 1 .. n : SubSeq(b, 1, n)[j] = b[j]
  BY <1>0, PrefixFacts
<1>2. SubSeq(b, n + 1, Len(b)) \in Seq(Byte)
  <2>1. \A i \in n + 1 .. Len(b) : b[i] \in Byte
    <3> SUFFICES ASSUME NEW i \in n + 1 .. Len(b) PROVE b[i] \in Byte
      OBVIOUS
    <3>1. i \in 1 .. Len(b)
      BY <1>0
    <3> QED
      BY <1>0, <3>1, ElementOfSeq
  <2> QED
    BY <1>0, <2>1, SubSeqProperties
<1>3. SubSeq(b, 1, n) \o SubSeq(b, n + 1, Len(b)) = b
  <2>1. 1 \in 1 .. Len(b) + 1 /\ n \in 1 - 1 .. Len(b) /\ Len(b) \in n .. Len(b)
    BY <1>0
  <2>2. SubSeq(b, 1, n) \o SubSeq(b, n + 1, Len(b)) = SubSeq(b, 1, Len(b))
    BY <1>0, <2>1, ConcatAdjacentSubSeq
  <2> QED
    BY <1>0, <2>2, SubSeqFull
<1>4. Begins(SubSeq(b, 1, n), b)
  <2>1. n <= Len(b)
    BY <1>0
  <2> QED
    BY <1>1, <2>1 DEF Begins
<1> QED
  BY <1>0, <1>1, <1>2, <1>3, <1>4

LEMMA FrameTyped ==
    ASSUME NEW b \in Bytes, FrameLen(b).is = "whole"
    PROVE  /\ SubSeq(b, 1, FrameLen(b).len) \in Bytes \ {<<>>}
           /\ SubSeq(b, FrameLen(b).len + 1, Len(b)) \in Bytes
           /\ Len(SubSeq(b, 1, FrameLen(b).len)) = FrameLen(b).len
           /\ SubSeq(b, 1, FrameLen(b).len) \o SubSeq(b, FrameLen(b).len + 1, Len(b)) = b
<1> DEFINE n == FrameLen(b).len
<1>0. b \in Seq(Byte) /\ Bytes = Seq(Byte) /\ Len(b) \in Nat
  BY DEF Bytes, Byte
<1>1. n \in 2 .. Len(b)
  BY <1>0, FrameBounds
<1> HIDE DEF n
<1>2. n \in 0 .. Len(b)
  BY <1>0, <1>1
<1>3. Len(SubSeq(b, 1, n)) = n
  BY <1>0, <1>2, PrefixFacts
<1>4. SubSeq(b, 1, n) # <<>>
  BY <1>1, <1>3, EmptySeq
<1> QED
  BY <1>2, <1>3, <1>4, PieceTyped DEF n

LEMMA DirsAre == "out" \in Dirs /\ "in" \in Dirs /\ "none" \notin Dirs /\ "note" \notin Dirs
BY DEF Dirs

LEMMA InitTyped == Init => TypeOK
<1> SUFFICES ASSUME Init PROVE TypeOK
  OBVIOUS
<1>1. <<>> \in Bytes /\ <<>> \in Seq(Bytes) /\ <<>> \in Seq(Frames)
  BY DEF Bytes
<1>2. log \in Seq(Messages)
  <2>1. [seq |-> 1, dir |-> "note", raw |-> <<>>] \in Messages
    BY DEF Messages
  <2> QED
    BY <2>1 DEF Init
<1>3. 0 \in 0 .. MaxClears
  BY LimitsAssumption
<1> QED
  BY <1>1, <1>2, <1>3 DEF Init, TypeOK, Messages

\* The bytes that come or go.
LEMMA SocketTyped ==
    ASSUME TypeOK, (\E f \in Frames : Write(f) \/ WriteFails(f) \/ ServerSends(f)) \/ Reader
    PROVE  TypeOK'
<1>1. ASSUME NEW f \in Frames, Write(f) PROVE TypeOK'
  <2>1. f \in Bytes
    BY MessageBytes
  <2>2. sent' \in [Dirs -> Seq(Frames)]
    <3>1. Append(sent["out"], f) \in Seq(Frames)
      BY DirsAre, AppendProperties DEF TypeOK
    <3> QED
      BY <1>1, <3>1, DirsAre DEF TypeOK, Write
  <2>3. handed' \in [Dirs -> Bytes]
    BY <1>1, <2>1 DEF TypeOK, Write
  <2> QED
    BY <1>1, <2>2, <2>3 DEF TypeOK, Write
<1>2. ASSUME NEW f \in Frames, WriteFails(f) PROVE TypeOK'
  <2>1. f \in Bytes /\ Len(f) \in Nat
    BY MessageBytes, LenProperties DEF Bytes
  <2>2. sent' \in [Dirs -> Seq(Frames)]
    <3>1. Append(sent["out"], f) \in Seq(Frames)
      BY DirsAre, AppendProperties DEF TypeOK
    <3> QED
      BY <1>2, <3>1, DirsAre DEF TypeOK, WriteFails
  <2>3. handed' \in [Dirs -> Bytes]
    <3>1. PICK n \in 0 .. Len(f) - 1 : handed' = [handed EXCEPT !["out"] = SubSeq(f, 1, n)]
      BY <1>2 DEF WriteFails
    <3>2. SubSeq(f, 1, n) \in Bytes
      <4>1. n \in 0 .. Len(f)
        BY <2>1
      <4> QED
        BY <2>1, <4>1, PieceTyped
    <3> QED
      BY <3>1, <3>2 DEF TypeOK
  <2> QED
    BY <1>2, <2>2, <2>3 DEF TypeOK, WriteFails
<1>3. ASSUME NEW f \in Frames, ServerSends(f) PROVE TypeOK'
  <2>1. wire \o f \in Bytes
    BY MessageBytes, ConcatProperties DEF TypeOK, Bytes
  <2>2. sent' \in [Dirs -> Seq(Frames)]
    <3>1. Append(sent["in"], f) \in Seq(Frames)
      BY DirsAre, AppendProperties DEF TypeOK
    <3> QED
      BY <1>3, <3>1, DirsAre DEF TypeOK, ServerSends
  <2> QED
    BY <1>3, <2>1, <2>2 DEF TypeOK, ServerSends
<1>4. ASSUME NEW n \in 1 .. Len(wire), Read(n) PROVE TypeOK'
  <2>1. wire \in Bytes /\ n \in 0 .. Len(wire)
    BY LenProperties DEF TypeOK, Bytes
  <2>2. SubSeq(wire, 1, n) \in Bytes /\ SubSeq(wire, n + 1, Len(wire)) \in Bytes
    BY <2>1, PieceTyped
  <2>3. handed' \in [Dirs -> Bytes]
    BY <1>4, <2>2 DEF TypeOK, Read
  <2> QED
    BY <1>4, <2>2, <2>3 DEF TypeOK, Read
<1> QED
  BY <1>1, <1>2, <1>3, <1>4 DEF Reader

\* One turn of feed.
LEMMA TapTyped ==
    ASSUME TypeOK, NEW d \in Dirs, Tap(d)
    PROVE  TypeOK'
<1>0. /\ buf[d] \in Bytes /\ handed[d] \in Bytes /\ <<>> \in Bytes
      /\ log \in Seq(Messages) /\ seq \in Nat /\ recorded[d] \in Seq(Bytes)
  BY DEF TypeOK, Messages, Bytes
<1>1. CASE Feed(d)
  <2>1. buf[d] \o handed[d] \in Bytes
    BY <1>0, ConcatProperties DEF Bytes
  <2>2. buf' \in [Dirs -> Bytes] /\ handed' \in [Dirs -> Bytes]
    BY <1>0, <1>1, <2>1 DEF TypeOK, Feed
  <2> QED
    BY <1>1, <2>2 DEF TypeOK, Feed
<1>2. CASE FeedFrame(d)
  <2> DEFINE n == FrameLen(buf[d]).len
             f == SubSeq(buf[d], 1, n)
             e == [seq |-> seq + 1, dir |-> d, raw |-> f]
  <2>1. f \in Bytes \ {<<>>} /\ SubSeq(buf[d], n + 1, Len(buf[d])) \in Bytes
    BY <1>0, <1>2, FrameTyped DEF FeedFrame
  <2>2. log' = Newest(Append(log, e)) /\ seq' = seq + 1
    BY <1>2 DEF FeedFrame, Add, Newest
  <2>3. seq + 1 \in Nat
    BY <1>0
  <2>4. e \in Messages
    <3> HIDE DEF f
    <3> QED
      BY <2>1, <2>3, MessageTyped
  <2>5. log' \in Seq(Messages)
    <3> HIDE DEF e
    <3> QED
      BY <1>0, <2>2, <2>4, KeptTyped
  <2>6. buf' \in [Dirs -> Bytes]
    BY <1>2, <2>1 DEF TypeOK, FeedFrame
  <2>7. recorded' \in [Dirs -> Seq(Bytes)]
    <3> HIDE DEF f
    <3>1. Append(recorded[d], f) \in Seq(Bytes)
      BY <1>0, <2>1, AppendProperties
    <3>2. recorded' = [recorded EXCEPT ![d] = Append(recorded[d], f)]
      BY <1>2 DEF FeedFrame, f
    <3> QED
      BY <3>1, <3>2 DEF TypeOK
  <2> HIDE DEF n
  <2> QED
    BY <1>2, <2>2, <2>3, <2>5, <2>6, <2>7 DEF TypeOK, FeedFrame, Messages
<1>3. CASE FeedMore(d)
  BY <1>3, DirsAre DEF TypeOK, FeedMore
<1>4. CASE FeedAlien(d)
  <2> DEFINE e == [seq |-> seq + 1, dir |-> "note", raw |-> <<>>]
  <2>1. log' = Newest(Append(log, e)) /\ seq' = seq + 1
    BY <1>4 DEF FeedAlien, Add, Newest
  <2>2. seq + 1 \in Nat
    BY <1>0
  <2>3. e \in Messages
    BY <2>2 DEF Messages
  <2>4. log' \in Seq(Messages)
    <3> HIDE DEF e
    <3> QED
      BY <1>0, <2>1, <2>3, KeptTyped
  <2>5. buf' \in [Dirs -> Bytes]
    BY <1>0, <1>4 DEF TypeOK, FeedAlien
  <2> QED
    BY <1>4, <2>1, <2>2, <2>4, <2>5 DEF TypeOK, FeedAlien, Messages
<1> QED
  BY <1>1, <1>2, <1>3, <1>4 DEF Tap

LEMMA TypesPreserved == TypeOK /\ [Next]_vars => TypeOK'
<1> SUFFICES ASSUME TypeOK, [Next]_vars PROVE TypeOK'
  OBVIOUS
<1>1. CASE Clear
  <2>1. clears' \in 0 .. MaxClears
    BY <1>1, LimitsAssumption DEF TypeOK, Clear
  <2> QED
    BY <1>1, <2>1 DEF TypeOK, Clear
<1>2. CASE Reader
  BY <1>2, SocketTyped
<1>3. CASE \E f \in Frames : Write(f) \/ WriteFails(f) \/ ServerSends(f)
  BY <1>3, SocketTyped
<1>4. CASE \E d \in Dirs : Tap(d)
  BY <1>4, TapTyped
<1>5. CASE UNCHANGED vars
  BY <1>5 DEF TypeOK, vars
<1> QED
  BY <1>1, <1>2, <1>3, <1>4, <1>5 DEF Next

\* TypeOK is an invariant: what is on the socket, in the buffers and in the log
\* is always bytes, and a log entry is a message with its direction or a note
\* (internal/proto/proto.go, Tap and Log).
THEOREM TapTypes == Spec => []TypeOK
BY InitTyped, TypesPreserved, PTL DEF Spec

-----------------------------------------------------------------------------
(* One direction: r is recorded of it, s was sent, b is buffered, h handed *)
(* to the tap, w on the wire.                                              *)

StreamOf(r, b, h, w) == FlattenSeq(r) \o b \o h \o w

\* Nothing is missing.  When a write has failed, short is TRUE and the end of what
\* was sent may be.
SyncedOf(r, s, b, h, w, short) ==
    /\ Begins(r, s)
    /\ Begins(StreamOf(r, b, h, w), FlattenSeq(s))
    /\ short \/ StreamOf(r, b, h, w) = FlattenSeq(s)

LEMMA BytesLen == \A b \in Bytes : Len(b) \in Nat
BY DEF Bytes

LEMMA Regroup == \A s, t, u \in Bytes : (s \o t) \o u = s \o (t \o u)
BY ConcatAssociative DEF Bytes

LEMMA Joined == \A s, t \in Bytes : s \o t \in Bytes /\ Begins(s, s \o t)
BY ConcatProperties, BeginsConcat DEF Bytes

Fed(r, b) == FlattenSeq(r) \o b
Ahead(h, w) == h \o w

LEMMA StreamTyped ==
    \A r \in Seq(Bytes), b, h, w \in Bytes :
           /\ FlattenSeq(r) \in Bytes /\ Fed(r, b) \in Bytes /\ Ahead(h, w) \in Bytes
           /\ StreamOf(r, b, h, w) \in Bytes
           /\ StreamOf(r, b, h, w) = Fed(r, b) \o Ahead(h, w)
<1> TAKE r \in Seq(Bytes), b, h, w \in Bytes
<1> DEFINE R == FlattenSeq(r)
<1>1. R \in Bytes
  BY FlattenType DEF Bytes
<1> HIDE DEF R
<1>2. R \o b \in Bytes /\ h \o w \in Bytes
  BY <1>1, ConcatProperties DEF Bytes
<1>3. R \o b \o h \in Bytes
  BY <1>2, ConcatProperties DEF Bytes
<1>4. R \o b \o h \o w \in Bytes
  BY <1>3, ConcatProperties DEF Bytes
<1>5. R \o b \o h \o w = (R \o b) \o (h \o w)
  BY <1>2, Regroup
<1> QED
  BY <1>1, <1>2, <1>4, <1>5 DEF R, StreamOf, Fed, Ahead

LEMMA FramesAreBytes == \A s \in Seq(Frames) : s \in Seq(Bytes)
<1> TAKE s \in Seq(Frames)
<1>1. Frames \subseteq Bytes
  BY MessageBytes
<1> QED
  BY <1>1, SeqMonotonic

LEMMA ConcatIndex ==
    ASSUME NEW s \in Bytes, NEW t \in Bytes
    PROVE  /\ Len(s \o t) = Len(s) + Len(t) /\ Len(s) \in Nat /\ Len(t) \in Nat
           /\ \A i \in 1 .. Len(t) : (s \o t)[Len(s) + i] = t[i]
BY DEF Bytes

\* The buffer begins like the next message that was sent.
LEMMA NextMessage ==
    ASSUME NEW r \in Seq(Bytes), NEW s \in Seq(Bytes), NEW b \in Bytes, NEW h \in Bytes,
           NEW w \in Bytes, NEW short, SyncedOf(r, s, b, h, w, short), Len(b) >= 1
    PROVE  Len(r) < Len(s) /\ Alike(b, s[Len(r) + 1])
<1> DEFINE R == FlattenSeq(r)
           F == FlattenSeq(s)
           u == Fed(r, b)
           f == s[Len(r) + 1]
<1>0. Len(r) \in Nat /\ Len(s) \in Nat /\ Len(b) \in Nat
  BY BytesLen, LenProperties
<1>1. R \in Bytes /\ F \in Bytes /\ u \in Bytes
  BY StreamTyped
<1>2. Begins(u, F)
  <2>1. Ahead(h, w) \in Bytes /\ StreamOf(r, b, h, w) = u \o Ahead(h, w)
    BY StreamTyped
  <2>2. Begins(StreamOf(r, b, h, w), F)
    BY DEF SyncedOf
  <2> HIDE DEF u, F
  <2>3. Begins(u, u \o Ahead(h, w)) /\ u \o Ahead(h, w) \in Bytes
    BY <1>1, <2>1, Joined
  <2> QED
    BY <1>1, <2>1, <2>2, <2>3, BytesLen, BeginsTransitive
<1>3. Len(u) = Len(R) + Len(b) /\ Len(R) \in Nat /\ Len(F) \in Nat
      /\ \A i \in 1 .. Len(b) : u[Len(R) + i] = b[i]
  BY <1>1, ConcatIndex DEF Fed
<1>4. Len(r) < Len(s)
  <2> SUFFICES ASSUME Len(r) >= Len(s) PROVE FALSE
    BY <1>0
  <2>1. Len(r) = Len(s) /\ \A i \in 1 .. Len(r) : r[i] = s[i]
    BY <1>0 DEF SyncedOf, Begins
  <2>2. r = s
    BY <2>1, SeqEqual
  <2> HIDE DEF u
  <2> QED
    BY <1>0, <1>2, <1>3, <2>2 DEF Begins
<1>5. f \in Bytes
  BY <1>0, <1>4
<1>6. Begins(R \o f, F)
  BY <1>4, FlattenNext DEF SyncedOf, Bytes
<1>7. Len(R \o f) = Len(R) + Len(f) /\ Len(f) \in Nat
      /\ \A i \in 1 .. Len(f) : (R \o f)[Len(R) + i] = f[i]
  BY <1>1, <1>5, ConcatIndex
<1>8. ASSUME NEW i \in 1 .. Len(b), i <= Len(f) PROVE b[i] = f[i]
  <2> HIDE DEF R, F, f, u
  <2>1. Len(R) + i \in 1 .. Len(u) /\ Len(R) + i \in 1 .. Len(R \o f) /\ i \in 1 .. Len(f)
    BY <1>0, <1>3, <1>7, <1>8
  <2>2. u[Len(R) + i] = F[Len(R) + i] /\ (R \o f)[Len(R) + i] = F[Len(R) + i]
    BY <1>2, <1>6, <2>1 DEF Begins
  <2> QED
    BY <1>3, <1>7, <2>1, <2>2
<1> QED
  BY <1>4, <1>8 DEF Alike

LEMMA BeginsGrows ==
    ASSUME NEW S, NEW r \in Seq(S), NEW s \in Seq(S), NEW e \in S, Begins(r, s)
    PROVE  /\ Begins(r, Append(s, e))
           /\ Len(r) < Len(s) => Begins(Append(r, s[Len(r) + 1]), s)
<1>0. Len(r) \in Nat /\ Len(s) \in Nat /\ Len(r) <= Len(s) /\ \A i \in 1 .. Len(r) : r[i] = s[i]
  BY DEF Begins
<1>1. Begins(r, Append(s, e))
  <2>1. Len(Append(s, e)) = Len(s) + 1 /\ \A i \in 1 .. Len(s) : Append(s, e)[i] = s[i]
    BY AppendProperties
  <2>2. Len(r) <= Len(Append(s, e))
    BY <1>0, <2>1
  <2>3. \A i \in 1 .. Len(r) : i \in 1 .. Len(s)
    BY <1>0
  <2> QED
    BY <1>0, <2>1, <2>2, <2>3 DEF Begins
<1>2. ASSUME Len(r) < Len(s) PROVE Begins(Append(r, s[Len(r) + 1]), s)
  <2> DEFINE x == s[Len(r) + 1]
             q == Append(r, x)
  <2>1. x \in S
    BY <1>0, <1>2
  <2>2. Len(q) = Len(r) + 1 /\ q[Len(r) + 1] = x /\ \A i \in 1 .. Len(r) : q[i] = r[i]
    <3> HIDE DEF x
    <3> QED
      BY <2>1, AppendProperties
  <2> HIDE DEF q
  <2>3. ASSUME NEW i \in 1 .. Len(q) PROVE q[i] = s[i]
    <3>1. i = Len(r) + 1 \/ i \in 1 .. Len(r)
      BY <1>0, <2>2
    <3> QED
      BY <1>0, <2>2, <3>1
  <2>4. Len(q) <= Len(s)
    BY <1>0, <1>2, <2>2
  <2>5. Begins(q, s)
    BY <2>3, <2>4 DEF Begins
  <2> QED
    BY <2>5 DEF q
<1> QED
  BY <1>1, <1>2

LEMMA BeginsSelf == \A s \in Bytes : Begins(s, s)
BY DEF Begins, Bytes

LEMMA BeginsUnder ==
    ASSUME NEW s \in Bytes, NEW p \in Bytes, NEW f \in Bytes, Begins(p, f)
    PROVE  Begins(s \o p, s \o f)
<1>0. Len(s) \in Nat /\ Len(p) \in Nat /\ Len(f) \in Nat /\ Len(p) <= Len(f)
  BY BytesLen DEF Begins
<1>1. /\ Len(s \o p) = Len(s) + Len(p)
      /\ \A i \in 1 .. Len(s) + Len(p) :
           (s \o p)[i] = IF i <= Len(s) THEN s[i] ELSE p[i - Len(s)]
  BY ConcatProperties DEF Bytes
<1>2. /\ Len(s \o f) = Len(s) + Len(f)
      /\ \A i \in 1 .. Len(s) + Len(f) :
           (s \o f)[i] = IF i <= Len(s) THEN s[i] ELSE f[i - Len(s)]
  BY ConcatProperties DEF Bytes
<1>3. ASSUME NEW i \in 1 .. Len(s \o p) PROVE (s \o p)[i] = (s \o f)[i]
  <2>1. i \in 1 .. Len(s) + Len(p) /\ i \in 1 .. Len(s) + Len(f)
    BY <1>0, <1>1
  <2>2. CASE i <= Len(s)
    BY <1>1, <1>2, <2>1, <2>2
  <2>3. CASE ~(i <= Len(s))
    <3>1. i - Len(s) \in 1 .. Len(p)
      BY <1>0, <2>1, <2>3
    <3>2. p[i - Len(s)] = f[i - Len(s)]
      BY <3>1 DEF Begins
    <3> QED
      BY <1>1, <1>2, <2>1, <2>3, <3>2
  <2> QED
    BY <2>2, <2>3
<1> QED
  BY <1>0, <1>1, <1>2, <1>3 DEF Begins

\* The stream when nothing is handed to the tap, or nothing on the wire.
LEMMA StreamShort ==
    ASSUME NEW r \in Seq(Bytes), NEW b \in Bytes, NEW h \in Bytes
    PROVE  /\ StreamOf(r, b, h, <<>>) = Fed(r, b) \o h
           /\ StreamOf(r, b, <<>>, h) = Fed(r, b) \o h
<1>1. <<>> \in Bytes /\ Ahead(h, <<>>) = h /\ Ahead(<<>>, h) = h
  BY ConcatEmptySeq DEF Bytes, Ahead
<1>2. StreamOf(r, b, h, <<>>) = Fed(r, b) \o Ahead(h, <<>>)
  BY <1>1, StreamTyped
<1>3. StreamOf(r, b, <<>>, h) = Fed(r, b) \o Ahead(<<>>, h)
  BY <1>1, StreamTyped
<1> QED
  BY <1>1, <1>2, <1>3

\* Feed moves bytes from the tap's hands to its buffer.
LEMMA StreamFed ==
    ASSUME NEW r \in Seq(Bytes), NEW b \in Bytes, NEW h \in Bytes, NEW w \in Bytes
    PROVE  StreamOf(r, b \o h, <<>>, w) = StreamOf(r, b, h, w)
<1> DEFINE R == FlattenSeq(r)
           c == b \o h
<1>1. R \in Bytes /\ c \in Bytes /\ Fed(r, b) \in Bytes
  BY StreamTyped, Joined
<1>2. R \o c = Fed(r, b) \o h
  <2> HIDE DEF R
  <2>1. (R \o b) \o h = R \o (b \o h)
    BY <1>1, Regroup
  <2> QED
    BY <2>1 DEF Fed, R
<1>3. StreamOf(r, c, <<>>, w) = Fed(r, c) \o w
  <2> HIDE DEF c
  <2> QED
    BY <1>1, StreamShort
<1>4. Fed(r, c) = Fed(r, b) \o h
  BY <1>2 DEF Fed
<1>5. StreamOf(r, b, h, w) = (Fed(r, b) \o h) \o w
  BY DEF StreamOf, Fed
<1> QED
  BY <1>3, <1>4, <1>5

\* The socket gives the tap a part of what is on the wire.
LEMMA StreamRead ==
    ASSUME NEW r \in Seq(Bytes), NEW b \in Bytes, NEW p \in Bytes, NEW q \in Bytes
    PROVE  StreamOf(r, b, p, q) = StreamOf(r, b, <<>>, p \o q)
<1>1. p \o q \in Bytes
  BY Joined
<1>2. StreamOf(r, b, <<>>, p \o q) = Fed(r, b) \o (p \o q)
  BY <1>1, StreamShort
<1>3. StreamOf(r, b, p, q) = Fed(r, b) \o Ahead(p, q)
  BY StreamTyped
<1> QED
  BY <1>2, <1>3 DEF Ahead

-----------------------------------------------------------------------------
(* What each step does to a direction that is in step.                     *)

LEMMA SyncedFeed ==
    ASSUME NEW r \in Seq(Bytes), NEW s \in Seq(Bytes), NEW b \in Bytes, NEW h \in Bytes,
           NEW w \in Bytes, NEW short, SyncedOf(r, s, b, h, w, short)
    PROVE  SyncedOf(r, s, b \o h, <<>>, w, short)
BY StreamFed DEF SyncedOf

LEMMA SyncedRead ==
    ASSUME NEW r \in Seq(Bytes), NEW s \in Seq(Bytes), NEW b \in Bytes, NEW p \in Bytes,
           NEW q \in Bytes, NEW short, SyncedOf(r, s, b, <<>>, p \o q, short)
    PROVE  SyncedOf(r, s, b, p, q, short)
BY StreamRead DEF SyncedOf

\* A message is sent, and a part of it comes through.
LEMMA SyncedSend ==
    ASSUME NEW r \in Seq(Bytes), NEW s \in Seq(Bytes), NEW b \in Bytes, NEW p \in Bytes,
           NEW f \in Bytes, SyncedOf(r, s, b, <<>>, <<>>, FALSE), Begins(p, f)
    PROVE  /\ SyncedOf(r, Append(s, f), b, p, <<>>, TRUE)
           /\ p = f => SyncedOf(r, Append(s, f), b, p, <<>>, FALSE)
<1> DEFINE F == FlattenSeq(s)
<1>0. <<>> \in Bytes
  BY DEF Bytes
<1>1. Begins(r, Append(s, f))
  BY BeginsGrows DEF SyncedOf
<1>a. F \in Bytes
  BY StreamTyped
<1>b. FlattenSeq(Append(s, f)) = F \o f
  BY FlattenAppend DEF Bytes
<1>2. F \in Bytes /\ FlattenSeq(Append(s, f)) = F \o f
  BY <1>a, <1>b
<1>3. Fed(r, b) = F
  <2>a. StreamOf(r, b, <<>>, <<>>) = Fed(r, b) \o <<>>
    BY <1>0, StreamShort
  <2>b. Fed(r, b) \in Bytes
    BY StreamTyped
  <2>1. StreamOf(r, b, <<>>, <<>>) = Fed(r, b) \o <<>> /\ Fed(r, b) \in Bytes
    BY <2>a, <2>b
  <2>2. Fed(r, b) \o <<>> = Fed(r, b)
    BY <2>1, ConcatEmptySeq DEF Bytes
  <2> QED
    BY <2>1, <2>2 DEF SyncedOf
<1>4. StreamOf(r, b, p, <<>>) = F \o p
  <2>1. StreamOf(r, b, p, <<>>) = Fed(r, b) \o p
    BY StreamShort
  <2> HIDE DEF F
  <2> QED
    BY <1>3, <2>1
<1> HIDE DEF F
<1>5. Begins(F \o p, F \o f)
  BY <1>2, BeginsUnder
<1> QED
  BY <1>1, <1>2, <1>4, <1>5 DEF SyncedOf

LEMMA SyncedServer ==
    ASSUME NEW r \in Seq(Bytes), NEW s \in Seq(Bytes), NEW b \in Bytes, NEW h \in Bytes,
           NEW w \in Bytes, NEW f \in Bytes, SyncedOf(r, s, b, h, w, FALSE)
    PROVE  SyncedOf(r, Append(s, f), b, h, w \o f, FALSE)
<1> DEFINE F == FlattenSeq(s)
<1>1. Begins(r, Append(s, f))
  BY BeginsGrows DEF SyncedOf
<1>a. F \in Bytes
  BY StreamTyped
<1>b. FlattenSeq(Append(s, f)) = F \o f
  BY FlattenAppend DEF Bytes
<1>2. F \in Bytes /\ FlattenSeq(Append(s, f)) = F \o f
  BY <1>a, <1>b
<1>3. StreamOf(r, b, h, w \o f) = F \o f
  <2> DEFINE x == FlattenSeq(r) \o b \o h
  <2>1. x \in Bytes
    <3>1. FlattenSeq(r) \in Bytes
      BY StreamTyped
    <3>2. FlattenSeq(r) \o b \in Bytes
      BY <3>1, Joined
    <3> QED
      BY <3>2, Joined
  <2>2. StreamOf(r, b, h, w \o f) = x \o (w \o f)
    BY DEF StreamOf
  <2>3. F = x \o w
    BY DEF StreamOf, SyncedOf
  <2> HIDE DEF x, F
  <2>4. (x \o w) \o f = x \o (w \o f)
    BY <2>1, Regroup
  <2> QED
    BY <2>2, <2>3, <2>4
<1> HIDE DEF F
<1>4. Begins(F \o f, F \o f)
  BY <1>2, Joined, BeginsSelf
<1> QED
  BY <1>1, <1>2, <1>3, <1>4 DEF SyncedOf

LEMMA SyncedFrame ==
    ASSUME NEW r \in Seq(Bytes), NEW s \in Seq(Frames), NEW b \in Bytes, NEW h \in Bytes,
           NEW w \in Bytes, NEW short, SyncedOf(r, s, b, h, w, short),
           FrameLen(b).is = "whole"
    PROVE  /\ Len(r) < Len(s) /\ SubSeq(b, 1, FrameLen(b).len) = s[Len(r) + 1]
           /\ SyncedOf(Append(r, SubSeq(b, 1, FrameLen(b).len)), s,
                       SubSeq(b, FrameLen(b).len + 1, Len(b)), h, w, short)
<1> DEFINE n == FrameLen(b).len
           c == SubSeq(b, 1, n)
           t == SubSeq(b, n + 1, Len(b))
           f == s[Len(r) + 1]
<1>0. b \in Seq(Byte) /\ s \in Seq(Bytes) /\ Len(b) \in Nat /\ Len(r) \in Nat /\ Len(s) \in Nat
  BY FramesAreBytes, BytesLen, LenProperties DEF Bytes, Byte
<1>1. n \in 2 .. Len(b) /\ n \in 0 .. Len(b)
  BY <1>0, FrameBounds
<1>2. Len(b) >= 1
  BY <1>0, <1>1
<1>3. Len(r) < Len(s) /\ Alike(b, f)
  BY <1>0, <1>2, NextMessage
<1>4. f \in Frames
  <2>1. Len(r) + 1 \in 1 .. Len(s)
    BY <1>0, <1>3
  <2> QED
    BY <2>1, ElementOfSeq
<1>5. c \in Bytes \ {<<>>} /\ t \in Bytes /\ Len(c) = n /\ c \o t = b
  BY FrameTyped
<1>6. n = Len(f)
  <2> HIDE DEF f
  <2> QED
    BY <1>0, <1>3, <1>4, FrameAtStart
<1>7. \A j \in 1 .. n : c[j] = b[j]
  BY <1>0, <1>1, PrefixFacts
<1>8. c = f
  <2>1. \A j \in 1 .. Len(c) : c[j] = f[j]
    <3> SUFFICES ASSUME NEW j \in 1 .. n PROVE c[j] = f[j]
      BY <1>5
    <3>1. j \in 1 .. Len(b) /\ j <= Len(f)
      BY <1>0, <1>1, <1>6
    <3> HIDE DEF c, f, n
    <3> QED
      BY <1>3, <1>7, <3>1 DEF Alike
  <2>2. c \in Seq(Byte) /\ f \in Seq(Byte) /\ Len(c) = Len(f)
    <3> HIDE DEF c, f, n
    <3> QED
      BY <1>4, <1>5, <1>6, MessageBytes DEF Bytes, Byte
  <2> HIDE DEF c, f
  <2> QED
    BY <2>1, <2>2, SeqEqual
<1> HIDE DEF c, t
<1>9. Begins(Append(r, f), s)
  <2>1. Begins(r, s)
    BY DEF SyncedOf
  <2>2. f \in Bytes
    BY <1>4, MessageBytes
  <2> QED
    BY <1>0, <1>3, <2>1, <2>2, BeginsGrows
<1>10. StreamOf(Append(r, c), t, h, w) = StreamOf(r, b, h, w)
  <2> DEFINE R == FlattenSeq(r)
  <2>1. R \in Bytes
    BY StreamTyped
  <2>2. FlattenSeq(Append(r, c)) = R \o c
    BY <1>5, FlattenAppend DEF Bytes
  <2> HIDE DEF R
  <2>3. (R \o c) \o t = R \o (c \o t)
    BY <1>5, <2>1, Regroup
  <2>4. FlattenSeq(Append(r, c)) \o t = FlattenSeq(r) \o b
    BY <1>5, <2>2, <2>3 DEF R
  <2> QED
    BY <2>4 DEF StreamOf
<1> HIDE DEF f
<1>11. SyncedOf(Append(r, c), s, t, h, w, short)
  BY <1>8, <1>9, <1>10 DEF SyncedOf
<1> QED
  BY <1>3, <1>8, <1>11 DEF c, t, f

-----------------------------------------------------------------------------
(* A direction of which bytes were thrown away: what is recorded and what  *)
(* was sent part at a message whose length frameLen refuses.               *)

PartedAt(r, s, m) ==
    /\ m \in Nat /\ m <= Len(r) /\ m < Len(s)
    /\ \A i \in 1 .. m : r[i] = s[i]
    /\ FrameLen(s[m + 1]).is = "alien"

PartedOf(r, s) == \E m \in Nat : PartedAt(r, s, m)

LEMMA SyncedAlien ==
    ASSUME NEW r \in Seq(Bytes), NEW s \in Seq(Frames), NEW b \in Bytes, NEW h \in Bytes,
           NEW w \in Bytes, NEW short, SyncedOf(r, s, b, h, w, short),
           FrameLen(b).is = "alien"
    PROVE  PartedAt(r, s, Len(r))
<1>0. b \in Seq(Byte) /\ s \in Seq(Bytes) /\ Len(b) \in Nat /\ Len(r) \in Nat /\ Len(s) \in Nat
  BY FramesAreBytes, BytesLen, LenProperties DEF Bytes, Byte
<1>1. Len(b) >= 1
  BY <1>0, FrameBounds
<1>2. Len(r) < Len(s) /\ Alike(b, s[Len(r) + 1])
  BY <1>0, <1>1, NextMessage
<1>3. s[Len(r) + 1] \in Frames
  <2>1. Len(r) + 1 \in 1 .. Len(s)
    BY <1>0, <1>2
  <2> QED
    BY <2>1, ElementOfSeq
<1>4. FrameLen(s[Len(r) + 1]).is = "alien"
  BY <1>0, <1>2, <1>3, FrameAtStart
<1> QED
  BY <1>0, <1>2, <1>4 DEF PartedAt, SyncedOf, Begins

LEMMA PartedStays ==
    ASSUME NEW r \in Seq(Bytes), NEW s \in Seq(Frames), NEW m, PartedAt(r, s, m)
    PROVE  /\ \A x \in Bytes : PartedAt(Append(r, x), s, m)
           /\ \A f \in Frames : PartedAt(r, Append(s, f), m)
<1>0. Len(r) \in Nat /\ Len(s) \in Nat /\ m \in Nat /\ m <= Len(r) /\ m < Len(s)
  BY LenProperties DEF PartedAt
<1>1. ASSUME NEW x \in Bytes PROVE PartedAt(Append(r, x), s, m)
  <2>1. Len(Append(r, x)) = Len(r) + 1 /\ \A i \in 1 .. Len(r) : Append(r, x)[i] = r[i]
    BY AppendProperties
  <2>2. \A i \in 1 .. m : i \in 1 .. Len(r)
    BY <1>0
  <2>3. m <= Len(Append(r, x))
    BY <1>0, <2>1
  <2> QED
    BY <2>1, <2>2, <2>3 DEF PartedAt
<1>2. ASSUME NEW f \in Frames PROVE PartedAt(r, Append(s, f), m)
  <2>1. Len(Append(s, f)) = Len(s) + 1 /\ \A i \in 1 .. Len(s) : Append(s, f)[i] = s[i]
    BY AppendProperties
  <2>2. m + 1 \in 1 .. Len(s) /\ \A i \in 1 .. m : i \in 1 .. Len(s)
    BY <1>0
  <2>3. m < Len(Append(s, f))
    BY <1>0, <2>1
  <2> QED
    BY <2>1, <2>2, <2>3 DEF PartedAt
<1> QED
  BY <1>1, <1>2

-----------------------------------------------------------------------------
(* The inductive invariant.                                                *)

On(d) == IF d = "in" THEN wire ELSE <<>>
Short(d) == d = "out" /\ closed

Steady(d) ==
    IF d \in lost THEN PartedOf(recorded[d], sent[d])
    ELSE SyncedOf(recorded[d], sent[d], buf[d], handed[d], On(d), Short(d))

Wholes(d) == \A i \in 1 .. Len(recorded[d]) : FrameLen(recorded[d][i]).is = "whole"

TapInv == TypeOK /\ \A d \in Dirs : Steady(d) /\ Wholes(d)

LEMMA InitSteady == Init => TapInv
<1> SUFFICES ASSUME Init PROVE TapInv
  OBVIOUS
<1>1. TypeOK
  BY InitTyped
<1>2. ASSUME NEW d \in Dirs PROVE Steady(d) /\ Wholes(d)
  <2>1. recorded[d] = <<>> /\ sent[d] = <<>> /\ buf[d] = <<>> /\ handed[d] = <<>> /\ On(d) = <<>>
        /\ d \notin lost
    BY DEF Init, On
  <2>2. <<>> \in Bytes /\ <<>> \in Seq(Bytes) /\ FlattenSeq(<<>>) = <<>>
    BY DEF Bytes, FlattenSeq
  <2>3. StreamOf(<<>>, <<>>, <<>>, <<>>) = <<>>
    <3>1. <<>> \o <<>> = <<>>
      BY <2>2, ConcatEmptySeq
    <3> QED
      BY <2>2, <3>1 DEF StreamOf
  <2>4. Begins(<<>>, <<>>)
    BY DEF Begins
  <2>5. SyncedOf(<<>>, <<>>, <<>>, <<>>, <<>>, Short(d))
    BY <2>2, <2>3, <2>4 DEF SyncedOf
  <2>6. Wholes(d)
    BY <2>1 DEF Wholes
  <2> QED
    BY <2>1, <2>5, <2>6 DEF Steady
<1> QED
  BY <1>1, <1>2 DEF TapInv

\* What is the same in a direction.
Same(d) ==
    /\ recorded'[d] = recorded[d] /\ sent'[d] = sent[d] /\ buf'[d] = buf[d]
    /\ handed'[d] = handed[d] /\ On(d)' = On(d) /\ Short(d)' = Short(d)
    /\ (d \in lost' <=> d \in lost)

LEMMA SteadySame ==
    ASSUME NEW d, Steady(d), Wholes(d), Same(d)
    PROVE  Steady(d)' /\ Wholes(d)'
BY DEF Steady, Wholes, Same

LEMMA Typed ==
    ASSUME TypeOK, NEW d \in Dirs
    PROVE  /\ recorded[d] \in Seq(Bytes) /\ sent[d] \in Seq(Frames) /\ sent[d] \in Seq(Bytes)
           /\ buf[d] \in Bytes /\ handed[d] \in Bytes /\ On(d) \in Bytes /\ <<>> \in Bytes
<1>1. sent[d] \in Seq(Bytes)
  BY FramesAreBytes DEF TypeOK
<1> QED
  BY <1>1 DEF TypeOK, On, Bytes

LEMMA WriteSteady ==
    ASSUME TapInv, NEW f \in Frames, Write(f), NEW d \in Dirs
    PROVE  Steady(d)' /\ Wholes(d)'
<1>0. TypeOK /\ Steady(d) /\ Wholes(d)
  BY DEF TapInv
<1>1. CASE d = "in"
  <2>1. Same(d)
    BY <1>0, <1>1 DEF Write, Same, On, Short, TypeOK
  <2> QED
    BY <1>0, <2>1, SteadySame
<1>2. CASE d = "out"
  <2>0. /\ recorded[d] \in Seq(Bytes) /\ sent[d] \in Seq(Frames) /\ sent[d] \in Seq(Bytes)
        /\ buf[d] \in Bytes /\ f \in Bytes
    BY <1>0, Typed, MessageBytes
  <2>1. /\ recorded'[d] = recorded[d] /\ sent'[d] = Append(sent[d], f) /\ buf'[d] = buf[d]
        /\ handed'[d] = f /\ On(d)' = <<>> /\ lost' = lost
    BY <1>0, <1>2 DEF Write, On, TypeOK
  <2>2. handed[d] = <<>> /\ On(d) = <<>> /\ ~Short(d) /\ ~Short(d)'
    BY <1>2 DEF Write, On, Short
  <2>3. Wholes(d)'
    BY <1>0, <2>1 DEF Wholes
  <2>4. CASE d \in lost
    <3>1. PICK m \in Nat : PartedAt(recorded[d], sent[d], m)
      BY <1>0, <2>4 DEF Steady, PartedOf
    <3>2. PartedAt(recorded[d], Append(sent[d], f), m)
      BY <2>0, <3>1, PartedStays
    <3> QED
      BY <2>1, <2>3, <2>4, <3>2 DEF Steady, PartedOf
  <2>5. CASE d \notin lost
    <3>1. SyncedOf(recorded[d], sent[d], buf[d], <<>>, <<>>, FALSE)
      BY <1>0, <2>2, <2>5 DEF Steady, SyncedOf
    <3>2. SyncedOf(recorded[d], Append(sent[d], f), buf[d], f, <<>>, FALSE)
      BY <2>0, <3>1, BeginsSelf, SyncedSend
    <3>3. SyncedOf(recorded'[d], sent'[d], buf'[d], handed'[d], On(d)', Short(d)')
      BY <2>1, <2>2, <3>2 DEF SyncedOf
    <3> QED
      BY <2>1, <2>3, <2>5, <3>3 DEF Steady
  <2> QED
    BY <2>4, <2>5
<1> QED
  BY <1>1, <1>2 DEF Dirs

LEMMA WriteFailsSteady ==
    ASSUME TapInv, NEW f \in Frames, WriteFails(f), NEW d \in Dirs
    PROVE  Steady(d)' /\ Wholes(d)'
<1>0. TypeOK /\ Steady(d) /\ Wholes(d)
  BY DEF TapInv
<1>1. CASE d = "in"
  <2>1. Same(d)
    BY <1>0, <1>1 DEF WriteFails, Same, On, Short, TypeOK
  <2> QED
    BY <1>0, <2>1, SteadySame
<1>2. CASE d = "out"
  <2>0. /\ recorded[d] \in Seq(Bytes) /\ sent[d] \in Seq(Frames) /\ sent[d] \in Seq(Bytes)
        /\ buf[d] \in Bytes /\ f \in Bytes
    BY <1>0, Typed, MessageBytes
  <2>a. PICK n \in 0 .. Len(f) - 1 : handed' = [handed EXCEPT !["out"] = SubSeq(f, 1, n)]
    BY DEF WriteFails
  <2> DEFINE p == SubSeq(f, 1, n)
  <2>b. p \in Bytes /\ Begins(p, f)
    <3>1. n \in 0 .. Len(f)
      BY <2>0, BytesLen
    <3> QED
      BY <2>0, <3>1, PieceTyped
  <2>1. /\ recorded'[d] = recorded[d] /\ sent'[d] = Append(sent[d], f) /\ buf'[d] = buf[d]
        /\ handed'[d] = p /\ On(d)' = <<>> /\ lost' = lost
    BY <1>0, <1>2, <2>a DEF WriteFails, On, TypeOK
  <2> HIDE DEF p
  <2>2. handed[d] = <<>> /\ On(d) = <<>> /\ ~Short(d) /\ Short(d)'
    BY <1>2 DEF WriteFails, On, Short
  <2>3. Wholes(d)'
    BY <1>0, <2>1 DEF Wholes
  <2>4. CASE d \in lost
    <3>1. PICK m \in Nat : PartedAt(recorded[d], sent[d], m)
      BY <1>0, <2>4 DEF Steady, PartedOf
    <3>2. PartedAt(recorded[d], Append(sent[d], f), m)
      BY <2>0, <3>1, PartedStays
    <3> QED
      BY <2>1, <2>3, <2>4, <3>2 DEF Steady, PartedOf
  <2>5. CASE d \notin lost
    <3>1. SyncedOf(recorded[d], sent[d], buf[d], <<>>, <<>>, FALSE)
      BY <1>0, <2>2, <2>5 DEF Steady, SyncedOf
    <3>2. SyncedOf(recorded[d], Append(sent[d], f), buf[d], p, <<>>, TRUE)
      BY <2>0, <2>b, <3>1, SyncedSend
    <3>3. SyncedOf(recorded'[d], sent'[d], buf'[d], handed'[d], On(d)', Short(d)')
      BY <2>1, <2>2, <3>2 DEF SyncedOf
    <3> QED
      BY <2>1, <2>3, <2>5, <3>3 DEF Steady
  <2> QED
    BY <2>4, <2>5
<1> QED
  BY <1>1, <1>2 DEF Dirs

LEMMA ServerSteady ==
    ASSUME TapInv, NEW f \in Frames, ServerSends(f), NEW d \in Dirs
    PROVE  Steady(d)' /\ Wholes(d)'
<1>0. TypeOK /\ Steady(d) /\ Wholes(d)
  BY DEF TapInv
<1>1. CASE d = "out"
  <2>1. Same(d)
    BY <1>0, <1>1 DEF ServerSends, Same, On, Short, TypeOK
  <2> QED
    BY <1>0, <2>1, SteadySame
<1>2. CASE d = "in"
  <2>0. /\ recorded[d] \in Seq(Bytes) /\ sent[d] \in Seq(Frames) /\ sent[d] \in Seq(Bytes)
        /\ buf[d] \in Bytes /\ f \in Bytes /\ handed[d] \in Bytes /\ wire \in Bytes
    BY <1>0, Typed, MessageBytes DEF TypeOK
  <2>1. /\ recorded'[d] = recorded[d] /\ sent'[d] = Append(sent[d], f) /\ buf'[d] = buf[d]
        /\ handed'[d] = handed[d] /\ On(d)' = wire \o f /\ lost' = lost
    BY <1>0, <1>2 DEF ServerSends, On, TypeOK
  <2>2. On(d) = wire /\ ~Short(d) /\ ~Short(d)'
    BY <1>2 DEF On, Short
  <2>3. Wholes(d)'
    BY <1>0, <2>1 DEF Wholes
  <2>4. CASE d \in lost
    <3>1. PICK m \in Nat : PartedAt(recorded[d], sent[d], m)
      BY <1>0, <2>4 DEF Steady, PartedOf
    <3>2. PartedAt(recorded[d], Append(sent[d], f), m)
      BY <2>0, <3>1, PartedStays
    <3> QED
      BY <2>1, <2>3, <2>4, <3>2 DEF Steady, PartedOf
  <2>5. CASE d \notin lost
    <3>1. SyncedOf(recorded[d], sent[d], buf[d], handed[d], wire, FALSE)
      BY <1>0, <2>2, <2>5 DEF Steady, SyncedOf
    <3>2. SyncedOf(recorded[d], Append(sent[d], f), buf[d], handed[d], wire \o f, FALSE)
      BY <2>0, <3>1, SyncedServer
    <3>3. SyncedOf(recorded'[d], sent'[d], buf'[d], handed'[d], On(d)', Short(d)')
      BY <2>1, <2>2, <3>2 DEF SyncedOf
    <3> QED
      BY <2>1, <2>3, <2>5, <3>3 DEF Steady
  <2> QED
    BY <2>4, <2>5
<1> QED
  BY <1>1, <1>2 DEF Dirs

LEMMA ReadSteady ==
    ASSUME TapInv, NEW n \in 1 .. Len(wire), Read(n), NEW d \in Dirs
    PROVE  Steady(d)' /\ Wholes(d)'
<1>0. TypeOK /\ Steady(d) /\ Wholes(d)
  BY DEF TapInv
<1>1. CASE d = "out"
  <2>1. Same(d)
    BY <1>0, <1>1 DEF Read, Same, On, Short, TypeOK
  <2> QED
    BY <1>0, <2>1, SteadySame
<1>2. CASE d = "in"
  <2> DEFINE p == SubSeq(wire, 1, n)
             q == SubSeq(wire, n + 1, Len(wire))
  <2>0. /\ recorded[d] \in Seq(Bytes) /\ sent[d] \in Seq(Bytes)
        /\ buf[d] \in Bytes /\ wire \in Bytes
    BY <1>0, Typed DEF TypeOK
  <2>b. p \in Bytes /\ q \in Bytes /\ wire = p \o q
    <3>1. n \in 0 .. Len(wire)
      BY <2>0, BytesLen
    <3> QED
      BY <2>0, <3>1, PieceTyped
  <2>1. /\ recorded'[d] = recorded[d] /\ sent'[d] = sent[d] /\ buf'[d] = buf[d]
        /\ handed'[d] = p /\ On(d)' = q /\ lost' = lost
    BY <1>0, <1>2 DEF Read, On, TypeOK
  <2> HIDE DEF p, q
  <2>2. handed[d] = <<>> /\ On(d) = wire /\ ~Short(d) /\ ~Short(d)'
    BY <1>2 DEF Read, On, Short
  <2>3. Wholes(d)'
    BY <1>0, <2>1 DEF Wholes
  <2>4. CASE d \in lost
    BY <1>0, <2>1, <2>3, <2>4 DEF Steady
  <2>5. CASE d \notin lost
    <3>1. SyncedOf(recorded[d], sent[d], buf[d], <<>>, p \o q, FALSE)
      BY <1>0, <2>2, <2>5, <2>b DEF Steady, SyncedOf
    <3>2. SyncedOf(recorded[d], sent[d], buf[d], p, q, FALSE)
      BY <2>0, <2>b, <3>1, SyncedRead
    <3>3. SyncedOf(recorded'[d], sent'[d], buf'[d], handed'[d], On(d)', Short(d)')
      BY <2>1, <2>2, <3>2 DEF SyncedOf
    <3> QED
      BY <2>1, <2>3, <2>5, <3>3 DEF Steady
  <2> QED
    BY <2>4, <2>5
<1> QED
  BY <1>1, <1>2 DEF Dirs

\* A turn of feed leaves the other direction alone.
LEMMA OtherSame ==
    ASSUME TypeOK, NEW d \in Dirs, Tap(d), NEW c \in Dirs, c # d
    PROVE  Same(c)
<1>1. wire' = wire /\ closed' = closed /\ sent' = sent
  BY DEF Tap, Feed, FeedFrame, FeedMore, FeedAlien
<1>2. On(c)' = On(c) /\ Short(c)' = Short(c)
  BY <1>1 DEF On, Short
<1>3. /\ recorded'[c] = recorded[c] /\ buf'[c] = buf[c] /\ handed'[c] = handed[c]
      /\ (c \in lost' <=> c \in lost)
  BY DEF Tap, Feed, FeedFrame, FeedMore, FeedAlien, TypeOK
<1> QED
  BY <1>1, <1>2, <1>3 DEF Same

LEMMA FeedSteady ==
    ASSUME TapInv, NEW d \in Dirs, Feed(d)
    PROVE  Steady(d)' /\ Wholes(d)'
<1>0. TypeOK /\ Steady(d) /\ Wholes(d)
  BY DEF TapInv
<1>1. /\ recorded[d] \in Seq(Bytes) /\ sent[d] \in Seq(Bytes) /\ buf[d] \in Bytes
      /\ handed[d] \in Bytes /\ On(d) \in Bytes
  BY <1>0, Typed
<1>2. /\ recorded'[d] = recorded[d] /\ sent'[d] = sent[d] /\ buf'[d] = buf[d] \o handed[d]
      /\ handed'[d] = <<>> /\ On(d)' = On(d) /\ Short(d)' = Short(d) /\ lost' = lost
  BY <1>0 DEF Feed, On, Short, TypeOK
<1>3. Wholes(d)'
  BY <1>0, <1>2 DEF Wholes
<1>4. CASE d \in lost
  BY <1>0, <1>2, <1>3, <1>4 DEF Steady
<1>5. CASE d \notin lost
  <2>1. SyncedOf(recorded[d], sent[d], buf[d] \o handed[d], <<>>, On(d), Short(d))
    BY <1>0, <1>1, <1>5, SyncedFeed DEF Steady
  <2> QED
    BY <1>2, <1>3, <1>5, <2>1 DEF Steady
<1> QED
  BY <1>4, <1>5

LEMMA FrameSteady ==
    ASSUME TapInv, NEW d \in Dirs, FeedFrame(d)
    PROVE  Steady(d)' /\ Wholes(d)'
<1> DEFINE b == buf[d]
           n == FrameLen(b).len
           c == SubSeq(b, 1, n)
           t == SubSeq(b, n + 1, Len(b))
           r == recorded[d]
<1>0. TypeOK /\ Steady(d) /\ Wholes(d)
  BY DEF TapInv
<1>1. /\ r \in Seq(Bytes) /\ sent[d] \in Seq(Frames) /\ b \in Bytes
      /\ handed[d] \in Bytes /\ On(d) \in Bytes
  BY <1>0, Typed
<1>a. FrameLen(b).is = "whole"
  BY DEF FeedFrame
<1>2. /\ recorded'[d] = Append(r, c) /\ sent'[d] = sent[d] /\ buf'[d] = t
      /\ handed'[d] = handed[d] /\ On(d)' = On(d) /\ Short(d)' = Short(d) /\ lost' = lost
  BY <1>0 DEF FeedFrame, On, Short, TypeOK
<1>3. c \in Bytes /\ FrameLen(c).is = "whole"
  BY <1>1, <1>a, FrameTyped, FrameCut DEF Bytes, Byte
<1>4. Wholes(d)'
  <2> HIDE DEF c
  <2>1. /\ Len(Append(r, c)) = Len(r) + 1 /\ Append(r, c)[Len(r) + 1] = c /\ Len(r) \in Nat
        /\ \A i \in 1 .. Len(r) : Append(r, c)[i] = r[i]
    BY <1>1, <1>3, AppendProperties, LenProperties
  <2>2. ASSUME NEW i \in 1 .. Len(Append(r, c)) PROVE FrameLen(Append(r, c)[i]).is = "whole"
    <3>1. i = Len(r) + 1 \/ i \in 1 .. Len(r)
      BY <2>1
    <3> QED
      BY <1>0, <1>3, <2>1, <3>1 DEF Wholes
  <2> QED
    BY <1>2, <2>2 DEF Wholes
<1>5. CASE d \in lost
  <2>1. PICK m \in Nat : PartedAt(r, sent[d], m)
    BY <1>0, <1>5 DEF Steady, PartedOf
  <2>2. PartedAt(Append(r, c), sent[d], m)
    <3> HIDE DEF c
    <3> QED
      BY <1>1, <1>3, <2>1, PartedStays
  <2> HIDE DEF c
  <2> QED
    BY <1>2, <1>4, <1>5, <2>2 DEF Steady, PartedOf
<1>6. CASE d \notin lost
  <2>1. SyncedOf(r, sent[d], b, handed[d], On(d), Short(d))
    BY <1>0, <1>6 DEF Steady
  <2>2. SyncedOf(Append(r, c), sent[d], t, handed[d], On(d), Short(d))
    BY <1>1, <1>a, <2>1, SyncedFrame
  <2> HIDE DEF c, t
  <2> QED
    BY <1>2, <1>4, <1>6, <2>2 DEF Steady
<1> QED
  BY <1>5, <1>6

LEMMA AlienSteady ==
    ASSUME TapInv, NEW d \in Dirs, FeedAlien(d)
    PROVE  Steady(d)' /\ Wholes(d)'
<1>0. TypeOK /\ Steady(d) /\ Wholes(d)
  BY DEF TapInv
<1>1. /\ recorded[d] \in Seq(Bytes) /\ sent[d] \in Seq(Frames) /\ buf[d] \in Bytes
      /\ handed[d] \in Bytes /\ On(d) \in Bytes
  BY <1>0, Typed
<1>2. recorded'[d] = recorded[d] /\ sent'[d] = sent[d] /\ d \in lost'
  BY <1>0 DEF FeedAlien, TypeOK
<1>3. Wholes(d)'
  BY <1>0, <1>2 DEF Wholes
<1>4. CASE d \in lost
  BY <1>0, <1>2, <1>3, <1>4 DEF Steady
<1>5. CASE d \notin lost
  <2>1. SyncedOf(recorded[d], sent[d], buf[d], handed[d], On(d), Short(d))
    BY <1>0, <1>5 DEF Steady
  <2>2. FrameLen(buf[d]).is = "alien"
    BY DEF FeedAlien
  <2>3. PartedAt(recorded[d], sent[d], Len(recorded[d]))
    BY <1>1, <2>1, <2>2, SyncedAlien
  <2>4. Len(recorded[d]) \in Nat
    BY <1>1, LenProperties
  <2> QED
    BY <1>2, <1>3, <2>3, <2>4 DEF Steady, PartedOf
<1> QED
  BY <1>4, <1>5

LEMMA TapSteady ==
    ASSUME TapInv, NEW d \in Dirs, Tap(d), NEW c \in Dirs
    PROVE  Steady(c)' /\ Wholes(c)'
<1>0. TypeOK /\ Steady(c) /\ Wholes(c)
  BY DEF TapInv
<1>1. CASE c # d
  <2>1. Same(c)
    BY <1>0, <1>1, OtherSame
  <2> QED
    BY <1>0, <2>1, SteadySame
<1>2. CASE c = d
  <2>1. CASE FeedMore(d)
    <3>1. Same(c)
      BY <2>1 DEF FeedMore, Same, On, Short
    <3> QED
      BY <1>0, <3>1, SteadySame
  <2> QED
    BY <1>2, <2>1, FeedSteady, FrameSteady, AlienSteady DEF Tap
<1> QED
  BY <1>1, <1>2

LEMMA InvariantKept == TapInv /\ [Next]_vars => TapInv'
<1> SUFFICES ASSUME TapInv, [Next]_vars PROVE TapInv'
  OBVIOUS
<1>0. TypeOK /\ TypeOK'
  BY TypesPreserved DEF TapInv
<1>1. ASSUME NEW d \in Dirs PROVE Steady(d)' /\ Wholes(d)'
  <2>0. Steady(d) /\ Wholes(d)
    BY DEF TapInv
  <2>1. CASE Clear \/ UNCHANGED vars
    <3>1. Same(d)
      BY <2>1 DEF Clear, vars, Same, On, Short
    <3> QED
      BY <2>0, <3>1, SteadySame
  <2>2. CASE Reader
    BY <2>2, ReadSteady DEF Reader
  <2>3. ASSUME NEW f \in Frames, Write(f) \/ WriteFails(f) \/ ServerSends(f)
        PROVE  Steady(d)' /\ Wholes(d)'
    BY <2>3, WriteSteady, WriteFailsSteady, ServerSteady
  <2>4. CASE \E c \in Dirs : Tap(c)
    BY <2>4, TapSteady
  <2> QED
    BY <2>1, <2>2, <2>3, <2>4 DEF Next
<1> QED
  BY <1>0, <1>1 DEF TapInv

LEMMA TapInvAlways == Spec => []TapInv
BY InitSteady, InvariantKept, PTL DEF Spec

\* NoByteLost: every byte that was sent is in a recorded message, in the buffer,
\* in the tap's hands or on the wire, until bytes of its direction were thrown away.
LEMMA NothingLost == TapInv => NoByteLost
<1> SUFFICES ASSUME TapInv, NEW d \in Dirs, d \notin lost
             PROVE  IsPrefix(StreamOf(recorded[d], buf[d], handed[d], On(d)), FlattenSeq(sent[d]))
  BY DEF NoByteLost, StreamOf, On
<1>0. TypeOK
  BY DEF TapInv
<1>1. /\ recorded[d] \in Seq(Bytes) /\ sent[d] \in Seq(Bytes) /\ buf[d] \in Bytes
      /\ handed[d] \in Bytes /\ On(d) \in Bytes
  BY <1>0, Typed
<1> DEFINE x == StreamOf(recorded[d], buf[d], handed[d], On(d))
           F == FlattenSeq(sent[d])
<1>2. x \in Bytes /\ F \in Bytes
  BY <1>1, StreamTyped
<1>3. Begins(x, F)
  BY DEF TapInv, Steady, SyncedOf
<1> HIDE DEF x, F
<1>4. IsPrefix(x, F)
  BY <1>2, <1>3, BeginsPrefix DEF Bytes
<1> QED
  BY <1>4 DEF x, F

-----------------------------------------------------------------------------
(* The log.                                                                *)

Later(l, i) == {j \in DOMAIN l : j > i /\ l[j].dir = l[i].dir}

\* Entry i of the log l shows what rec has of its direction.
Shows(l, rec, i) ==
    l[i].dir \in Dirs =>
        /\ Cardinality(Later(l, i)) < Len(rec[l[i].dir])
        /\ l[i].raw = rec[l[i].dir][Len(rec[l[i].dir]) - Cardinality(Later(l, i))]

Recent(l, n, rec) ==
    \A i \in DOMAIN l : l[i].seq = n - Len(l) + i /\ Shows(l, rec, i)

LEMMA LaterFinite ==
    ASSUME NEW S, NEW l \in Seq(S), NEW i
    PROVE  IsFiniteSet(Later(l, i)) /\ Cardinality(Later(l, i)) \in Nat
<1>1. DOMAIN l = 1 .. Len(l) /\ Len(l) \in Nat
  BY LenProperties
<1>2. IsFiniteSet(1 .. Len(l))
  BY <1>1, FS_Interval
<1>3. Later(l, i) \in SUBSET (1 .. Len(l))
  BY <1>1 DEF Later
<1>4. IsFiniteSet(Later(l, i))
  BY <1>2, <1>3, FS_Subset
<1> QED
  BY <1>4, FS_CardinalityType

\* The log grows by e, and what is recorded of e's direction by its bytes.
LEMMA RecentGrows ==
    ASSUME NEW l \in Seq(Messages), NEW n \in Nat, NEW rec \in [Dirs -> Seq(Bytes)],
           NEW e \in Messages, NEW rec2 \in [Dirs -> Seq(Bytes)], e.seq = n + 1,
           Recent(l, n, rec),
           \A d \in Dirs : rec2[d] = IF d = e.dir THEN Append(rec[d], e.raw) ELSE rec[d]
    PROVE  Recent(Append(l, e), n + 1, rec2)
<1> DEFINE m == Append(l, e)
           N == Len(l)
<1>0. /\ N \in Nat /\ Len(m) = N + 1 /\ DOMAIN l = 1 .. N /\ DOMAIN m = 1 .. N + 1
      /\ m[N + 1] = e /\ \A i \in 1 .. N : m[i] = l[i]
  BY AppendProperties, LenProperties
<1> HIDE DEF m, N
<1>1. ASSUME NEW i \in 1 .. N PROVE m[i].seq = (n + 1) - Len(m) + i
  <2>1. l[i].seq = n - N + i
    BY <1>0 DEF Recent, N
  <2>2. n - N + i = (n + 1) - (N + 1) + i
    BY <1>0
  <2> QED
    BY <1>0, <2>1, <2>2
<1>2. m[N + 1].seq = (n + 1) - Len(m) + (N + 1)
  BY <1>0
<1>3. ASSUME NEW i \in 1 .. N, l[i].dir \in Dirs PROVE Shows(m, rec2, i)
  <2> DEFINE d == l[i].dir
             k == Cardinality(Later(l, i))
             all == rec[d]
  <2>1. k \in Nat /\ IsFiniteSet(Later(l, i))
    BY LaterFinite
  <2>2. Shows(l, rec, i)
    BY <1>0 DEF Recent
  <2>3. k < Len(all) /\ l[i].raw = all[Len(all) - k]
    BY <1>3, <2>2 DEF Shows
  <2>4. all \in Seq(Bytes) /\ Len(all) \in Nat
    BY <1>3, LenProperties
  <2>5. m[i] = l[i] /\ i < N + 1
    BY <1>0
  <2>6. CASE e.dir = d
    <3>1. Later(m, i) = Later(l, i) \cup {N + 1}
      BY <1>0, <2>5, <2>6 DEF Later
    <3>2. N + 1 \notin Later(l, i)
      BY <1>0 DEF Later
    <3>3. Cardinality(Later(m, i)) = k + 1
      BY <2>1, <3>1, <3>2, FS_AddElement
    <3>4. e.raw \in Bytes
      BY <1>3, <2>6 DEF Messages, Dirs, Bytes
    <3> DEFINE all2 == rec2[d]
    <3>5. all2 = Append(all, e.raw)
      BY <1>3, <2>6
    <3> HIDE DEF k, all, all2
    <3>6. Len(all2) = Len(all) + 1 /\ \A j \in 1 .. Len(all) : all2[j] = all[j]
      BY <2>4, <3>4, <3>5, AppendProperties
    <3>7. Len(all) - k \in 1 .. Len(all) /\ Len(all2) - (k + 1) = Len(all) - k /\ k + 1 < Len(all2)
      BY <2>1, <2>3, <2>4, <3>6
    <3>8. all2[Len(all2) - (k + 1)] = all[Len(all) - k]
      BY <3>6, <3>7
    <3> QED
      BY <2>3, <2>5, <3>3, <3>7, <3>8 DEF Shows, all2
  <2>7. CASE e.dir # d
    <3>1. Later(m, i) = Later(l, i)
      BY <1>0, <2>5, <2>7 DEF Later
    <3>2. rec2[d] = all
      BY <1>3, <2>7
    <3> QED
      BY <2>3, <2>5, <3>1, <3>2 DEF Shows
  <2> QED
    BY <2>6, <2>7
<1>4. ASSUME NEW i \in 1 .. N PROVE Shows(m, rec2, i)
  <2>1. CASE l[i].dir \in Dirs
    BY <1>3, <2>1
  <2>2. CASE l[i].dir \notin Dirs
    BY <1>0, <2>2 DEF Shows
  <2> QED
    BY <2>1, <2>2
<1>5. Shows(m, rec2, N + 1)
  <2> SUFFICES ASSUME e.dir \in Dirs
               PROVE  /\ Cardinality(Later(m, N + 1)) < Len(rec2[e.dir])
                      /\ e.raw = rec2[e.dir][Len(rec2[e.dir]) - Cardinality(Later(m, N + 1))]
    BY <1>0 DEF Shows
  <2> DEFINE all == rec[e.dir]
             all2 == rec2[e.dir]
  <2>1. Later(m, N + 1) = {}
    BY <1>0 DEF Later
  <2>2. Cardinality(Later(m, N + 1)) = 0
    BY <2>1, FS_EmptySet
  <2>3. all \in Seq(Bytes) /\ Len(all) \in Nat /\ all2 = Append(all, e.raw)
    BY LenProperties
  <2>4. e.raw \in Bytes
    BY DEF Messages, Dirs, Bytes
  <2> HIDE DEF all, all2
  <2>5. Len(all2) = Len(all) + 1 /\ all2[Len(all) + 1] = e.raw
    BY <2>3, <2>4, AppendProperties
  <2>6. 0 < Len(all2) /\ Len(all2) - 0 = Len(all) + 1
    BY <2>3, <2>5
  <2> QED
    BY <2>2, <2>5, <2>6 DEF all2
<1>6. ASSUME NEW i \in DOMAIN m PROVE m[i].seq = (n + 1) - Len(m) + i /\ Shows(m, rec2, i)
  <2>1. i \in 1 .. N \/ i = N + 1
    BY <1>0
  <2> QED
    BY <1>1, <1>2, <1>4, <1>5, <2>1
<1> QED
  BY <1>6 DEF Recent, m

\* The log loses its first entry.
LEMMA RecentDrops ==
    ASSUME NEW l \in Seq(Messages), NEW n \in Nat, NEW rec \in [Dirs -> Seq(Bytes)],
           Recent(l, n, rec), Len(l) >= 1
    PROVE  Recent(SubSeq(l, 2, Len(l)), n, rec)
<1> DEFINE t == SubSeq(l, 2, Len(l))
           N == Len(l)
<1>0. N \in Nat /\ N >= 1 /\ DOMAIN l = 1 .. N
  BY LenProperties
<1>1. t \in Seq(Messages) /\ Len(t) = N - 1 /\ \A i \in 1 .. N - 1 : t[i] = l[i + 1]
  <2>1. \A i \in 2 .. N : l[i] \in Messages
    BY <1>0
  <2>2. /\ t \in Seq(Messages) /\ Len(t) = IF 2 <= N THEN N - 2 + 1 ELSE 0
        /\ \A i \in 1 .. N - 2 + 1 : t[i] = l[2 + i - 1]
    BY <1>0, <2>1, SubSeqProperties
  <2>3. N - 2 + 1 = N - 1 /\ (~(2 <= N) => N - 1 = 0) /\ \A i \in 1 .. N - 1 : 2 + i - 1 = i + 1
    BY <1>0
  <2> QED
    BY <2>2, <2>3
<1>2. DOMAIN t = 1 .. N - 1
  BY <1>1, LenProperties
<1> HIDE DEF t, N
<1>3. ASSUME NEW i \in 1 .. N - 1 PROVE Cardinality(Later(t, i)) = Cardinality(Later(l, i + 1))
  <2> DEFINE f == [j \in Later(l, i + 1) |-> j - 1]
  <2>0. t[i] = l[i + 1]
    BY <1>1
  <2>1. ASSUME NEW j \in Later(l, i + 1) PROVE j - 1 \in Later(t, i)
    <3>1. j \in 1 .. N /\ j > i + 1 /\ l[j].dir = l[i + 1].dir
      BY <1>0 DEF Later
    <3>2. j - 1 \in 1 .. N - 1 /\ j - 1 > i /\ (j - 1) + 1 = j
      BY <1>0, <3>1
    <3>3. t[j - 1] = l[j]
      BY <1>1, <3>2
    <3> QED
      BY <1>2, <2>0, <3>1, <3>2, <3>3 DEF Later
  <2>2. ASSUME NEW j \in Later(t, i) PROVE j + 1 \in Later(l, i + 1) /\ (j + 1) - 1 = j
    <3>1. j \in 1 .. N - 1 /\ j > i /\ t[j].dir = t[i].dir
      BY <1>2 DEF Later
    <3>2. j + 1 \in 1 .. N /\ j + 1 > i + 1 /\ (j + 1) - 1 = j
      BY <1>0, <3>1
    <3>3. t[j] = l[j + 1]
      BY <1>1, <3>1
    <3> QED
      BY <1>0, <2>0, <3>1, <3>2, <3>3 DEF Later
  <2>3. f \in [Later(l, i + 1) -> Later(t, i)]
    BY <2>1
  <2>4. IsInjective(f)
    <3>1. \A a \in Later(l, i + 1) : a \in Int
      BY <1>0 DEF Later
    <3>2. ASSUME NEW a \in Later(l, i + 1), NEW c \in Later(l, i + 1), f[a] = f[c] PROVE a = c
      <4>1. a - 1 = c - 1
        BY <3>2
      <4> QED
        BY <3>1, <4>1
    <3> QED
      BY <2>3, <3>2 DEF IsInjective
  <2>5. ASSUME NEW j \in Later(t, i) PROVE \E a \in Later(l, i + 1) : f[a] = j
    BY <2>2
  <2> HIDE DEF f
  <2>6. f \in Bijection(Later(l, i + 1), Later(t, i))
    BY <2>3, <2>4, <2>5 DEF Bijection, Injection, Surjection
  <2>7. ExistsBijection(Later(l, i + 1), Later(t, i))
    BY <2>6 DEF ExistsBijection
  <2> QED
    BY <2>7, LaterFinite, FS_Bijection
<1>4. ASSUME NEW i \in DOMAIN t PROVE t[i].seq = n - Len(t) + i /\ Shows(t, rec, i)
  <2>1. i \in 1 .. N - 1 /\ i + 1 \in 1 .. N /\ t[i] = l[i + 1]
    BY <1>0, <1>1, <1>2
  <2>2. l[i + 1].seq = n - N + (i + 1) /\ Shows(l, rec, i + 1)
    BY <1>0, <2>1 DEF Recent, N
  <2>3. n - N + (i + 1) = n - (N - 1) + i
    BY <1>0, <2>1
  <2>4. Cardinality(Later(t, i)) = Cardinality(Later(l, i + 1))
    BY <1>3, <2>1
  <2>5. Shows(t, rec, i)
    BY <2>1, <2>2, <2>4 DEF Shows
  <2> QED
    BY <1>1, <2>1, <2>2, <2>3, <2>5
<1> QED
  BY <1>4 DEF Recent, t

LogOf(l, n, rec) == (LogMax > 0 => Len(l) <= LogMax) /\ Recent(l, n, rec)

LEMMA LogKept ==
    ASSUME NEW l \in Seq(Messages), NEW n \in Nat, NEW rec \in [Dirs -> Seq(Bytes)],
           NEW e \in Messages, NEW rec2 \in [Dirs -> Seq(Bytes)], e.seq = n + 1,
           LogOf(l, n, rec),
           \A d \in Dirs : rec2[d] = IF d = e.dir THEN Append(rec[d], e.raw) ELSE rec[d]
    PROVE  LogOf(Newest(Append(l, e)), n + 1, rec2)
<1> DEFINE all == Append(l, e)
<1>1. Recent(all, n + 1, rec2)
  BY RecentGrows DEF LogOf
<1>2. all \in Seq(Messages) /\ Len(all) = Len(l) + 1 /\ Len(l) \in Nat /\ n + 1 \in Nat
  BY AppendProperties, LenProperties
<1>3. LogMax \in Nat
  BY LimitsAssumption
<1> HIDE DEF all
<1>4. CASE LogMax > 0 /\ Len(all) > LogMax
  <2>1. Len(all) = LogMax + 1 /\ Len(all) - LogMax + 1 = 2 /\ Len(all) >= 2
    BY <1>2, <1>3, <1>4 DEF LogOf
  <2>2. Newest(all) = SubSeq(all, 2, Len(all))
    BY <1>4, <2>1 DEF Newest
  <2>3. Recent(SubSeq(all, 2, Len(all)), n + 1, rec2)
    <3>1. Len(all) >= 1
      BY <2>1, <1>2
    <3> QED
      BY <1>1, <1>2, <3>1, RecentDrops
  <2>4. Len(SubSeq(all, 2, Len(all))) = LogMax
    <3>1. \A i \in 2 .. Len(all) : all[i] \in Messages
      BY <1>2
    <3>2. Len(SubSeq(all, 2, Len(all))) = IF 2 <= Len(all) THEN Len(all) - 2 + 1 ELSE 0
      BY <1>2, <3>1, SubSeqProperties
    <3>3. 2 <= Len(all) /\ Len(all) - 2 + 1 = LogMax
      BY <1>3, <2>1
    <3> QED
      BY <3>2, <3>3
  <2> QED
    BY <1>3, <2>2, <2>3, <2>4 DEF LogOf, all
<1>5. CASE ~(LogMax > 0 /\ Len(all) > LogMax)
  <2>1. Newest(all) = all
    BY <1>5 DEF Newest
  <2>2. LogMax > 0 => Len(all) <= LogMax
    BY <1>2, <1>3, <1>5
  <2> QED
    BY <1>1, <2>1, <2>2 DEF LogOf, all
<1> QED
  BY <1>4, <1>5

LogInv == LogOf(log, seq, recorded)

LEMMA LogInvMeans == LogInv <=> LogIsRecent
BY DEF LogInv, LogIsRecent, LogOf, Recent, Shows, Later, After

LEMMA InitLog == Init => LogInv
<1> SUFFICES ASSUME Init PROVE LogInv
  OBVIOUS
<1>1. Len(log) = 1 /\ DOMAIN log = 1 .. 1 /\ log[1].seq = 1 /\ log[1].dir = "note" /\ seq = 1
  BY DEF Init
<1>2. "note" \notin Dirs
  BY DEF Dirs
<1>3. ASSUME NEW i \in DOMAIN log PROVE log[i].seq = seq - Len(log) + i /\ Shows(log, recorded, i)
  <2>1. i = 1
    BY <1>1
  <2> QED
    BY <1>1, <1>2, <2>1 DEF Shows
<1>4. LogMax > 0 => Len(log) <= LogMax
  BY <1>1, LimitsAssumption
<1> QED
  BY <1>3, <1>4 DEF LogInv, LogOf, Recent

LEMMA LogInvKept == TypeOK /\ LogInv /\ [Next]_vars => LogInv'
<1> SUFFICES ASSUME TypeOK, LogInv, [Next]_vars PROVE LogInv'
  OBVIOUS
<1>0. /\ log \in Seq(Messages) /\ seq \in Nat /\ seq + 1 \in Nat
      /\ recorded \in [Dirs -> Seq(Bytes)] /\ recorded' \in [Dirs -> Seq(Bytes)]
  BY TypesPreserved DEF TypeOK, Messages
<1>1. CASE log' = log /\ seq' = seq /\ recorded' = recorded
  BY <1>1 DEF LogInv
<1>2. CASE Clear
  <2>1. log' = <<>> /\ Len(<<>>) = 0 /\ DOMAIN <<>> = {}
    BY <1>2 DEF Clear
  <2>2. LogMax > 0 => Len(log') <= LogMax
    BY <2>1, LimitsAssumption
  <2>3. Recent(log', seq', recorded')
    BY <2>1 DEF Recent
  <2> QED
    BY <2>2, <2>3 DEF LogInv, LogOf
<1>3. ASSUME NEW d \in Dirs, FeedFrame(d) PROVE LogInv'
  <2> DEFINE f == SubSeq(buf[d], 1, FrameLen(buf[d]).len)
             e == [seq |-> seq + 1, dir |-> d, raw |-> f]
  <2>1. f \in Bytes \ {<<>>}
    BY <1>3, FrameTyped DEF FeedFrame, TypeOK
  <2>2. log' = Newest(Append(log, e)) /\ seq' = seq + 1
        /\ recorded' = [recorded EXCEPT ![d] = Append(recorded[d], f)]
    BY <1>3 DEF FeedFrame, Add, Newest
  <2> HIDE DEF f
  <2>3. e \in Messages
    BY <1>0, <2>1, MessageTyped
  <2>4. e.seq = seq + 1 /\ e.dir = d /\ e.raw = f
    OBVIOUS
  <2> HIDE DEF e
  <2>5. \A c \in Dirs : recorded'[c] = IF c = e.dir THEN Append(recorded[c], e.raw) ELSE recorded[c]
    BY <1>0, <2>2, <2>4
  <2>6. LogOf(Newest(Append(log, e)), seq + 1, recorded')
    BY <1>0, <2>3, <2>4, <2>5, LogKept DEF LogInv
  <2> QED
    BY <2>2, <2>6 DEF LogInv
<1>4. ASSUME NEW d \in Dirs, FeedAlien(d) PROVE LogInv'
  <2> DEFINE e == [seq |-> seq + 1, dir |-> "note", raw |-> <<>>]
  <2>2. log' = Newest(Append(log, e)) /\ seq' = seq + 1 /\ recorded' = recorded
    BY <1>4 DEF FeedAlien, Add, Newest
  <2>3. e \in Messages
    BY <1>0 DEF Messages
  <2>4. e.seq = seq + 1 /\ e.dir = "note"
    OBVIOUS
  <2> HIDE DEF e
  <2>5. \A c \in Dirs : recorded'[c] = IF c = e.dir THEN Append(recorded[c], e.raw) ELSE recorded[c]
    BY <2>2, <2>4 DEF Dirs
  <2>6. LogOf(Newest(Append(log, e)), seq + 1, recorded')
    BY <1>0, <2>3, <2>4, <2>5, LogKept DEF LogInv
  <2> QED
    BY <2>2, <2>6 DEF LogInv
<1>5. ASSUME NEW d \in Dirs, Tap(d) PROVE LogInv'
  <2>1. CASE Feed(d) \/ FeedMore(d)
    BY <1>1, <2>1 DEF Feed, FeedMore
  <2> QED
    BY <1>3, <1>4, <1>5, <2>1 DEF Tap
<1>6. CASE Reader
  BY <1>1, <1>6 DEF Reader, Read
<1>7. CASE \E f \in Frames : Write(f) \/ WriteFails(f) \/ ServerSends(f)
  BY <1>1, <1>7 DEF Write, WriteFails, ServerSends
<1>8. CASE UNCHANGED vars
  BY <1>1, <1>8 DEF vars
<1> QED
  BY <1>2, <1>5, <1>6, <1>7, <1>8 DEF Next

\* LogFaithful is an invariant: however the bytes are cut, none is lost or taken
\* twice between the socket and the log, and the log shows the end of what was
\* recorded, with numbers that have no gap, after any number of drops and clears
\* (internal/proto/proto.go:50-81 and 110-170).
THEOREM LogStaysFaithful == Spec => []LogFaithful
<1>1. Init => LogInv
  BY InitLog
<1>2. TypeOK /\ LogInv /\ [Next]_vars => LogInv'
  BY LogInvKept
<1>3. Spec => []LogInv
  BY <1>1, <1>2, TapTypes, PTL DEF Spec
<1>4. TapInv /\ LogInv => LogFaithful
  BY NothingLost, LogInvMeans DEF LogFaithful
<1> QED
  BY <1>3, <1>4, TapInvAlways, PTL

-----------------------------------------------------------------------------
(* ProtocolTap implements Capture.                                         *)

Common(r, s, m) ==
    /\ m \in Nat /\ m <= Len(r) /\ m <= Len(s)
    /\ \A i \in 1 .. m : r[i] = s[i]
    /\ m < Len(r) /\ m < Len(s) => r[m + 1] # s[m + 1]
    /\ m = Len(r) \/ m = Len(s) \/ (m < Len(r) /\ m < Len(s))

\* The longest common beginning of two lists is the beginning up to where they part.
LEMMA LongestCommon ==
    ASSUME NEW r \in Seq(Bytes), NEW s \in Seq(Bytes), NEW m, Common(r, s, m)
    PROVE  LongestCommonPrefix({r, s}) = SubSeq(s, 1, m)
<1> DEFINE C == CommonPrefixes({r, s})
           p == SubSeq(s, 1, m)
<1>0. Len(r) \in Nat /\ Len(s) \in Nat /\ m \in Nat /\ m \in 0 .. Len(r) /\ m \in 0 .. Len(s)
  BY LenProperties DEF Common
<1>1. p \in Seq(Bytes) /\ Len(p) = m /\ \A i \in 1 .. m : p[i] = s[i] /\ p[i] = r[i]
  <2>1. p \in Seq(Bytes) /\ Len(p) = m /\ \A i \in 1 .. m : p[i] = s[i]
    BY <1>0, PrefixFacts
  <2> HIDE DEF p
  <2> QED
    BY <2>1 DEF Common
<1>2. p \in Prefixes(s)
  BY <1>0 DEF Prefixes
<1>3. \A q : q \in C <=> (q \in Prefixes(r) \/ q \in Prefixes(s)) /\ IsPrefix(q, r) /\ IsPrefix(q, s)
  BY DEF CommonPrefixes
<1> HIDE DEF p
<1>4. IsPrefix(p, r) /\ IsPrefix(p, s)
  <2>1. Begins(p, r) /\ Begins(p, s)
    BY <1>0, <1>1 DEF Begins
  <2> QED
    BY <1>1, <2>1, BeginsPrefix
<1>5. p \in C
  BY <1>2, <1>3, <1>4
<1>6. ASSUME NEW q \in C PROVE q \in Seq(Bytes) /\ Begins(q, r) /\ Begins(q, s) /\ Len(q) \in Nat
  <2> HIDE DEF C
  <2>1. q \in Prefixes(r) \/ q \in Prefixes(s)
    BY <1>3
  <2>2. q \in Seq(Bytes)
    <3>1. \A l \in 0 .. Len(r) : SubSeq(r, 1, l) \in Seq(Bytes)
      BY PrefixFacts
    <3>2. \A l \in 0 .. Len(s) : SubSeq(s, 1, l) \in Seq(Bytes)
      BY PrefixFacts
    <3> QED
      BY <2>1, <3>1, <3>2 DEF Prefixes
  <2>3. IsPrefix(q, r) /\ IsPrefix(q, s)
    BY <1>3
  <2> QED
    BY <2>2, <2>3, BeginsPrefix, LenProperties
<1>7. ASSUME NEW q \in C PROVE Len(q) <= Len(p)
  <2> SUFFICES ASSUME Len(q) > m PROVE FALSE
    BY <1>0, <1>1, <1>6
  <2> HIDE DEF C
  <2>1. Len(q) <= Len(r) /\ Len(q) <= Len(s) /\ m + 1 \in 1 .. Len(q)
    BY <1>0, <1>6 DEF Begins
  <2>2. q[m + 1] = r[m + 1] /\ q[m + 1] = s[m + 1]
    BY <1>6, <2>1 DEF Begins
  <2>3. m < Len(r) /\ m < Len(s)
    BY <1>0, <1>6, <2>1
  <2> QED
    BY <2>2, <2>3 DEF Common
<1> DEFINE Longest(x) == x \in C /\ \A other \in C : Len(other) <= Len(x)
           lcp == CHOOSE x \in C : \A other \in C : Len(other) <= Len(x)
<1>8. lcp \in C /\ \A other \in C : Len(other) <= Len(lcp)
  <2> HIDE DEF C
  <2> QED
    BY <1>5, <1>7
<1>9. LongestCommonPrefix({r, s}) = lcp
  BY DEF LongestCommonPrefix
<1> HIDE DEF lcp, C
<1>10. Len(lcp) = m /\ lcp \in Seq(Bytes) /\ \A i \in 1 .. m : lcp[i] = s[i]
  <2>1. lcp \in Seq(Bytes) /\ Begins(lcp, s) /\ Len(lcp) \in Nat
    BY <1>6, <1>8
  <2>2. Len(lcp) <= m /\ m <= Len(lcp)
    BY <1>1, <1>5, <1>7, <1>8
  <2>3. Len(lcp) = m
    BY <1>0, <2>1, <2>2
  <2> QED
    BY <2>1, <2>3 DEF Begins
<1>11. lcp = p
  BY <1>1, <1>10, SeqEqual
<1> QED
  BY <1>9, <1>11 DEF p

\* What is recorded in step of a direction that is out of step stays as it was
\* when its bytes were thrown away.
LEMMA HeldAt ==
    ASSUME NEW r \in Seq(Bytes), NEW s \in Seq(Bytes), NEW m, PartedAt(r, s, m),
           \A i \in 1 .. Len(r) : FrameLen(r[i]).is = "whole"
    PROVE  LongestCommonPrefix({r, s}) = SubSeq(s, 1, m)
<1>0. Len(r) \in Nat /\ Len(s) \in Nat /\ m \in Nat /\ m <= Len(r) /\ m < Len(s)
  BY LenProperties DEF PartedAt
<1>1. ASSUME m < Len(r) PROVE r[m + 1] # s[m + 1]
  <2>1. m + 1 \in 1 .. Len(r)
    BY <1>0, <1>1
  <2>2. FrameLen(r[m + 1]).is = "whole"
    BY <2>1
  <2>3. FrameLen(s[m + 1]).is = "alien"
    BY DEF PartedAt
  <2> QED
    BY <2>2, <2>3
<1>2. \A i \in 1 .. m : r[i] = s[i]
  BY DEF PartedAt
<1>3. m <= Len(s) /\ (m = Len(r) \/ (m < Len(r) /\ m < Len(s)))
  BY <1>0
<1>4. Common(r, s, m)
  BY <1>0, <1>1, <1>2, <1>3 DEF Common
<1> QED
  BY <1>4, LongestCommon

LEMMA PrefixOfGrown ==
    ASSUME NEW S, NEW s \in Seq(S), NEW f \in S, NEW m \in Nat, m <= Len(s)
    PROVE  SubSeq(Append(s, f), 1, m) = SubSeq(s, 1, m)
<1> DEFINE t == Append(s, f)
<1>0. t \in Seq(S) /\ Len(t) = Len(s) + 1 /\ Len(s) \in Nat /\ \A i \in 1 .. Len(s) : t[i] = s[i]
  BY AppendProperties, LenProperties
<1>1. m \in 0 .. Len(s) /\ m \in 0 .. Len(t)
  BY <1>0
<1>2. SubSeq(s, 1, m) \in Seq(S) /\ Len(SubSeq(s, 1, m)) = m
      /\ \A j \in 1 .. m : SubSeq(s, 1, m)[j] = s[j]
  BY <1>1, PrefixFacts
<1> HIDE DEF t
<1>3. SubSeq(t, 1, m) \in Seq(S) /\ Len(SubSeq(t, 1, m)) = m
      /\ \A j \in 1 .. m : SubSeq(t, 1, m)[j] = t[j]
  BY <1>0, <1>1, PrefixFacts
<1>4. \A j \in 1 .. m : j \in 1 .. Len(s)
  BY <1>0
<1>5. SubSeq(t, 1, m) = SubSeq(s, 1, m)
  BY <1>0, <1>2, <1>3, <1>4, SeqEqual
<1> QED
  BY <1>5 DEF t

LEMMA PrefixWhole ==
    ASSUME NEW r \in Seq(Bytes), NEW s \in Seq(Bytes), Begins(r, s)
    PROVE  SubSeq(s, 1, Len(r)) = r
<1>1. Len(r) \in 0 .. Len(s)
  BY LenProperties DEF Begins
<1>2. SubSeq(s, 1, Len(r)) \in Seq(Bytes) /\ Len(SubSeq(s, 1, Len(r))) = Len(r)
      /\ \A j \in 1 .. Len(r) : SubSeq(s, 1, Len(r))[j] = s[j]
  BY <1>1, PrefixFacts
<1>3. \A j \in 1 .. Len(r) : r[j] = s[j]
  BY DEF Begins
<1> QED
  BY <1>2, <1>3, SeqEqual

\* How a step can change a direction.
Longer(s, t, S) == t = s \/ \E x \in S : t = Append(s, x)

LEMMA Moves ==
    ASSUME TypeOK, [Next]_vars, NEW d \in Dirs
    PROVE  /\ Longer(recorded[d], recorded'[d], Bytes) /\ Longer(sent[d], sent'[d], Frames)
           /\ d \in lost => d \in lost'
           /\ d \in lost' /\ d \notin lost => FeedAlien(d)
<1> DEFINE Goal == /\ Longer(recorded[d], recorded'[d], Bytes)
                   /\ Longer(sent[d], sent'[d], Frames)
                   /\ d \in lost => d \in lost'
                   /\ d \in lost' /\ d \notin lost => FeedAlien(d)
<1>1. CASE Clear \/ Reader \/ UNCHANGED vars
  BY <1>1 DEF Clear, Reader, Read, vars, Longer
<1>2. ASSUME NEW f \in Frames, Write(f) \/ WriteFails(f) \/ ServerSends(f) PROVE Goal
  <2>1. recorded' = recorded /\ lost' = lost
    BY <1>2 DEF Write, WriteFails, ServerSends
  <2>2. Longer(sent[d], sent'[d], Frames)
    BY <1>2 DEF Write, WriteFails, ServerSends, Longer, TypeOK
  <2> QED
    BY <2>1, <2>2 DEF Longer
<1>3. ASSUME NEW c \in Dirs, Feed(c) \/ FeedMore(c) PROVE Goal
  BY <1>3 DEF Feed, FeedMore, Longer
<1>4. ASSUME NEW c \in Dirs, FeedAlien(c) PROVE Goal
  BY <1>4 DEF FeedAlien, Longer
<1>5. ASSUME NEW c \in Dirs, FeedFrame(c) PROVE Goal
  <2> DEFINE x == SubSeq(buf[c], 1, FrameLen(buf[c]).len)
  <2>1. x \in Bytes
    BY <1>5, FrameTyped DEF FeedFrame, TypeOK
  <2>2. recorded' = [recorded EXCEPT ![c] = Append(recorded[c], x)] /\ sent' = sent /\ lost' = lost
    BY <1>5 DEF FeedFrame
  <2> HIDE DEF x
  <2>3. Longer(recorded[d], recorded'[d], Bytes)
    BY <2>1, <2>2 DEF Longer, TypeOK
  <2> QED
    BY <2>2, <2>3 DEF Longer
<1> HIDE DEF Goal
<1>6. Goal
  BY <1>1, <1>2, <1>3, <1>4, <1>5 DEF Next, Tap, Goal
<1> QED
  BY <1>6 DEF Goal

\* What is in step changes only by a frame of a direction that is in step.
LEMMA InStepKept ==
    ASSUME TapInv, TapInv', [Next]_vars, NEW d \in Dirs,
           d \in lost \/ recorded'[d] = recorded[d]
    PROVE  InStep'[d] = InStep[d]
<1> DEFINE r == recorded[d]
           s == sent[d]
           r2 == recorded'[d]
           s2 == sent'[d]
<1>0. TypeOK /\ TypeOK' /\ Steady(d) /\ Wholes(d) /\ Wholes(d)'
  BY DEF TapInv
<1>1. /\ r \in Seq(Bytes) /\ s \in Seq(Frames) /\ s \in Seq(Bytes)
      /\ r2 \in Seq(Bytes) /\ s2 \in Seq(Frames) /\ s2 \in Seq(Bytes)
  BY <1>0, FramesAreBytes DEF TypeOK
<1>2. /\ Longer(r, r2, Bytes) /\ Longer(s, s2, Frames)
      /\ d \in lost => d \in lost'
      /\ d \in lost' /\ d \notin lost => FeedAlien(d)
  BY <1>0, Moves
<1>3. /\ \A i \in 1 .. Len(r) : FrameLen(r[i]).is = "whole"
      /\ \A i \in 1 .. Len(r2) : FrameLen(r2[i]).is = "whole"
  BY <1>0 DEF Wholes
<1>a. InStep[d] = IF d \in lost THEN LongestCommonPrefix({r, s}) ELSE r
  BY DEF InStep
<1>b. InStep'[d] = IF d \in lost' THEN LongestCommonPrefix({r2, s2}) ELSE r2
  BY DEF InStep
<1> HIDE DEF r, s, r2, s2
<1>4. CASE d \in lost
  <2>1. PICK m \in Nat : PartedAt(r, s, m)
    BY <1>0, <1>4 DEF Steady, PartedOf, r, s
  <2>2. PartedAt(r2, s, m)
    BY <1>1, <1>2, <2>1, PartedStays DEF Longer
  <2>3. PartedAt(r2, s2, m)
    BY <1>1, <1>2, <2>2, PartedStays DEF Longer
  <2>4. LongestCommonPrefix({r, s}) = SubSeq(s, 1, m)
    BY <1>1, <1>3, <2>1, HeldAt
  <2>5. LongestCommonPrefix({r2, s2}) = SubSeq(s2, 1, m)
    BY <1>1, <1>3, <2>3, HeldAt
  <2>6. SubSeq(s2, 1, m) = SubSeq(s, 1, m)
    <3>1. m <= Len(s)
      BY <1>1, <2>1, LenProperties DEF PartedAt
    <3> QED
      BY <1>1, <1>2, <3>1, PrefixOfGrown DEF Longer
  <2> QED
    BY <1>2, <1>4, <1>a, <1>b, <2>4, <2>5, <2>6
<1>5. CASE d \notin lost /\ d \notin lost'
  BY <1>5, <1>a, <1>b DEF r, r2
<1>6. CASE d \notin lost /\ d \in lost'
  <2>1. FeedAlien(d)
    BY <1>2, <1>6
  <2>2. r2 = r /\ s2 = s
    BY <2>1 DEF FeedAlien, r, r2, s, s2
  <2>3. SyncedOf(r, s, buf[d], handed[d], On(d), Short(d))
    BY <1>0, <1>6 DEF Steady, r, s
  <2>4. PartedAt(r, s, Len(r))
    <3>1. FrameLen(buf[d]).is = "alien"
      BY <2>1 DEF FeedAlien
    <3>2. buf[d] \in Bytes /\ handed[d] \in Bytes /\ On(d) \in Bytes
      BY <1>0, Typed
    <3> QED
      BY <1>1, <2>3, <3>1, <3>2, SyncedAlien
  <2>5. LongestCommonPrefix({r, s}) = SubSeq(s, 1, Len(r))
    BY <1>1, <1>3, <2>4, HeldAt
  <2>6. SubSeq(s, 1, Len(r)) = r
    <3>1. Begins(r, s)
      BY <2>3 DEF SyncedOf
    <3> QED
      BY <1>1, <3>1, PrefixWhole
  <2> QED
    BY <1>6, <1>a, <1>b, <2>2, <2>5, <2>6
<1> QED
  BY <1>4, <1>5, <1>6

LEMMA InStepFunction ==
    /\ InStep = [d \in Dirs |-> InStep[d]]
    /\ InStep' = [d \in Dirs |-> InStep'[d]]
BY DEF InStep

LEMMA AllKept ==
    ASSUME TapInv, TapInv', [Next]_vars, recorded' = recorded
    PROVE  InStep' = InStep
<1>1. \A d \in Dirs : InStep'[d] = InStep[d]
  BY InStepKept
<1> QED
  BY <1>1, InStepFunction

LEMMA FrameRecords ==
    ASSUME TapInv, TapInv', [Next]_vars, NEW d \in Dirs, FeedFrame(d)
    PROVE  [Promise!Next]_<<sent, InStep>>
<1>0. TypeOK /\ Steady(d)
  BY DEF TapInv
<1>1. sent' = sent /\ lost' = lost /\ \A c \in Dirs : c # d => recorded'[c] = recorded[c]
  BY <1>0 DEF FeedFrame, TypeOK
<1>2. \A c \in Dirs : c # d => InStep'[c] = InStep[c]
  BY <1>1, InStepKept
<1>3. CASE d \in lost
  <2>1. \A c \in Dirs : InStep'[c] = InStep[c]
    BY <1>2, <1>3, InStepKept
  <2> QED
    BY <1>1, <2>1, InStepFunction
<1>4. CASE d \notin lost
  <2> DEFINE r == recorded[d]
             x == SubSeq(buf[d], 1, FrameLen(buf[d]).len)
  <2>1. /\ r \in Seq(Bytes) /\ sent[d] \in Seq(Frames) /\ buf[d] \in Bytes
        /\ handed[d] \in Bytes /\ On(d) \in Bytes
    BY <1>0, Typed
  <2>2. SyncedOf(r, sent[d], buf[d], handed[d], On(d), Short(d))
    BY <1>0, <1>4 DEF Steady
  <2>3. FrameLen(buf[d]).is = "whole" /\ recorded'[d] = Append(r, x)
    BY <1>0 DEF FeedFrame, TypeOK
  <2>4. Len(r) < Len(sent[d]) /\ x = sent[d][Len(r) + 1]
    BY <2>1, <2>2, <2>3, SyncedFrame
  <2>5. InStep[d] = r /\ InStep'[d] = recorded'[d]
    BY <1>1, <1>4 DEF InStep
  <2> HIDE DEF r, x
  <2>6. Len(InStep[d]) < Len(sent[d]) /\ InStep'[d] = Append(InStep[d], sent[d][Len(InStep[d]) + 1])
    BY <2>3, <2>4, <2>5
  <2>7. InStep' = [InStep EXCEPT ![d] = Append(@, sent[d][Len(InStep[d]) + 1])]
    <3> DEFINE y == Append(InStep[d], sent[d][Len(InStep[d]) + 1])
    <3>1. InStep'[d] = y
      BY <2>6
    <3> HIDE DEF y
    <3>2. InStep' = [InStep EXCEPT ![d] = y]
      <4>1. \A c \in Dirs : InStep'[c] = [InStep EXCEPT ![d] = y][c]
        BY <1>2, <3>1, InStepFunction
      <4>2. [InStep EXCEPT ![d] = y] = [c \in Dirs |-> [InStep EXCEPT ![d] = y][c]]
        BY InStepFunction
      <4> QED
        BY <4>1, <4>2, InStepFunction
    <3> QED
      BY <3>2 DEF y
  <2>8. Promise!Record(d)
    BY <1>1, <2>6, <2>7 DEF Promise!Record
  <2> QED
    BY <2>8 DEF Promise!Next
<1> QED
  BY <1>3, <1>4

\* Captured: the tap does what Capture promises.  However the socket cuts the
\* bytes, the messages recorded of a direction are those sent, whole and in order,
\* up to the first whose length frameLen refuses; after that one the list of those
\* in step does not change (internal/proto/proto.go:110-170).
THEOREM TapCaptures == Spec => Captured
<1>1. Init => Promise!Init
  BY DEF Init, Promise!Init, InStep
<1>2. TapInv /\ TapInv' /\ [Next]_vars => [Promise!Next]_<<sent, InStep>>
  <2> SUFFICES ASSUME TapInv, TapInv', [Next]_vars PROVE [Promise!Next]_<<sent, InStep>>
    OBVIOUS
  <2>0. TypeOK
    BY DEF TapInv
  <2>1. CASE sent' = sent /\ recorded' = recorded
    BY <2>1, AllKept
  <2>2. ASSUME NEW f \in Frames, Write(f) \/ WriteFails(f) PROVE [Promise!Next]_<<sent, InStep>>
    <3>1. recorded' = recorded /\ sent' = [sent EXCEPT !["out"] = Append(@, f)]
      BY <2>2 DEF Write, WriteFails
    <3>2. InStep' = InStep
      BY <3>1, AllKept
    <3>3. Promise!Send("out", f)
      BY <3>1, <3>2 DEF Promise!Send
    <3> QED
      BY <3>3, DirsAre DEF Promise!Next
  <2>3. ASSUME NEW f \in Frames, ServerSends(f) PROVE [Promise!Next]_<<sent, InStep>>
    <3>1. recorded' = recorded /\ sent' = [sent EXCEPT !["in"] = Append(@, f)]
      BY <2>3 DEF ServerSends
    <3>2. InStep' = InStep
      BY <3>1, AllKept
    <3>3. Promise!Send("in", f)
      BY <3>1, <3>2 DEF Promise!Send
    <3> QED
      BY <3>3, DirsAre DEF Promise!Next
  <2>4. ASSUME NEW d \in Dirs, Tap(d) PROVE [Promise!Next]_<<sent, InStep>>
    <3>1. CASE FeedFrame(d)
      BY <3>1, FrameRecords
    <3>2. CASE Feed(d) \/ FeedMore(d) \/ FeedAlien(d)
      BY <2>1, <3>2 DEF Feed, FeedMore, FeedAlien
    <3> QED
      BY <2>4, <3>1, <3>2 DEF Tap
  <2>5. CASE Clear \/ Reader \/ UNCHANGED vars
    BY <2>1, <2>5 DEF Clear, Reader, Read, vars
  <2> QED
    BY <2>2, <2>3, <2>4, <2>5 DEF Next
<1> QED
  BY <1>1, <1>2, TapInvAlways, PTL DEF Spec, Captured, Promise!Spec
=============================================================================
