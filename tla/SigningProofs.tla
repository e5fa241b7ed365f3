----------------------------- MODULE SigningProofs -----------------------------
(* Theorems about what is signed, for any accounts, keys and messages, any texts   *)
(* and numbers, and any number of operations.  First how the bytes of each part of *)
(* a payload read back one way only, then the protocol of the client, and last     *)
(* what a signature is good for.                                                   *)
EXTENDS Signing, SequenceTheorems, NaturalsInduction, FiniteSetTheorems, FunctionTheorems, TLAPS

-------------------------------------------------------------------------------
(* Sequences of bytes.                                                         *)

\* A set of numbers has a least member.
LEMMA LeastOf ==
    ASSUME NEW T, T \subseteq Nat, T # {}
    PROVE  \E x \in T : \A y \in T : x <= y
<1>1. \E x \in T : \A y \in T : <<y, x>> \notin OpToRel(<, Nat)
  BY WFMin, NatLessThanWellFounded
<1>2. \A x, y \in Nat : y < x => <<y, x>> \in OpToRel(<, Nat)
  BY Zenon DEF OpToRel
<1>3. PICK x \in T : \A y \in T : ~ (y < x)
  BY Zenon, <1>1, <1>2
<1>4. QED
  BY <1>3

\* What holds of zero, and of the next number whenever it holds of a number, holds of
\* all: the numbers of which it does not hold have no least one.
LEMMA AllNumbers ==
    ASSUME NEW G, 0 \in G, \A n \in Nat : n \in G => n + 1 \in G
    PROVE  Nat \subseteq G
<1> DEFINE T == Nat \ G
<1>1. CASE T = {}
  BY <1>1
<1>2. CASE T # {}
  <2>1. PICK x \in T : \A y \in T : x <= y
    BY <1>2, LeastOf
  <2>2. x # 0 /\ x - 1 \in Nat /\ x - 1 \notin T
    BY <2>1
  <2>3. x - 1 \in G /\ (x - 1) + 1 = x
    BY <2>1, <2>2
  <2>4. x \in G
    BY <2>2, <2>3
  <2>5. QED
    BY <2>1, <2>4
<1>3. QED
  BY <1>1, <1>2

LEMMA Joined ==
    ASSUME NEW a, NEW b, a \in Bytestring, b \in Bytestring
    PROVE  /\ a ++ b \in Bytestring /\ Len(a ++ b) = Len(a) + Len(b)
           /\ \A i \in 1 .. Len(a) : (a ++ b)[i] = a[i]
           /\ \A i \in 1 .. Len(b) : (a ++ b)[Len(a) + i] = b[i]
           /\ a ++ <<>> = a /\ <<>> ++ a = a
BY DEF Bytestring, ++

LEMMA Regrouped ==
    ASSUME NEW a, NEW b, NEW c, a \in Bytestring, b \in Bytestring, c \in Bytestring
    PROVE  (a ++ b) ++ c = a ++ (b ++ c)
BY ConcatAssociative DEF Bytestring, ++

\* What starts with equally many bytes starts with the same.
LEMMA Cut ==
    ASSUME NEW a, NEW b, NEW x, NEW y,
           a \in Bytestring, b \in Bytestring, x \in Bytestring, y \in Bytestring,
           a ++ x = b ++ y, Len(a) = Len(b)
    PROVE  a = b /\ x = y
<1>1. a = b
  <2>1. ASSUME NEW i \in 1 .. Len(a) PROVE a[i] = b[i]
    <3>1. (a ++ x)[i] = a[i]
      BY Joined
    <3>2. i \in 1 .. Len(b)
      OBVIOUS
    <3>3. (b ++ y)[i] = b[i]
      BY <3>2, Joined
    <3>4. QED
      BY <3>1, <3>3
  <2>2. QED
    BY <2>1, SeqEqual DEF Bytestring
<1>2. x = y
  BY <1>1, ConcatSimplifications DEF Bytestring, ++
<1>3. QED
  BY <1>1, <1>2

LEMMA Rest ==
    ASSUME NEW a, NEW x, NEW y,
           a \in Bytestring, x \in Bytestring, y \in Bytestring, a ++ x = a ++ y
    PROVE  x = y
BY Cut

-------------------------------------------------------------------------------
(* Concatenation.                                                              *)

\* f holds what the first elements of s make together.
Partial(s, f) ==
    /\ f \in [1 .. Len(s) -> Bytestring]
    /\ \A i \in 1 .. Len(s) : f[i] = IF i = 1 THEN s[i] ELSE f[i - 1] ++ s[i]

LEMMA PartialExists ==
    ASSUME NEW s \in Seq(Bytestring)
    PROVE  \E f : Partial(s, f)
<1> DEFINE Up(m, f) == /\ f \in [1 .. m -> Bytestring]
                       /\ \A i \in 1 .. m : f[i] = IF i = 1 THEN s[i] ELSE f[i - 1] ++ s[i]
           G == {m \in Nat : m <= Len(s) => \E f : Up(m, f)}
<1>1. 0 \in G
  <2>1. Up(0, [i \in 1 .. 0 |-> <<>>])
    OBVIOUS
  <2>2. QED
    BY <2>1
<1>2. ASSUME NEW m \in Nat, m \in G PROVE m + 1 \in G
  <2> SUFFICES ASSUME m + 1 <= Len(s) PROVE \E f : Up(m + 1, f)
    OBVIOUS
  <2>1. PICK f : Up(m, f)
    BY <1>2
  <2>2. s[m + 1] \in Bytestring
    OBVIOUS
  <2> DEFINE last == IF m = 0 THEN s[m + 1] ELSE f[m] ++ s[m + 1]
             g == [i \in 1 .. m + 1 |-> IF i = m + 1 THEN last ELSE f[i]]
  <2>3. last \in Bytestring
    BY <2>1, <2>2, Joined
  <2>4. g \in [1 .. m + 1 -> Bytestring]
    BY <2>1, <2>3
  <2>5. ASSUME NEW i \in 1 .. m + 1
        PROVE  g[i] = IF i = 1 THEN s[i] ELSE g[i - 1] ++ s[i]
    <3>1. CASE i = m + 1
      <4>1. g[i] = last
        BY <3>1
      <4>2. m # 0 => i - 1 = m /\ m \in 1 .. m + 1 /\ g[m] = f[m]
        BY <3>1
      <4>3. QED
        BY <3>1, <4>1, <4>2
    <3>2. CASE i # m + 1
      <4>1. i \in 1 .. m /\ g[i] = f[i]
        BY <3>2
      <4>2. i # 1 => i - 1 \in 1 .. m /\ g[i - 1] = f[i - 1]
        BY <4>1
      <4>3. f[i] = IF i = 1 THEN s[i] ELSE f[i - 1] ++ s[i]
        BY <2>1, <4>1
      <4>4. QED
        BY <4>1, <4>2, <4>3
    <3>3. QED
      BY <3>1, <3>2
  <2>6. Up(m + 1, g)
    BY <2>4, <2>5
  <2>7. QED
    BY <2>6
<1>3. Nat \subseteq G
  BY <1>1, <1>2, AllNumbers
<1>4. Len(s) \in G
  <2>1. Len(s) \in Nat
    OBVIOUS
  <2> HIDE DEF G
  <2>2. QED
    BY <1>3, <2>1
<1>5. QED
  BY <1>4 DEF Partial

\* FlattenSeq joins the elements one after the other.
LEMMA FlattenIs ==
    ASSUME NEW s \in Seq(Bytestring), s # <<>>
    PROVE  \E f : Partial(s, f) /\ FlattenSeq(s) = f[Len(s)]
<1> DEFINE Rec(f) == [i \in 1 .. Len(s) |-> IF i = 1 THEN s[i] ELSE f[i - 1] ++ s[i]]
           flat == CHOOSE f : f = Rec(f)
<1>1. PICK f : Partial(s, f)
  BY PartialExists
<1>2. f = Rec(f)
  BY <1>1 DEF Partial
<1>3. flat = Rec(flat)
  BY <1>2
<1>4. FlattenSeq(s) = flat[Len(s)]
  BY DEF FlattenSeq, ++
<1> HIDE DEF flat
<1>5. ASSUME NEW i \in 1 .. Len(s)
      PROVE  flat[i] = IF i = 1 THEN s[i] ELSE flat[i - 1] ++ s[i]
  BY <1>3
<1> DEFINE G == {m \in Nat : \A i \in 1 .. Len(s) : i <= m => flat[i] \in Bytestring}
<1>6. 0 \in G
  OBVIOUS
<1>7. ASSUME NEW m \in Nat, m \in G PROVE m + 1 \in G
  <2> SUFFICES ASSUME NEW i \in 1 .. Len(s), i = m + 1 PROVE flat[i] \in Bytestring
    BY <1>7
  <2>1. s[i] \in Bytestring
    OBVIOUS
  <2>2. CASE i = 1
    BY <1>5, <2>1, <2>2
  <2>3. CASE i # 1
    <3>1. flat[i - 1] \in Bytestring
      BY <1>7, <2>3
    <3>2. flat[i] = flat[i - 1] ++ s[i]
      BY <1>5, <2>3
    <3>3. QED
      BY <2>1, <3>1, <3>2, Joined
  <2>4. QED
    BY <2>2, <2>3
<1>8. Len(s) \in Nat /\ Len(s) \in G
  <2>1. Nat \subseteq G
    <3> HIDE DEF G
    <3>1. QED
      BY <1>6, <1>7, AllNumbers
  <2>2. Len(s) \in Nat
    OBVIOUS
  <2> HIDE DEF G
  <2>3. QED
    BY <2>1, <2>2
<1>9. flat \in [1 .. Len(s) -> Bytestring]
  <2>1. \A i \in 1 .. Len(s) : flat[i] \in Bytestring
    BY <1>8
  <2>2. QED
    BY <1>3, <2>1
<1>10. Partial(s, flat)
  BY <1>5, <1>9 DEF Partial
<1>11. QED
  BY <1>4, <1>10

\* The whole starts with what the first elements make.
LEMMA PartialStarts ==
    ASSUME NEW s \in Seq(Bytestring), NEW f, Partial(s, f), NEW m \in 1 .. Len(s)
    PROVE  \E z \in Bytestring : f[Len(s)] = f[m] ++ z
<1> DEFINE G == {k \in Nat : m + k <= Len(s) => \E z \in Bytestring : f[m + k] = f[m] ++ z}
<1>0. Len(s) \in Nat /\ \A i \in 1 .. Len(s) : f[i] \in Bytestring /\ s[i] \in Bytestring
  BY DEF Partial
<1>1. 0 \in G
  <2>1. <<>> \in Bytestring
    BY DEF Bytestring
  <2>3. f[m] ++ <<>> = f[m] /\ m + 0 = m
    BY <1>0, <2>1, Joined
  <2>2. QED
    BY <2>1, <2>3
<1>2. ASSUME NEW k \in Nat, k \in G PROVE k + 1 \in G
  <2> SUFFICES ASSUME m + (k + 1) <= Len(s)
               PROVE  \E z \in Bytestring : f[m + (k + 1)] = f[m] ++ z
    OBVIOUS
  <2>1. PICK z \in Bytestring : f[m + k] = f[m] ++ z
    BY <1>0, <1>2
  <2> DEFINE i == m + (k + 1)
  <2>2. i \in 1 .. Len(s) /\ i # 1 /\ i - 1 = m + k
    BY <1>0
  <2>3. f[i] = f[m + k] ++ s[i]
    BY <2>2 DEF Partial
  <2> HIDE DEF i
  <2>4. f[m] \in Bytestring /\ s[i] \in Bytestring
    BY <1>0, <2>2
  <2>5. f[i] = f[m] ++ (z ++ s[i]) /\ z ++ s[i] \in Bytestring
    <3>1. (f[m] ++ z) ++ s[i] = f[m] ++ (z ++ s[i])
      BY <2>4, Regrouped
    <3>2. z ++ s[i] \in Bytestring
      BY <2>4, Joined
    <3>3. QED
      BY Zenon, <2>1, <2>3, <3>1, <3>2
  <2>6. QED
    BY <2>5 DEF i
<1>3. Len(s) - m \in G
  <2>1. Nat \subseteq G
    <3> HIDE DEF G
    <3>1. QED
      BY <1>1, <1>2, AllNumbers
  <2>2. Len(s) - m \in Nat
    BY <1>0
  <2> HIDE DEF G
  <2>3. QED
    BY <2>1, <2>2
<1>4. m + (Len(s) - m) = Len(s)
  BY <1>0
<1>5. QED
  BY <1>0, <1>3, <1>4

\* No member starts another one: they can be told apart whatever follows them.
PrefixFree(B) ==
    \A p, q \in B : \A x, y \in Bytestring : p ++ x = q ++ y => p = q

\* Equally many members that can be told apart can be read from their concatenation.
LEMMA FlattenReads ==
    ASSUME NEW B, B \subseteq Bytestring, PrefixFree(B),
           NEW s \in Seq(B), NEW t \in Seq(B), Len(s) = Len(t),
           NEW x \in Bytestring, NEW y \in Bytestring,
           FlattenSeq(s) ++ x = FlattenSeq(t) ++ y
    PROVE  s = t /\ x = y
<1>0. /\ Len(s) \in Nat /\ s \in Seq(Bytestring) /\ t \in Seq(Bytestring)
      /\ \A i \in 1 .. Len(s) : s[i] \in B /\ t[i] \in B
  BY SeqMonotonic
<1>1. CASE Len(s) = 0
  <2>1. s = <<>> /\ t = <<>>
    BY <1>0, <1>1, EmptySeq
  <2>2. FlattenSeq(<<>>) = <<>> /\ <<>> \in Bytestring
    BY DEF FlattenSeq, Bytestring
  <2>3. \A z \in Bytestring : <<>> ++ z = z
    BY <2>2, Joined
  <2>4. QED
    BY <2>1, <2>2, <2>3
<1>2. CASE Len(s) # 0
  <2>0. s # <<>> /\ t # <<>>
    BY <1>2
  <2>1. PICK f : Partial(s, f) /\ FlattenSeq(s) = f[Len(s)]
    BY <1>0, <2>0, FlattenIs
  <2>2. PICK g : Partial(t, g) /\ FlattenSeq(t) = g[Len(t)]
    BY <1>0, <2>0, FlattenIs
  <2> DEFINE n == Len(s)
             G == {m \in Nat : \A i \in 1 .. n : i <= m => s[i] = t[i] /\ f[i] = g[i]}
  <2>3. \A i \in 1 .. n : f[i] \in Bytestring /\ g[i] \in Bytestring
                          /\ s[i] \in Bytestring /\ t[i] \in Bytestring
    BY <1>0, <2>1, <2>2 DEF Partial
  <2>4. f[n] ++ x = g[n] ++ y
    BY <2>1, <2>2
  <2>5. 0 \in G
    OBVIOUS
  <2>6. ASSUME NEW m \in Nat, m \in G PROVE m + 1 \in G
    <3> SUFFICES ASSUME NEW i \in 1 .. n, i = m + 1 PROVE s[i] = t[i] /\ f[i] = g[i]
      BY <2>6
    <3>0. s[i] \in B /\ t[i] \in B
      BY <1>0
    <3>1. PICK u \in Bytestring : f[n] = f[i] ++ u
      BY <1>0, <2>1, PartialStarts
    <3>2. PICK v \in Bytestring : g[n] = g[i] ++ v
      <4>1. i \in 1 .. Len(t)
        OBVIOUS
      <4>2. \E v \in Bytestring : g[Len(t)] = g[i] ++ v
        BY <1>0, <2>2, <4>1, PartialStarts
      <4>3. QED
        BY <4>2
    <3>3. (f[i] ++ u) ++ x = (g[i] ++ v) ++ y
      BY Zenon, <2>4, <3>1, <3>2
    <3>5. CASE i = 1
      <4>1. f[i] = s[i] /\ g[i] = t[i]
        BY <1>0, <2>1, <2>2, <3>5 DEF Partial
      <4>2. (s[i] ++ u) ++ x = (t[i] ++ v) ++ y
        BY Zenon, <3>3, <4>1
      <4>3. s[i] = t[i]
        <5>1. s[i] ++ (u ++ x) = t[i] ++ (v ++ y)
          BY <2>3, <4>2, Regrouped
        <5>2. u ++ x \in Bytestring /\ v ++ y \in Bytestring
          BY Joined
        <5>3. QED
          BY <3>0, <5>1, <5>2 DEF PrefixFree
      <4>4. QED
        BY <4>1, <4>3
    <3>6. CASE i # 1
      <4>1. i - 1 \in 1 .. n /\ i - 1 <= m
        BY <1>0, <3>6
      <4>2. f[i] = f[i - 1] ++ s[i] /\ g[i] = g[i - 1] ++ t[i]
        BY <1>0, <2>1, <2>2, <3>6 DEF Partial
      <4>3. f[i - 1] = g[i - 1] /\ f[i - 1] \in Bytestring
        BY <2>3, <2>6, <4>1
      <4>4. ((f[i - 1] ++ s[i]) ++ u) ++ x = ((f[i - 1] ++ t[i]) ++ v) ++ y
        BY Zenon, <3>3, <4>2, <4>3
      <4>5. s[i] = t[i]
        <5>0. s[i] \in Bytestring /\ t[i] \in Bytestring
          BY <2>3
        <5>1. s[i] ++ (u ++ x) = t[i] ++ (v ++ y)
          BY <4>3, <4>4, <5>0, Regrouped, Joined, Rest
        <5>2. u ++ x \in Bytestring /\ v ++ y \in Bytestring
          BY Joined
        <5>4. QED
          BY <3>0, <5>1, <5>2 DEF PrefixFree
      <4>6. QED
        BY <4>2, <4>3, <4>5
    <3>7. QED
      BY <3>5, <3>6
  <2>7. n \in G
    <3>1. Nat \subseteq G
      <4> HIDE DEF G
      <4>1. QED
        BY <2>5, <2>6, AllNumbers
    <3> HIDE DEF G
    <3>2. QED
      BY <1>0, <3>1
  <2>8. \A i \in 1 .. n : s[i] = t[i] /\ f[i] = g[i]
    BY <1>0, <2>7
  <2>9. s = t
    BY <1>0, <2>8, SeqEqual
  <2>10. f[n] = g[n] /\ f[n] \in Bytestring
    BY <1>0, <1>2, <2>3, <2>8
  <2>11. x = y
    <3>1. f[n] ++ x = f[n] ++ y
      BY <2>4, <2>10
    <3> HIDE DEF n
    <3>2. QED
      BY <2>10, <3>1, Cut
  <2>12. QED
    BY <2>9, <2>11
<1>3. QED
  BY <1>1, <1>2

LEMMA FlattenType ==
    ASSUME NEW s \in Seq(Bytestring)
    PROVE  FlattenSeq(s) \in Bytestring
<1>1. CASE s = <<>>
  BY <1>1 DEF FlattenSeq, Bytestring
<1>2. CASE s # <<>>
  <2>1. PICK f : Partial(s, f) /\ FlattenSeq(s) = f[Len(s)]
    BY <1>2, FlattenIs
  <2>2. Len(s) \in 1 .. Len(s)
    BY <1>2
  <2>3. QED
    BY <2>1, <2>2 DEF Partial
<1>3. QED
  BY <1>1, <1>2

-------------------------------------------------------------------------------
(* Numbers and texts.                                                          *)

LEMMA NumbersAre ==
    /\ Numbers \subseteq Nat /\ 0 \in Numbers /\ 1 \in Numbers
    /\ \A n \in Numbers, m \in Nat : m <= n => m \in Numbers
    /\ \A n \in Numbers : n \div (256 * 256 * 256) < 128
BY Utf8Assumption DEF Numbers

LEMMA NumberType ==
    ASSUME NEW n, NEW w, n \in Nat, w \in Nat
    PROVE  LittleEndian(n, w) \in Bytestring /\ Len(LittleEndian(n, w)) = w
<1> DEFINE byte(i) == CASE i = 1 -> n % 256
                        [] i = 2 -> (n \div 256) % 256
                        [] i = 3 -> (n \div (256 * 256)) % 256
                        [] i = 4 -> (n \div (256 * 256 * 256)) % 256
                        [] OTHER -> 0
<1>1. \A i \in 1 .. w : byte(i) \in Byte
  BY DEF Byte
<1>2. LittleEndian(n, w) = [i \in 1 .. w |-> byte(i)]
  BY DEF LittleEndian
<1> HIDE DEF byte
<1>3. QED
  BY <1>1, <1>2 DEF Bytestring

\* A number in use has four bytes at most.
LEMMA NumberIsRead ==
    ASSUME NEW m, NEW n, NEW w, m \in Numbers, n \in Numbers, w \in Nat, w >= 4,
           LittleEndian(m, w) = LittleEndian(n, w)
    PROVE  m = n
<1> DEFINE a == LittleEndian(m, w)
           b == LittleEndian(n, w)
<1>1. m \in Nat /\ n \in Nat
      /\ m \div (256 * 256 * 256) < 128 /\ n \div (256 * 256 * 256) < 128
  BY NumbersAre
<1>2. /\ a[1] = m % 256 /\ b[1] = n % 256
      /\ a[2] = (m \div 256) % 256 /\ b[2] = (n \div 256) % 256
      /\ a[3] = (m \div (256 * 256)) % 256 /\ b[3] = (n \div (256 * 256)) % 256
      /\ a[4] = (m \div (256 * 256 * 256)) % 256 /\ b[4] = (n \div (256 * 256 * 256)) % 256
  BY DEF LittleEndian
<1>3. /\ m % 256 = n % 256
      /\ (m \div 256) % 256 = (n \div 256) % 256
      /\ (m \div (256 * 256)) % 256 = (n \div (256 * 256)) % 256
      /\ (m \div (256 * 256 * 256)) % 256 = (n \div (256 * 256 * 256)) % 256
  BY <1>2
<1>4. QED
  BY <1>1, <1>3

\* Two bytes are enough for the number of a lane.
LEMMA LaneIsRead ==
    ASSUME NEW m, NEW n, NEW w, FitsTwoBytes(m), FitsTwoBytes(n), w \in Nat, w >= 2,
           LittleEndian(m, w) = LittleEndian(n, w)
    PROVE  m = n
<1> DEFINE a == LittleEndian(m, w)
           b == LittleEndian(n, w)
<1>1. m \in Nat /\ n \in Nat /\ m \div 256 < 256 /\ n \div 256 < 256
  BY NumbersAre DEF FitsTwoBytes, Byte
<1>2. /\ a[1] = m % 256 /\ b[1] = n % 256
      /\ a[2] = (m \div 256) % 256 /\ b[2] = (n \div 256) % 256
  BY DEF LittleEndian
<1>3. m % 256 = n % 256 /\ (m \div 256) % 256 = (n \div 256) % 256
  BY <1>2
<1>4. QED
  BY <1>1, <1>3

LEMMA U32Type == ASSUME NEW n, n \in Numbers PROVE U32(n) \in Bytestring /\ Len(U32(n)) = 4
BY NumberType, NumbersAre DEF U32
LEMMA U64Type == ASSUME NEW n, n \in Numbers PROVE U64(n) \in Bytestring /\ Len(U64(n)) = 8
BY NumberType, NumbersAre DEF U64
LEMMA U128Type == ASSUME NEW n, n \in Numbers PROVE U128(n) \in Bytestring /\ Len(U128(n)) = 16
BY NumberType, NumbersAre DEF U128
LEMMA U16Type == ASSUME NEW n, n \in Nat PROVE U16(n) \in Bytestring /\ Len(U16(n)) = 2
BY NumberType DEF U16
LEMMA U8Type == ASSUME NEW n, n \in Nat PROVE U8(n) \in Bytestring /\ Len(U8(n)) = 1
BY NumberType DEF U8

LEMMA U32Reads ==
    ASSUME NEW m, NEW n, NEW x, NEW y, m \in Numbers, n \in Numbers, x \in Bytestring, y \in Bytestring,
           U32(m) ++ x = U32(n) ++ y
    PROVE  m = n /\ x = y
<1>1. U32(m) = U32(n) /\ x = y
  BY U32Type, Cut
<1>2. QED
  BY <1>1, NumberIsRead DEF U32
LEMMA U64Reads ==
    ASSUME NEW m, NEW n, NEW x, NEW y, m \in Numbers, n \in Numbers, x \in Bytestring, y \in Bytestring,
           U64(m) ++ x = U64(n) ++ y
    PROVE  m = n /\ x = y
<1>1. U64(m) = U64(n) /\ x = y
  BY U64Type, Cut
<1>2. QED
  BY <1>1, NumberIsRead DEF U64
LEMMA U128Reads ==
    ASSUME NEW m, NEW n, NEW x, NEW y, m \in Numbers, n \in Numbers, x \in Bytestring, y \in Bytestring,
           U128(m) ++ x = U128(n) ++ y
    PROVE  m = n /\ x = y
<1>1. U128(m) = U128(n) /\ x = y
  BY U128Type, Cut
<1>2. QED
  BY <1>1, NumberIsRead DEF U128
LEMMA U16Reads ==
    ASSUME NEW m, NEW n, NEW x, NEW y, FitsTwoBytes(m), FitsTwoBytes(n),
           x \in Bytestring, y \in Bytestring, U16(m) ++ x = U16(n) ++ y
    PROVE  m = n /\ x = y
<1>1. m \in Nat /\ n \in Nat
  BY NumbersAre DEF FitsTwoBytes
<1>2. U16(m) = U16(n) /\ x = y
  BY <1>1, U16Type, Cut
<1>3. QED
  BY <1>2, LaneIsRead DEF U16

LEMMA TextType ==
    ASSUME NEW t, t \in Texts
    PROVE  /\ Text(t) \in Bytestring /\ Utf8[t] \in Bytestring /\ Len(Utf8[t]) \in Numbers
           /\ Text(t) = U32(Len(Utf8[t])) ++ Utf8[t]
BY Utf8Assumption, U32Type, Joined DEF Text

LEMMA TextReads ==
    ASSUME NEW s, NEW t, NEW x, NEW y, s \in Texts, t \in Texts, x \in Bytestring, y \in Bytestring,
           Text(s) ++ x = Text(t) ++ y
    PROVE  s = t /\ x = y
<1>1. U32(Len(Utf8[s])) ++ (Utf8[s] ++ x) = U32(Len(Utf8[t])) ++ (Utf8[t] ++ y)
  BY TextType, U32Type, Regrouped
<1>2. Len(Utf8[s]) = Len(Utf8[t]) /\ Utf8[s] ++ x = Utf8[t] ++ y
  BY <1>1, TextType, Joined, U32Reads
<1>3. Utf8[s] = Utf8[t] /\ x = y
  BY <1>2, TextType, Cut
<1>4. QED
  BY <1>3, Utf8Assumption

-------------------------------------------------------------------------------
(* Tags, options and vectors.                                                  *)

LEMMA TagType == ASSUME NEW k, k \in Byte PROVE <<k>> \in Bytestring /\ Len(<<k>>) = 1
BY DEF Bytestring

LEMMA TagReads ==
    ASSUME NEW k, NEW l, NEW x, NEW y, k \in Byte, l \in Byte, x \in Bytestring, y \in Bytestring,
           <<k>> ++ x = <<l>> ++ y
    PROVE  k = l /\ x = y
<1>1. <<k>> = <<l>> /\ x = y
  BY TagType, Cut
<1>2. QED
  BY <1>1

LEMMA OptionType ==
    ASSUME NEW o, o \in Optional(Bytestring)
    PROVE  Option(o) \in Bytestring
<1>1. CASE o = <<>>
  BY <1>1, TagType DEF Option, Byte
<1>2. CASE o # <<>>
  <2>1. o[1] \in Bytestring
    BY <1>2 DEF Optional
  <2>2. QED
    BY <1>2, <2>1, TagType, Joined DEF Option, Byte
<1>3. QED
  BY <1>1, <1>2

LEMMA OptionReads ==
    ASSUME NEW o, NEW p, NEW x, NEW y, o \in Optional(Bytestring), p \in Optional(Bytestring),
           x \in Bytestring, y \in Bytestring, Option(o) ++ x = Option(p) ++ y
    PROVE  \/ o = <<>> /\ p = <<>> /\ x = y
           \/ o # <<>> /\ p # <<>> /\ o[1] ++ x = p[1] ++ y
<1>1. 0 \in Byte /\ 1 \in Byte
  BY DEF Byte
<1>2. ASSUME NEW q, NEW z, q \in Optional(Bytestring), z \in Bytestring, q # <<>>
      PROVE  q[1] ++ z \in Bytestring /\ Option(q) ++ z = <<1>> ++ (q[1] ++ z)
  <2>1. q[1] \in Bytestring
    BY <1>2 DEF Optional
  <2>2. Option(q) = <<1>> ++ q[1] /\ <<1>> \in Bytestring
    BY <1>1, <1>2, TagType DEF Option
  <2>3. QED
    BY <1>2, <2>1, <2>2, Regrouped, Joined
<1>3. Option(<<>>) = <<0>>
  BY DEF Option
<1>4. CASE o = <<>> /\ p = <<>>
  BY <1>1, <1>3, <1>4, TagReads
<1>5. CASE o = <<>> /\ p # <<>>
  BY <1>1, <1>2, <1>3, <1>5, TagReads
<1>6. CASE o # <<>> /\ p = <<>>
  BY <1>1, <1>2, <1>3, <1>6, TagReads
<1>7. CASE o # <<>> /\ p # <<>>
  BY <1>1, <1>2, <1>7, TagReads
<1>8. QED
  BY <1>4, <1>5, <1>6, <1>7

LEMMA VectorType ==
    ASSUME NEW s, s \in Seq(Bytestring), Len(s) \in Numbers
    PROVE  Vector(s) \in Bytestring
BY U32Type, FlattenType, Joined DEF Vector

LEMMA VectorReads ==
    ASSUME NEW B, B \subseteq Bytestring, PrefixFree(B), NEW s, NEW t, NEW x, NEW y,
           s \in Seq(B), t \in Seq(B), Len(s) \in Numbers, Len(t) \in Numbers,
           x \in Bytestring, y \in Bytestring, Vector(s) ++ x = Vector(t) ++ y
    PROVE  s = t /\ x = y
<1>1. s \in Seq(Bytestring) /\ t \in Seq(Bytestring)
  BY SeqMonotonic
<1>2. FlattenSeq(s) \in Bytestring /\ FlattenSeq(t) \in Bytestring
  BY <1>1, FlattenType
<1>3. U32(Len(s)) ++ (FlattenSeq(s) ++ x) = U32(Len(t)) ++ (FlattenSeq(t) ++ y)
  BY <1>2, U32Type, Regrouped DEF Vector
<1>4. Len(s) = Len(t) /\ FlattenSeq(s) ++ x = FlattenSeq(t) ++ y
  BY <1>2, <1>3, Joined, U32Reads
<1>5. QED
  BY <1>4, FlattenReads

-------------------------------------------------------------------------------
(* The schema.                                                                 *)

LEMMA SeveralIs ==
    ASSUME NEW S, NEW a, a \in Several(S)
    PROVE  /\ a \in Seq(S) /\ Len(a) \in Numbers /\ DOMAIN a = 1 .. Len(a)
           /\ \A i \in DOMAIN a : a[i] \in S
BY DEF Several

\* Sequences of equally many elements, each the same.
LEMMA SameElements ==
    ASSUME NEW S, NEW a, NEW b, a \in Seq(S), b \in Seq(S), DOMAIN a = DOMAIN b,
           \A i \in DOMAIN a : a[i] = b[i]
    PROVE  a = b
BY SeqEqual

LEMMA TextsType ==
    ASSUME NEW a, a \in Several(Texts)
    PROVE  Vector([i \in DOMAIN a |-> Text(a[i])]) \in Bytestring
<1> DEFINE s == [i \in DOMAIN a |-> Text(a[i])]
<1>1. s \in Seq(Bytestring) /\ Len(s) = Len(a)
  BY SeveralIs, TextType
<1>2. QED
  BY <1>1, SeveralIs, VectorType

LEMMA TextsRead ==
    ASSUME NEW a, NEW b, NEW x, NEW y, a \in Several(Texts), b \in Several(Texts),
           x \in Bytestring, y \in Bytestring,
           Vector([i \in DOMAIN a |-> Text(a[i])]) ++ x = Vector([i \in DOMAIN b |-> Text(b[i])]) ++ y
    PROVE  a = b /\ x = y
<1> DEFINE B == {Text(t) : t \in Texts}
           s == [i \in DOMAIN a |-> Text(a[i])]
           r == [i \in DOMAIN b |-> Text(b[i])]
<1>1. B \subseteq Bytestring
  BY TextType
<1>2. PrefixFree(B)
  BY TextReads DEF PrefixFree
<1>3. s \in Seq(B) /\ r \in Seq(B) /\ Len(s) = Len(a) /\ Len(r) = Len(b)
  BY SeveralIs
<1>4. s = r /\ x = y
  <2> HIDE DEF B, s, r
  <2>1. Len(s) \in Numbers /\ Len(r) \in Numbers
    BY <1>3, SeveralIs
  <2>2. Vector(s) ++ x = Vector(r) ++ y
    BY DEF s, r
  <2>3. QED
    BY <1>1, <1>2, <1>3, <2>1, <2>2, VectorReads
<1>5. DOMAIN a = DOMAIN b
  BY <1>4
<1>6. ASSUME NEW i \in DOMAIN a PROVE a[i] = b[i]
  <2>1. a[i] \in Texts /\ b[i] \in Texts /\ s[i] = r[i]
    BY <1>4, <1>5, SeveralIs
  <2>2. Text(a[i]) = Text(b[i])
    BY <1>5, <2>1
  <2>3. QED
    BY <2>1, <2>2, TextReads DEF Bytestring
<1>7. QED
  BY <1>4, <1>5, <1>6, SeveralIs, SameElements

\* What the first field reads, the remaining fields follow.
LEMMA EmptyBytes == /\ <<>> \in Bytestring /\ \A x \in Bytestring : x ++ <<>> = x /\ <<>> ++ x = x
<1>1. <<>> \in Bytestring
  BY DEF Bytestring
<1>2. QED
  BY <1>1, Joined

KeyTag(key) == CASE key.curve = "ed25519" -> 0 [] key.curve = "secp256k1" -> 1 [] key.curve = "ml-dsa-65" -> 2

LEMMA KeyIs ==
    ASSUME NEW key, key \in Keys, ParsesAsPublicKey(key)
    PROVE  /\ key.curve \in {"ed25519", "secp256k1", "ml-dsa-65"}
           /\ key.data \in Bytestring /\ KeyTag(key) \in Byte /\ <<KeyTag(key)>> \in Bytestring
           /\ PublicKeyWire(PublicKeyValue(key)) = <<KeyTag(key)>> ++ key.data
<1>1. key.curve \in {"ed25519", "secp256k1", "ml-dsa-65"} /\ key.data \in Bytestring
  BY DEF ParsesAsPublicKey, Keys, Curves
<1>2. KeyTag(key) \in Byte
  BY <1>1 DEF KeyTag, Byte
<1>3. PublicKeyWire(PublicKeyValue(key)) = <<KeyTag(key)>> ++ key.data
  BY <1>1 DEF PublicKeyWire, PublicKeyValue, KeyTag
<1>4. QED
  BY <1>1, <1>2, <1>3, TagType

LEMMA KeyType ==
    ASSUME NEW key, key \in Keys, ParsesAsPublicKey(key)
    PROVE  PublicKeyWire(PublicKeyValue(key)) \in Bytestring
<1>1. <<KeyTag(key)>> \in Bytestring /\ key.data \in Bytestring
  BY KeyIs
<1>2. <<KeyTag(key)>> ++ key.data \in Bytestring
  BY <1>1, Joined
<1>3. QED
  BY <1>2, KeyIs

\* Keys of one type have the same length.
LEMMA KeyReads ==
    ASSUME NEW key, NEW other, NEW x, NEW y, key \in Keys, other \in Keys,
           ParsesAsPublicKey(key), ParsesAsPublicKey(other), x \in Bytestring, y \in Bytestring,
           PublicKeyWire(PublicKeyValue(key)) ++ x = PublicKeyWire(PublicKeyValue(other)) ++ y
    PROVE  key = other /\ x = y
<1>1. <<KeyTag(key)>> ++ (key.data ++ x) = <<KeyTag(other)>> ++ (other.data ++ y)
  BY KeyIs, Regrouped
<1>2. KeyTag(key) = KeyTag(other) /\ key.data ++ x = other.data ++ y
  BY <1>1, KeyIs, Joined, TagReads
<1>3. key.curve = other.curve
  <2>1. /\ key.curve \in {"ed25519", "secp256k1", "ml-dsa-65"}
        /\ other.curve \in {"ed25519", "secp256k1", "ml-dsa-65"}
    BY KeyIs
  <2>2. QED
    BY <1>2, <2>1 DEF KeyTag
<1>4. Len(key.data) = Len(other.data)
  BY <1>3, KeyIs DEF ParsesAsPublicKey
<1>5. key.data = other.data /\ x = y
  BY <1>2, <1>4, KeyIs, Cut
<1>6. QED
  BY <1>3, <1>5 DEF Keys

LEMMA AllowanceIs ==
    ASSUME NEW o, o \in Optional(Numbers)
    PROVE  [i \in DOMAIN o |-> U128(o[i])] \in Optional(Bytestring)
<1>1. DOMAIN o = 1 .. Len(o) /\ Len(o) \in Nat /\ Len(o) <= 1
  BY DEF Optional
<1>2. \A i \in DOMAIN o : U128(o[i]) \in Bytestring
  BY U128Type DEF Optional
<1>3. QED
  BY <1>1, <1>2 DEF Optional

LEMMA OptionalTextIs ==
    ASSUME NEW o, o \in Optional(Texts)
    PROVE  [i \in DOMAIN o |-> Text(o[i])] \in Optional(Bytestring)
<1>1. DOMAIN o = 1 .. Len(o) /\ Len(o) \in Nat /\ Len(o) <= 1
  BY DEF Optional
<1>2. \A i \in DOMAIN o : Text(o[i]) \in Bytestring
  BY TextType DEF Optional
<1>3. QED
  BY <1>1, <1>2 DEF Optional

\* An argument that may be left out is one value or none.
LEMMA OptionalIs ==
    ASSUME NEW S, NEW o, o \in Optional(S)
    PROVE  o = <<>> \/ (DOMAIN o = {1} /\ o[1] \in S /\ o = <<o[1]>>)
<1>1. o \in Seq(S) /\ (Len(o) = 0 \/ Len(o) = 1)
  <2>1. o \in Seq(S) /\ Len(o) <= 1
    BY DEF Optional
  <2>2. Len(o) \in Nat
    BY <2>1
  <2> DEFINE n == Len(o)
  <2>3. n \in Nat /\ n <= 1
    BY <2>1, <2>2
  <2> HIDE DEF n
  <2>4. n = 0 \/ n = 1
    BY <2>3
  <2>5. QED
    BY <2>1, <2>4 DEF n
<1>2. CASE Len(o) = 0
  BY <1>1, <1>2, EmptySeq
<1>3. CASE Len(o) = 1
  <2>1. DOMAIN o = {1} /\ o[1] \in S
    BY <1>1, <1>3
  <2>2. o = <<o[1]>>
    BY <1>1, <1>3, <2>1, SeqEqual
  <2>3. QED
    BY <2>1, <2>2
<1>4. QED
  BY <1>1, <1>2, <1>3

LEMMA AllowanceReads ==
    ASSUME NEW o, NEW p, NEW x, NEW y, o \in Optional(Numbers), p \in Optional(Numbers),
           x \in Bytestring, y \in Bytestring,
           Option([i \in DOMAIN o |-> U128(o[i])]) ++ x = Option([i \in DOMAIN p |-> U128(p[i])]) ++ y
    PROVE  o = p /\ x = y
<1> DEFINE q == [i \in DOMAIN o |-> U128(o[i])]
           r == [i \in DOMAIN p |-> U128(p[i])]
<1>1. q \in Optional(Bytestring) /\ r \in Optional(Bytestring)
  BY AllowanceIs
<1>2. /\ (q = <<>>) = (o = <<>>) /\ (r = <<>>) = (p = <<>>)
      /\ (o # <<>> => q[1] = U128(o[1])) /\ (p # <<>> => r[1] = U128(p[1]))
  BY OptionalIs
<1>3. \/ q = <<>> /\ r = <<>> /\ x = y
      \/ q # <<>> /\ r # <<>> /\ q[1] ++ x = r[1] ++ y
  <2> HIDE DEF q, r
  <2>1. Option(q) ++ x = Option(r) ++ y
    BY DEF q, r
  <2>2. QED
    BY <1>1, <2>1, OptionReads
<1> HIDE DEF q, r
<1>4. CASE o = <<>>
  BY <1>2, <1>3, <1>4
<1>5. CASE o # <<>>
  <2>1. p # <<>> /\ U128(o[1]) ++ x = U128(p[1]) ++ y
    BY <1>2, <1>3, <1>5
  <2>2. o[1] \in Numbers /\ p[1] \in Numbers /\ o = <<o[1]>> /\ p = <<p[1]>>
    BY <1>5, <2>1, OptionalIs
  <2>3. o[1] = p[1] /\ x = y
    BY <2>1, <2>2, U128Reads
  <2>4. QED
    BY <2>2, <2>3
<1>6. QED
  BY <1>4, <1>5

LEMMA OptionalTextReads ==
    ASSUME NEW o, NEW p, NEW x, NEW y, o \in Optional(Texts), p \in Optional(Texts),
           x \in Bytestring, y \in Bytestring,
           Option([i \in DOMAIN o |-> Text(o[i])]) ++ x = Option([i \in DOMAIN p |-> Text(p[i])]) ++ y
    PROVE  o = p /\ x = y
<1> DEFINE q == [i \in DOMAIN o |-> Text(o[i])]
           r == [i \in DOMAIN p |-> Text(p[i])]
<1>1. q \in Optional(Bytestring) /\ r \in Optional(Bytestring)
  BY OptionalTextIs
<1>2. /\ (q = <<>>) = (o = <<>>) /\ (r = <<>>) = (p = <<>>)
      /\ (o # <<>> => q[1] = Text(o[1])) /\ (p # <<>> => r[1] = Text(p[1]))
  BY OptionalIs
<1>3. \/ q = <<>> /\ r = <<>> /\ x = y
      \/ q # <<>> /\ r # <<>> /\ q[1] ++ x = r[1] ++ y
  <2> HIDE DEF q, r
  <2>1. Option(q) ++ x = Option(r) ++ y
    BY DEF q, r
  <2>2. QED
    BY <1>1, <2>1, OptionReads
<1> HIDE DEF q, r
<1>4. CASE o = <<>>
  BY <1>2, <1>3, <1>4
<1>5. CASE o # <<>>
  <2>1. p # <<>> /\ Text(o[1]) ++ x = Text(p[1]) ++ y
    BY <1>2, <1>3, <1>5
  <2>2. o[1] \in Texts /\ p[1] \in Texts /\ o = <<o[1]>> /\ p = <<p[1]>>
    BY <1>5, <2>1, OptionalIs
  <2>3. o[1] = p[1] /\ x = y
    BY <2>1, <2>2, TextReads
  <2>4. QED
    BY <2>2, <2>3
<1>6. QED
  BY <1>4, <1>5

LEMMA FunctionCallPermissionType ==
    ASSUME NEW p, p.allowance \in Optional(Numbers), p.receiver_id \in Texts, p.method_names \in Several(Texts)
    PROVE  FunctionCallPermission(p) \in Bytestring
<1>1. Option([i \in DOMAIN p.allowance |-> U128(p.allowance[i])]) \in Bytestring
  BY AllowanceIs, OptionType
<1>2. Text(p.receiver_id) \in Bytestring
  BY TextType
<1>3. Vector([i \in DOMAIN p.method_names |-> Text(p.method_names[i])]) \in Bytestring
  BY TextsType
<1>4. QED
  BY <1>1, <1>2, <1>3, Joined DEF FunctionCallPermission

LEMMA FunctionCallPermissionReads ==
    ASSUME NEW p, NEW q, NEW x, NEW y,
           p.allowance \in Optional(Numbers), p.receiver_id \in Texts, p.method_names \in Several(Texts),
           q.allowance \in Optional(Numbers), q.receiver_id \in Texts, q.method_names \in Several(Texts),
           x \in Bytestring, y \in Bytestring,
           FunctionCallPermission(p) ++ x = FunctionCallPermission(q) ++ y
    PROVE  /\ p.allowance = q.allowance /\ p.receiver_id = q.receiver_id
           /\ p.method_names = q.method_names /\ x = y
<1> DEFINE a(o) == Option([i \in DOMAIN o.allowance |-> U128(o.allowance[i])])
           m(o) == Vector([i \in DOMAIN o.method_names |-> Text(o.method_names[i])])
<1>1. a(p) \in Bytestring /\ a(q) \in Bytestring
  BY AllowanceIs, OptionType
<1>2. Text(p.receiver_id) \in Bytestring /\ Text(q.receiver_id) \in Bytestring
  BY TextType
<1>3. m(p) \in Bytestring /\ m(q) \in Bytestring
  BY TextsType
<1>4. /\ FunctionCallPermission(p) = a(p) ++ Text(p.receiver_id) ++ m(p)
      /\ FunctionCallPermission(q) = a(q) ++ Text(q.receiver_id) ++ m(q)
  BY DEF FunctionCallPermission
<1>5. a(p) ++ (Text(p.receiver_id) ++ (m(p) ++ x)) = a(q) ++ (Text(q.receiver_id) ++ (m(q) ++ y))
  <2> HIDE DEF a, m
  <2>1. QED
    BY <1>1, <1>2, <1>3, <1>4, Regrouped, Joined
<1>6. /\ m(p) ++ x \in Bytestring /\ m(q) ++ y \in Bytestring
      /\ Text(p.receiver_id) ++ (m(p) ++ x) \in Bytestring
      /\ Text(q.receiver_id) ++ (m(q) ++ y) \in Bytestring
  <2> HIDE DEF a, m
  <2>1. QED
    BY <1>2, <1>3, Joined
<1>7. /\ p.allowance = q.allowance
      /\ Text(p.receiver_id) ++ (m(p) ++ x) = Text(q.receiver_id) ++ (m(q) ++ y)
  <2> HIDE DEF m
  <2>1. QED
    BY <1>5, <1>6, AllowanceReads
<1>8. p.receiver_id = q.receiver_id /\ m(p) ++ x = m(q) ++ y
  <2> HIDE DEF m
  <2>1. QED
    BY <1>6, <1>7, TextReads
<1>9. p.method_names = q.method_names /\ x = y
  BY <1>8, TextsRead
<1>10. QED
  BY <1>7, <1>8, <1>9

LEMMA LanesFit ==
    ASSUME NEW n, n \in 1 .. MAX_GAS_KEY_NONCES, n \in Numbers
    PROVE  n \in Nat /\ FitsTwoBytes(n)
<1>1. n \in Nat /\ n <= 1024
  BY DEF MAX_GAS_KEY_NONCES
<1>2. n \div 256 \in 0 .. 255
  BY <1>1
<1>3. QED
  BY <1>1, <1>2 DEF FitsTwoBytes, Byte

\* The permission that a call makes, if it does.
PermissionOf(c) ==
    CASE c.builder = "add_full_access_key" -> [variant |-> "FullAccess"]
      [] c.builder = "add_function_call_key" -> Permission(c)
      [] c.builder = "add_gas_key" -> GasKeyPermission(c)[1]

AddingKeys ==
    [builder : {"add_full_access_key"}, key : Keys]
    \cup [builder : {"add_function_call_key"}, key : Keys, contract_id : {<<t>> : t \in Texts},
          method_names : Several(Texts), allowance : Optional(Numbers)]
    \cup {c \in [builder : {"add_gas_key"}, key : Keys, contract_id : Optional(Texts),
                 method_names : Several(Texts), num_nonces : Numbers] : GasKeyPermission(c) # <<>>}

PermissionTag(c) ==
    CASE c.builder = "add_function_call_key" -> 0
      [] c.builder = "add_full_access_key" -> 1
      [] c.builder = "add_gas_key" /\ c.contract_id # <<>> -> 2
      [] c.builder = "add_gas_key" /\ c.contract_id = <<>> -> 3

\* The parameters of the permission, for a function call.
CallPermission(c) ==
    [allowance |-> IF c.builder = "add_gas_key" THEN <<>> ELSE c.allowance,
     receiver_id |-> c.contract_id[1], method_names |-> c.method_names]

GasKeyOf(c) == GasKeyInfo([balance |-> 0, num_nonces |-> c.num_nonces])

PermissionFields(c) ==
    CASE PermissionTag(c) = 0 -> FunctionCallPermission(CallPermission(c))
      [] PermissionTag(c) = 1 -> <<>>
      [] PermissionTag(c) = 2 -> GasKeyOf(c) ++ FunctionCallPermission(CallPermission(c))
      [] PermissionTag(c) = 3 -> GasKeyOf(c)

LEMMA GasKeyIs ==
    ASSUME NEW c, c \in [builder : {"add_gas_key"}, key : Keys, contract_id : Optional(Texts),
                         method_names : Several(Texts), num_nonces : Numbers], GasKeyPermission(c) # <<>>
    PROVE  /\ FitsTwoBytes(c.num_nonces) /\ GasKeyOf(c) \in Bytestring
           /\ GasKeyOf(c) = U128(0) ++ U16(c.num_nonces)
           /\ U128(0) \in Bytestring /\ U16(c.num_nonces) \in Bytestring
           /\ c.contract_id = <<>> => c.method_names = <<>>
<1>1. /\ c.num_nonces \in 1 .. MAX_GAS_KEY_NONCES
      /\ c.contract_id = <<>> => c.method_names = <<>>
  BY DEF GasKeyPermission
<1>2. c.num_nonces \in Nat /\ FitsTwoBytes(c.num_nonces)
  BY <1>1, LanesFit
<1>3. U128(0) \in Bytestring /\ U16(c.num_nonces) \in Bytestring
  BY <1>2, NumbersAre, U128Type, U16Type
<1>4. GasKeyOf(c) = U128(0) ++ U16(c.num_nonces)
  BY DEF GasKeyOf, GasKeyInfo
<1>5. QED
  BY <1>1, <1>2, <1>3, <1>4, Joined

LEMMA GasKeyReads ==
    ASSUME NEW c, NEW d, NEW x, NEW y, c \in AddingKeys, d \in AddingKeys,
           c.builder = "add_gas_key", d.builder = "add_gas_key",
           x \in Bytestring, y \in Bytestring, GasKeyOf(c) ++ x = GasKeyOf(d) ++ y
    PROVE  c.num_nonces = d.num_nonces /\ x = y
<1> DEFINE Shape(e) == /\ e \in [builder : {"add_gas_key"}, key : Keys, contract_id : Optional(Texts),
                                 method_names : Several(Texts), num_nonces : Numbers]
                       /\ GasKeyPermission(e) # <<>>
<1>1. Shape(c) /\ Shape(d)
  BY DEF AddingKeys
<1>2. /\ FitsTwoBytes(c.num_nonces) /\ FitsTwoBytes(d.num_nonces)
      /\ GasKeyOf(c) = U128(0) ++ U16(c.num_nonces) /\ GasKeyOf(d) = U128(0) ++ U16(d.num_nonces)
      /\ U128(0) \in Bytestring /\ U16(c.num_nonces) \in Bytestring /\ U16(d.num_nonces) \in Bytestring
  BY <1>1, GasKeyIs
<1>3. U128(0) ++ (U16(c.num_nonces) ++ x) = U128(0) ++ (U16(d.num_nonces) ++ y)
  BY <1>2, Regrouped
<1>4. U16(c.num_nonces) ++ x = U16(d.num_nonces) ++ y
  BY <1>2, <1>3, Joined, Rest
<1>5. QED
  BY <1>2, <1>4, U16Reads

LEMMA AddingKeysAre ==
    ASSUME NEW c, c \in AddingKeys
    PROVE  /\ c.builder \in {"add_full_access_key", "add_function_call_key", "add_gas_key"}
           /\ c.key \in Keys
           /\ c.builder = "add_full_access_key" => c \in [builder : {"add_full_access_key"}, key : Keys]
           /\ c.builder = "add_function_call_key" =>
                c \in [builder : {"add_function_call_key"}, key : Keys, contract_id : {<<t>> : t \in Texts},
                       method_names : Several(Texts), allowance : Optional(Numbers)]
           /\ c.builder = "add_gas_key" =>
                /\ c \in [builder : {"add_gas_key"}, key : Keys, contract_id : Optional(Texts),
                          method_names : Several(Texts), num_nonces : Numbers]
                /\ GasKeyPermission(c) # <<>>
BY DEF AddingKeys

LEMMA PermissionTags ==
    ASSUME NEW c, c \in AddingKeys
    PROVE  \/ c.builder = "add_function_call_key" /\ PermissionTag(c) = 0
           \/ c.builder = "add_full_access_key" /\ PermissionTag(c) = 1
           \/ c.builder = "add_gas_key" /\ c.contract_id # <<>> /\ PermissionTag(c) = 2
           \/ c.builder = "add_gas_key" /\ c.contract_id = <<>> /\ PermissionTag(c) = 3
<1>1. c.builder \in {"add_full_access_key", "add_function_call_key", "add_gas_key"}
  BY AddingKeysAre
<1>2. QED
  BY <1>1 DEF PermissionTag

\* With a contract, the parameters of the permission can be read.
LEMMA CallPermissionIs ==
    ASSUME NEW c, c \in AddingKeys, PermissionTag(c) \in {0, 2}
    PROVE  /\ CallPermission(c).allowance \in Optional(Numbers)
           /\ CallPermission(c).receiver_id \in Texts
           /\ CallPermission(c).method_names \in Several(Texts)
           /\ c.contract_id = <<c.contract_id[1]>>
<1>1. c.builder # "add_full_access_key"
  BY AddingKeysAre DEF PermissionTag
<1>2. CASE c.builder = "add_function_call_key"
  <2>1. /\ c.allowance \in Optional(Numbers) /\ c.method_names \in Several(Texts)
        /\ c.contract_id \in {<<t>> : t \in Texts}
    BY <1>2, AddingKeysAre
  <2>2. c.contract_id[1] \in Texts /\ c.contract_id = <<c.contract_id[1]>>
    BY <2>1
  <2>3. QED
    BY <1>2, <2>1, <2>2 DEF CallPermission
<1>3. CASE c.builder = "add_gas_key"
  <2>1. c.method_names \in Several(Texts) /\ c.contract_id \in Optional(Texts)
    BY <1>3, AddingKeysAre
  <2>2. c.contract_id # <<>>
    BY <1>3 DEF PermissionTag
  <2>3. c.contract_id[1] \in Texts /\ c.contract_id = <<c.contract_id[1]>>
    BY <2>1, <2>2, OptionalIs
  <2>4. <<>> \in Optional(Numbers)
    BY DEF Optional
  <2>5. QED
    BY <1>3, <2>1, <2>3, <2>4 DEF CallPermission
<1>4. QED
  BY <1>1, <1>2, <1>3, AddingKeysAre

LEMMA PermissionIs ==
    ASSUME NEW c, c \in AddingKeys
    PROVE  /\ PermissionTag(c) \in Byte /\ PermissionTag(c) \in 0 .. 3
           /\ PermissionFields(c) \in Bytestring
           /\ AccessKeyPermission(PermissionOf(c)) = <<PermissionTag(c)>> ++ PermissionFields(c)
<1>1. \A k \in 0 .. 3 : k \in Byte /\ <<k>> \in Bytestring
  <2>1. \A k \in 0 .. 3 : k \in Byte
    BY DEF Byte
  <2>2. QED
    BY <2>1, TagType
<1>2. CASE c.builder = "add_full_access_key"
  <2>1. PermissionTag(c) = 1 /\ PermissionFields(c) = <<>>
    BY <1>2 DEF PermissionTag, PermissionFields
  <2>2. AccessKeyPermission(PermissionOf(c)) = <<1>>
    BY <1>2 DEF PermissionOf, AccessKeyPermission
  <2>3. QED
    BY <1>1, <2>1, <2>2, EmptyBytes
<1>3. CASE c.builder = "add_function_call_key"
  <2>1. PermissionTag(c) = 0 /\ PermissionFields(c) = FunctionCallPermission(CallPermission(c))
    BY <1>3 DEF PermissionTag, PermissionFields
  <2>2. PermissionFields(c) \in Bytestring
    BY <2>1, CallPermissionIs, FunctionCallPermissionType
  <2>3. FunctionCallPermission(Permission(c)) = FunctionCallPermission(CallPermission(c))
    BY <1>3 DEF FunctionCallPermission, Permission, CallPermission
  <2>4. AccessKeyPermission(PermissionOf(c)) = <<0>> ++ FunctionCallPermission(Permission(c))
    <3>1. PermissionOf(c) = Permission(c) /\ Permission(c).variant = "FunctionCall"
      BY <1>3 DEF PermissionOf, Permission
    <3>2. QED
      BY <3>1 DEF AccessKeyPermission
  <2>5. QED
    BY <1>1, <2>1, <2>2, <2>3, <2>4
<1>4. CASE c.builder = "add_gas_key" /\ c.contract_id = <<>>
  <2>1. PermissionTag(c) = 3 /\ PermissionFields(c) = GasKeyOf(c)
    BY <1>4 DEF PermissionTag, PermissionFields
  <2>2. PermissionFields(c) \in Bytestring
    BY <1>4, <2>1, AddingKeysAre, GasKeyIs
  <2>3. AccessKeyPermission(PermissionOf(c)) = <<3>> ++ GasKeyOf(c)
    <3>1. GasKeyPermission(c) # <<>>
      BY <1>4, AddingKeysAre
    <3>2. PermissionOf(c) = [variant |-> "GasKeyFullAccess",
                             gas_key_info |-> [balance |-> 0, num_nonces |-> c.num_nonces]]
      BY <1>4, <3>1 DEF PermissionOf, GasKeyPermission
    <3>3. QED
      BY <3>2 DEF AccessKeyPermission, GasKeyOf
  <2>4. QED
    BY <1>1, <2>1, <2>2, <2>3
<1>5. CASE c.builder = "add_gas_key" /\ c.contract_id # <<>>
  <2> DEFINE f == FunctionCallPermission(CallPermission(c))
  <2>1. PermissionTag(c) = 2 /\ PermissionFields(c) = GasKeyOf(c) ++ f
    BY <1>5 DEF PermissionTag, PermissionFields
  <2>2. GasKeyOf(c) \in Bytestring /\ f \in Bytestring
    BY <1>5, <2>1, AddingKeysAre, GasKeyIs, CallPermissionIs, FunctionCallPermissionType
  <2>3. AccessKeyPermission(PermissionOf(c)) = <<2>> ++ GasKeyOf(c) ++ f
    <3>1. GasKeyPermission(c) # <<>>
      BY <1>5, AddingKeysAre
    <3>2. PermissionOf(c) = [variant |-> "GasKeyFunctionCall",
                             gas_key_info |-> [balance |-> 0, num_nonces |-> c.num_nonces],
                             function_call |-> CallPermission(c)]
      BY <1>5, <3>1 DEF PermissionOf, GasKeyPermission, CallPermission
    <3>3. QED
      BY <3>2 DEF AccessKeyPermission, GasKeyOf
  <2> HIDE DEF f
  <2>4. <<2>> ++ GasKeyOf(c) ++ f = <<2>> ++ (GasKeyOf(c) ++ f)
    BY <1>1, <2>2, Regrouped
  <2>5. QED
    BY <1>1, <2>1, <2>2, <2>3, <2>4, Joined
<1>6. QED
  BY <1>2, <1>3, <1>4, <1>5, AddingKeysAre

LEMMA PermissionReads ==
    ASSUME NEW c, NEW d, NEW x, NEW y, c \in AddingKeys, d \in AddingKeys,
           x \in Bytestring, y \in Bytestring,
           AccessKeyPermission(PermissionOf(c)) ++ x = AccessKeyPermission(PermissionOf(d)) ++ y
    PROVE  x = y /\ c.builder = d.builder /\ (c.key = d.key => c = d)
<1> DEFINE k == PermissionTag(c)
<1>0. /\ k \in 0 .. 3 /\ <<k>> \in Bytestring /\ <<PermissionTag(d)>> \in Bytestring
      /\ k \in Byte /\ PermissionTag(d) \in Byte
      /\ PermissionFields(c) \in Bytestring /\ PermissionFields(d) \in Bytestring
  BY PermissionIs, TagType
<1>1. <<k>> ++ (PermissionFields(c) ++ x) = <<PermissionTag(d)>> ++ (PermissionFields(d) ++ y)
  BY <1>0, PermissionIs, Regrouped
<1>2. PermissionTag(d) = k /\ PermissionFields(c) ++ x = PermissionFields(d) ++ y
  BY <1>0, <1>1, Joined, TagReads
<1>3. c.builder = d.builder
  BY <1>2, PermissionTags
<1>4. CASE k = 0
  <2>1. c.builder = "add_function_call_key" /\ d.builder = "add_function_call_key"
    BY <1>2, <1>4, PermissionTags
  <2>2. FunctionCallPermission(CallPermission(c)) ++ x = FunctionCallPermission(CallPermission(d)) ++ y
    BY <1>2, <1>4 DEF PermissionFields
  <2>3. /\ CallPermission(c).allowance = CallPermission(d).allowance
        /\ CallPermission(c).receiver_id = CallPermission(d).receiver_id
        /\ CallPermission(c).method_names = CallPermission(d).method_names /\ x = y
    BY <1>2, <1>4, <2>2, CallPermissionIs, FunctionCallPermissionReads
  <2>4. c.allowance = d.allowance /\ c.contract_id[1] = d.contract_id[1] /\ c.method_names = d.method_names
    BY <2>1, <2>3 DEF CallPermission
  <2>5. c.contract_id = d.contract_id
    BY <1>2, <1>4, <2>4, CallPermissionIs
  <2>6. QED
    BY <1>3, <2>1, <2>3, <2>4, <2>5, AddingKeysAre
<1>5. CASE k = 1
  <2>1. c.builder = "add_full_access_key" /\ d.builder = "add_full_access_key"
    BY <1>2, <1>5, PermissionTags
  <2>2. x = y
    BY <1>2, <1>5, EmptyBytes DEF PermissionFields
  <2>3. QED
    BY <2>1, <2>2, AddingKeysAre
<1>6. CASE k = 2
  <2> DEFINE f == FunctionCallPermission(CallPermission(c))
             g == FunctionCallPermission(CallPermission(d))
  <2>1. /\ c.builder = "add_gas_key" /\ d.builder = "add_gas_key"
        /\ c.contract_id # <<>> /\ d.contract_id # <<>>
    BY <1>2, <1>6, PermissionTags
  <2>2. /\ GasKeyOf(c) \in Bytestring /\ GasKeyOf(d) \in Bytestring
        /\ f \in Bytestring /\ g \in Bytestring
    BY <1>2, <1>6, <2>1, AddingKeysAre, GasKeyIs, CallPermissionIs, FunctionCallPermissionType
  <2>3. PermissionFields(c) = GasKeyOf(c) ++ f /\ PermissionFields(d) = GasKeyOf(d) ++ g
    BY <1>2, <1>6 DEF PermissionFields
  <2>4. /\ GasKeyOf(c) ++ (f ++ x) = GasKeyOf(d) ++ (g ++ y)
        /\ f ++ x \in Bytestring /\ g ++ y \in Bytestring
    <3> HIDE DEF f, g
    <3>1. QED
      BY <1>2, <2>2, <2>3, Regrouped, Joined
  <2>5. c.num_nonces = d.num_nonces /\ f ++ x = g ++ y
    BY <2>1, <2>4, GasKeyReads
  <2>6. /\ CallPermission(c).receiver_id = CallPermission(d).receiver_id
        /\ CallPermission(c).method_names = CallPermission(d).method_names /\ x = y
    BY <1>2, <1>6, <2>5, CallPermissionIs, FunctionCallPermissionReads
  <2>7. c.contract_id[1] = d.contract_id[1] /\ c.method_names = d.method_names
    BY <2>6 DEF CallPermission
  <2>8. c.contract_id = d.contract_id
    BY <1>2, <1>6, <2>7, CallPermissionIs
  <2>9. QED
    BY <1>3, <2>1, <2>5, <2>6, <2>7, <2>8, AddingKeysAre
<1>7. CASE k = 3
  <2>1. /\ c.builder = "add_gas_key" /\ d.builder = "add_gas_key"
        /\ c.contract_id = <<>> /\ d.contract_id = <<>>
    BY <1>2, <1>7, PermissionTags
  <2>2. GasKeyOf(c) ++ x = GasKeyOf(d) ++ y
    BY <1>2, <1>7 DEF PermissionFields
  <2>3. c.num_nonces = d.num_nonces /\ x = y
    BY <2>1, <2>2, GasKeyReads
  <2>4. c.method_names = <<>> /\ d.method_names = <<>>
    BY <2>1, AddingKeysAre, GasKeyIs
  <2>5. QED
    BY <2>1, <2>3, <2>4, AddingKeysAre
<1>8. QED
  <2>1. k = 0 \/ k = 1 \/ k = 2 \/ k = 3
    BY <1>0
  <2>2. QED
    BY <1>3, <1>4, <1>5, <1>6, <1>7, <2>1

\* A contract is identified by its hash or by its account.
LEMMA IdentifierIs ==
    ASSUME NEW h, NEW a, h \in Optional(Bytestring), a \in Optional(Texts), ContractIdentifier(h, a) # <<>>
    PROVE  \/ /\ h = <<>> /\ a = <<a[1]>> /\ a[1] \in Texts /\ Text(a[1]) \in Bytestring
              /\ GlobalContractIdentifier(ContractIdentifier(h, a)[1]) = <<1>> ++ Text(a[1])
           \/ /\ a = <<>> /\ h = <<h[1]>> /\ h[1] \in Bytestring /\ Len(h[1]) = 32
              /\ GlobalContractIdentifier(ContractIdentifier(h, a)[1]) = <<0>> ++ h[1]
<1>1. CASE h = <<>>
  <2>1. a # <<>>
    BY <1>1 DEF ContractIdentifier, When
  <2>2. a = <<a[1]>> /\ a[1] \in Texts
    BY <2>1, OptionalIs
  <2>3. ContractIdentifier(h, a)[1] = [variant |-> "AccountId", account_id |-> a[1]]
    BY <1>1, <2>1 DEF ContractIdentifier, When
  <2>4. GlobalContractIdentifier(ContractIdentifier(h, a)[1]) = <<1>> ++ Text(a[1])
    BY <2>3 DEF GlobalContractIdentifier
  <2>5. QED
    BY <1>1, <2>2, <2>4, TextType
<1>2. CASE h # <<>>
  <2>1. a = <<>> /\ Len(h[1]) = 32
    BY <1>2 DEF ContractIdentifier, When
  <2>2. h = <<h[1]>> /\ h[1] \in Bytestring
    BY <1>2, OptionalIs
  <2>3. ContractIdentifier(h, a)[1] = [variant |-> "CodeHash", code_hash |-> h[1]]
    BY <1>2, <2>1 DEF ContractIdentifier, When
  <2>4. GlobalContractIdentifier(ContractIdentifier(h, a)[1]) = <<0>> ++ h[1]
    BY <2>3 DEF GlobalContractIdentifier
  <2>5. QED
    BY <2>1, <2>2, <2>4
<1>3. QED
  BY <1>1, <1>2

LEMMA IdentifierType ==
    ASSUME NEW h, NEW a, h \in Optional(Bytestring), a \in Optional(Texts), ContractIdentifier(h, a) # <<>>
    PROVE  GlobalContractIdentifier(ContractIdentifier(h, a)[1]) \in Bytestring
<1>1. <<0>> \in Bytestring /\ <<1>> \in Bytestring
  BY TagType DEF Byte
<1>2. QED
  BY <1>1, IdentifierIs, Joined

LEMMA IdentifierReads ==
    ASSUME NEW h, NEW a, NEW g, NEW b, NEW x, NEW y,
           h \in Optional(Bytestring), a \in Optional(Texts), ContractIdentifier(h, a) # <<>>,
           g \in Optional(Bytestring), b \in Optional(Texts), ContractIdentifier(g, b) # <<>>,
           x \in Bytestring, y \in Bytestring,
           GlobalContractIdentifier(ContractIdentifier(h, a)[1]) ++ x
              = GlobalContractIdentifier(ContractIdentifier(g, b)[1]) ++ y
    PROVE  h = g /\ a = b /\ x = y
<1>1. 0 \in Byte /\ 1 \in Byte /\ <<0>> \in Bytestring /\ <<1>> \in Bytestring
  <2>1. 0 \in Byte /\ 1 \in Byte
    BY DEF Byte
  <2>2. QED
    BY <2>1, TagType
<1> DEFINE i == GlobalContractIdentifier(ContractIdentifier(h, a)[1])
           j == GlobalContractIdentifier(ContractIdentifier(g, b)[1])
           Named(p, q, z) == /\ p = <<>> /\ q = <<q[1]>> /\ q[1] \in Texts
                             /\ Text(q[1]) \in Bytestring /\ z = <<1>> ++ Text(q[1])
           Hashed(p, q, z) == /\ q = <<>> /\ p = <<p[1]>> /\ p[1] \in Bytestring
                              /\ Len(p[1]) = 32 /\ z = <<0>> ++ p[1]
<1>2. Named(h, a, i) \/ Hashed(h, a, i)
  BY IdentifierIs
<1>3. Named(g, b, j) \/ Hashed(g, b, j)
  BY IdentifierIs
<1>4. i ++ x = j ++ y
  OBVIOUS
<1> HIDE DEF i, j
<1>5. CASE Named(h, a, i) /\ Named(g, b, j)
  <2>1. Text(a[1]) ++ x = Text(b[1]) ++ y
    BY <1>1, <1>4, <1>5, Regrouped, Joined, TagReads
  <2>2. a[1] = b[1] /\ x = y
    BY <1>5, <2>1, TextReads
  <2>3. QED
    BY <1>5, <2>2
<1>6. CASE Hashed(h, a, i) /\ Hashed(g, b, j)
  <2>1. h[1] ++ x = g[1] ++ y
    BY <1>1, <1>4, <1>6, Regrouped, Joined, TagReads
  <2>2. h[1] = g[1] /\ x = y
    BY <1>6, <2>1, Cut
  <2>3. QED
    BY <1>6, <2>2
<1>7. CASE Named(h, a, i) /\ Hashed(g, b, j)
  <2>1. 1 = 0
    BY <1>1, <1>4, <1>7, Regrouped, Joined, TagReads
  <2>2. QED
    BY <2>1
<1>8. CASE Hashed(h, a, i) /\ Named(g, b, j)
  <2>1. 1 = 0
    BY <1>1, <1>4, <1>8, Regrouped, Joined, TagReads
  <2>2. QED
    BY <2>1
<1>9. QED
  BY <1>2, <1>3, <1>5, <1>6, <1>7, <1>8

-------------------------------------------------------------------------------
(* The data of a state.                                                        *)

Entries == [key : Texts, value : Texts]

LEMMA EntryType ==
    ASSUME NEW e, e \in Entries
    PROVE  /\ StateEntry(e) \in Bytestring /\ Text(e.key) \in Bytestring /\ Text(e.value) \in Bytestring
           /\ StateEntry(e) = Text(e.key) ++ Text(e.value) /\ e.key \in Texts /\ e.value \in Texts
<1>1. e.key \in Texts /\ e.value \in Texts
  BY DEF Entries
<1>2. Text(e.key) \in Bytestring /\ Text(e.value) \in Bytestring
  BY <1>1, TextType
<1>3. QED
  BY <1>1, <1>2, Joined DEF StateEntry

LEMMA EntryReads ==
    ASSUME NEW e, NEW f, NEW x, NEW y, e \in Entries, f \in Entries, x \in Bytestring, y \in Bytestring,
           StateEntry(e) ++ x = StateEntry(f) ++ y
    PROVE  e = f /\ x = y
<1>1. Text(e.key) ++ (Text(e.value) ++ x) = Text(f.key) ++ (Text(f.value) ++ y)
  BY EntryType, Regrouped
<1>2. e.key = f.key /\ Text(e.value) ++ x = Text(f.value) ++ y
  BY <1>1, EntryType, Joined, TextReads
<1>3. e.value = f.value /\ x = y
  BY <1>2, EntryType, TextReads
<1>4. QED
  BY <1>2, <1>3 DEF Entries

LEMMA EntriesType ==
    ASSUME NEW a, a \in Several(Entries)
    PROVE  Vector([i \in DOMAIN a |-> StateEntry(a[i])]) \in Bytestring
<1> DEFINE s == [i \in DOMAIN a |-> StateEntry(a[i])]
<1>1. s \in Seq(Bytestring) /\ Len(s) = Len(a)
  BY SeveralIs, EntryType
<1>2. QED
  BY <1>1, SeveralIs, VectorType

LEMMA EntriesRead ==
    ASSUME NEW a, NEW b, NEW x, NEW y, a \in Several(Entries), b \in Several(Entries),
           x \in Bytestring, y \in Bytestring,
           Vector([i \in DOMAIN a |-> StateEntry(a[i])]) ++ x
              = Vector([i \in DOMAIN b |-> StateEntry(b[i])]) ++ y
    PROVE  a = b /\ x = y
<1> DEFINE B == {StateEntry(e) : e \in Entries}
           s == [i \in DOMAIN a |-> StateEntry(a[i])]
           r == [i \in DOMAIN b |-> StateEntry(b[i])]
<1>1. B \subseteq Bytestring
  BY EntryType
<1>2. PrefixFree(B)
  BY EntryReads DEF PrefixFree
<1>3. s \in Seq(B) /\ r \in Seq(B) /\ Len(s) = Len(a) /\ Len(r) = Len(b)
  BY SeveralIs
<1>4. s = r /\ x = y
  <2> HIDE DEF B, s, r
  <2>1. Len(s) \in Numbers /\ Len(r) \in Numbers
    BY <1>3, SeveralIs
  <2>2. Vector(s) ++ x = Vector(r) ++ y
    BY DEF s, r
  <2>3. QED
    BY <1>1, <1>2, <1>3, <2>1, <2>2, VectorReads
<1>5. DOMAIN a = DOMAIN b
  BY <1>4
<1>6. ASSUME NEW i \in DOMAIN a PROVE a[i] = b[i]
  <2>1. a[i] \in Entries /\ b[i] \in Entries /\ s[i] = r[i]
    BY <1>4, <1>5, SeveralIs
  <2>2. StateEntry(a[i]) = StateEntry(b[i])
    BY <1>5, <2>1
  <2>3. QED
    BY <2>1, <2>2, EmptyBytes, EntryReads
<1>7. QED
  BY <1>4, <1>5, <1>6, SeveralIs, SameElements

LEMMA BytesAre ==
    ASSUME NEW a, a \in Bytestring
    PROVE  Len(a) \in Nat /\ \A i \in 1 .. Len(a) : a[i] \in Nat
<1>1. Len(a) \in Nat /\ \A i \in 1 .. Len(a) : a[i] \in Byte
  BY DEF Bytestring
<1>2. Byte \subseteq Nat
  BY DEF Byte
<1>3. QED
  BY <1>1, <1>2

\* The order of the keys is a strict total order.
LEMMA BeforeIsStrict ==
    ASSUME NEW a, a \in Bytestring
    PROVE  ~ Before(a, a)
<1> SUFFICES ASSUME Before(a, a) PROVE FALSE
  OBVIOUS
<1>1. PICK n \in 0 .. Len(a) : n < Len(a) /\ (n = Len(a) \/ a[n + 1] < a[n + 1])
  BY DEF Before
<1>2. n + 1 \in 1 .. Len(a) /\ Len(a) \in Nat
  BY <1>1 DEF Bytestring
<1>3. a[n + 1] \in Nat
  BY <1>2, BytesAre
<1>4. QED
  BY <1>1, <1>2, <1>3

LEMMA BeforeIsTransitive ==
    ASSUME NEW a, NEW b, NEW c, a \in Bytestring, b \in Bytestring, c \in Bytestring,
           Before(a, b), Before(b, c)
    PROVE  Before(a, c)
<1>0. /\ Len(a) \in Nat /\ Len(b) \in Nat /\ Len(c) \in Nat
      /\ \A i \in 1 .. Len(a) : a[i] \in Nat
      /\ \A i \in 1 .. Len(b) : b[i] \in Nat
      /\ \A i \in 1 .. Len(c) : c[i] \in Nat
  BY BytesAre
<1>1. PICK n \in 0 .. Len(a) : /\ n < Len(b) /\ \A j \in 1 .. n : a[j] = b[j]
                               /\ n = Len(a) \/ a[n + 1] < b[n + 1]
  BY DEF Before
<1>2. PICK m \in 0 .. Len(b) : /\ m < Len(c) /\ \A j \in 1 .. m : b[j] = c[j]
                               /\ m = Len(b) \/ b[m + 1] < c[m + 1]
  BY DEF Before
<1>3. CASE n < m
  <2>1. n < Len(c) /\ n + 1 \in 1 .. m
    BY <1>0, <1>1, <1>2, <1>3
  <2>2. \A j \in 1 .. n : a[j] = c[j]
    BY <1>1, <1>2, <1>3
  <2>3. b[n + 1] = c[n + 1]
    BY <1>2, <2>1
  <2>4. n = Len(a) \/ a[n + 1] < c[n + 1]
    BY <1>1, <2>3
  <2>5. QED
    BY <2>1, <2>2, <2>4 DEF Before
<1>4. CASE n = m
  <2>1. \A j \in 1 .. n : a[j] = c[j]
    BY <1>1, <1>2, <1>4
  <2>2. n < Len(c) /\ b[n + 1] < c[n + 1] /\ n + 1 \in 1 .. Len(b) /\ n + 1 \in 1 .. Len(c)
    BY <1>0, <1>1, <1>2, <1>4
  <2>3. n = Len(a) \/ n + 1 \in 1 .. Len(a)
    BY <1>0
  <2>4. n = Len(a) \/ a[n + 1] < c[n + 1]
    BY <1>0, <1>1, <2>2, <2>3
  <2>5. QED
    BY <2>1, <2>2, <2>4 DEF Before
<1>5. CASE m < n
  <2>1. m \in 0 .. Len(a) /\ m + 1 \in 1 .. n
    BY <1>0, <1>1, <1>2, <1>5
  <2>2. \A j \in 1 .. m : a[j] = c[j]
    BY <1>1, <1>2, <1>5
  <2>3. a[m + 1] = b[m + 1] /\ b[m + 1] < c[m + 1]
    BY <1>0, <1>1, <1>2, <1>5, <2>1
  <2>4. a[m + 1] < c[m + 1]
    BY <2>3
  <2>5. QED
    BY <1>2, <2>1, <2>2, <2>4 DEF Before
<1>6. QED
  BY <1>3, <1>4, <1>5

LEMMA BeforeIsTotal ==
    ASSUME NEW a, NEW b, a \in Bytestring, b \in Bytestring, a # b
    PROVE  Before(a, b) \/ Before(b, a)
<1>0. /\ Len(a) \in Nat /\ Len(b) \in Nat
      /\ \A i \in 1 .. Len(a) : a[i] \in Nat
      /\ \A i \in 1 .. Len(b) : b[i] \in Nat
  BY BytesAre
<1> DEFINE T == {n \in Nat : /\ n <= Len(a) /\ n <= Len(b)
                             /\ n = Len(a) \/ n = Len(b) \/ a[n + 1] # b[n + 1]}
<1>1. T # {}
  <2>1. CASE Len(a) <= Len(b)
    <3>1. Len(a) \in T
      BY <1>0, <2>1
    <3>2. QED
      BY <3>1
  <2>2. CASE Len(b) <= Len(a)
    <3>1. Len(b) \in T
      BY <1>0, <2>2
    <3>2. QED
      BY <3>1
  <2>3. QED
    BY <1>0, <2>1, <2>2
<1>2. PICK n \in T : \A m \in T : n <= m
  <2>1. T \subseteq Nat
    OBVIOUS
  <2> HIDE DEF T
  <2>2. QED
    BY <1>1, <2>1, LeastOf
<1>3. ASSUME NEW j \in 1 .. n PROVE a[j] = b[j] /\ b[j] = a[j]
  <2>1. j - 1 \in Nat /\ j - 1 < n /\ (j - 1) + 1 = j /\ n \in Nat
    BY <1>2
  <2>2. j - 1 \notin T
    BY <1>2, <2>1
  <2>3. j - 1 <= Len(a) /\ j - 1 <= Len(b) /\ j - 1 # Len(a) /\ j - 1 # Len(b)
    BY <1>0, <1>2, <2>1
  <2>4. QED
    BY <2>1, <2>2, <2>3
<1>4. /\ n \in Nat /\ n \in 0 .. Len(a) /\ n \in 0 .. Len(b)
      /\ n = Len(a) \/ n = Len(b) \/ a[n + 1] # b[n + 1]
  BY <1>0, <1>2
<1>5. CASE n = Len(a) /\ n = Len(b)
  <2>1. a = b
    BY <1>3, <1>5, SeqEqual DEF Bytestring
  <2>2. QED
    BY <2>1
<1>6. CASE n = Len(a) /\ n # Len(b)
  BY <1>0, <1>3, <1>4, <1>6 DEF Before
<1>7. CASE n # Len(a) /\ n = Len(b)
  BY <1>0, <1>3, <1>4, <1>7 DEF Before
<1>8. CASE n # Len(a) /\ n # Len(b)
  <2>1. n < Len(a) /\ n < Len(b) /\ n + 1 \in 1 .. Len(a) /\ n + 1 \in 1 .. Len(b)
    BY <1>0, <1>4, <1>8
  <2>2. a[n + 1] < b[n + 1] \/ b[n + 1] < a[n + 1]
    BY <1>0, <1>4, <1>8, <2>1
  <2>3. QED
    BY <1>3, <1>4, <2>1, <2>2 DEF Before
<1>9. QED
  BY <1>5, <1>6, <1>7, <1>8

\* The entries as they are to be: every position holds one of them, in order of the keys.
Sorted(a, s) ==
    /\ s \in [DOMAIN a -> ToSet(a)]
    /\ \A i, j \in DOMAIN a : i < j => Before(Utf8[s[i].key], Utf8[s[j].key])

LEMMA EntryKeys ==
    ASSUME NEW a, a \in Several(Entries), ~HasDuplicates(a)
    PROVE  /\ Len(a) \in Nat /\ DOMAIN a = 1 .. Len(a)
           /\ \A i \in DOMAIN a : a[i] \in Entries /\ a[i].key \in Texts /\ Utf8[a[i].key] \in Bytestring
           /\ \A i, j \in DOMAIN a : Utf8[a[i].key] = Utf8[a[j].key] => i = j
<1>1. /\ a \in Seq(Entries) /\ DOMAIN a = 1 .. Len(a)
      /\ \A i \in DOMAIN a : a[i] \in Entries /\ a[i].key \in Texts
  BY SeveralIs, EntryType
<1>2. \A i \in DOMAIN a : Utf8[a[i].key] \in Bytestring
  BY <1>1, TextType
<1>3. \A i, j \in DOMAIN a : Utf8[a[i].key] = Utf8[a[j].key] => a[i].key = a[j].key
  BY <1>1, Utf8Assumption
<1>4. \A i, j \in DOMAIN a : a[i].key = a[j].key => i = j
  BY DEF HasDuplicates
<1>5. Len(a) \in Nat
  BY <1>1
<1>6. QED
  BY <1>1, <1>2, <1>3, <1>4, <1>5

LEMMA Positions ==
    ASSUME NEW n, n \in Nat
    PROVE  IsFiniteSet(1 .. n) /\ Cardinality(1 .. n) = n
BY FS_Interval

LEMMA NoMorePositions ==
    ASSUME NEW m, NEW n, m \in Nat, n \in Nat, NEW p, p \in [1 .. m -> 1 .. n],
           \A i, j \in 1 .. m : p[i] = p[j] => i = j
    PROVE  m <= n
<1>1. IsFiniteSet(1 .. n) /\ Cardinality(1 .. n) = n /\ Cardinality(1 .. m) = m
  BY Positions
<1>2. p \in Injection(1 .. m, 1 .. n)
  BY Fun_IsInj
<1>3. QED
  BY <1>1, <1>2, FS_Injection

\* What maps n positions to n positions, no two to one, reaches every one.
LEMMA EveryPosition ==
    ASSUME NEW m, NEW p, m \in Nat, p \in Injection(1 .. m, 1 .. m)
    PROVE  \A k \in 1 .. m : \E i \in 1 .. m : p[i] = k
<1> DEFINE D == 1 .. m
<1>1. IsFiniteSet(D) /\ Cardinality(D) = m
  BY Positions
<1>2. p \in Injection(D, D)
  OBVIOUS
<1> HIDE DEF D
<1>3. p \in Surjection(D, D)
  BY <1>1, <1>2, FS_Injection
<1>4. \A k \in D : \E i \in D : p[i] = k
  BY <1>3, Fun_SurjectionProperties
<1>5. QED
  BY <1>4 DEF D

\* A strict order in which of any two positions one comes first lines them up: a
\* position's place is the number of those that do not come after it.
LEMMA LinedUp ==
    ASSUME NEW n, n \in Nat, NEW first,
           \A i \in 1 .. n : <<i, i>> \notin first,
           \A i, j, k \in 1 .. n : <<i, j>> \in first /\ <<j, k>> \in first => <<i, k>> \in first,
           \A i, j \in 1 .. n : i # j => <<i, j>> \in first \/ <<j, i>> \in first
    PROVE  \E p \in [1 .. n -> 1 .. n] : \A k, l \in 1 .. n : k < l => <<p[k], p[l]>> \in first
<1> DEFINE D == 1 .. n
           UpTo(i) == {j \in D : j = i \/ <<j, i>> \in first}
           rank == [i \in D |-> Cardinality(UpTo(i))]
<1>1. IsFiniteSet(D) /\ Cardinality(D) = n
  BY Positions
<1>2. \A k \in Nat : k # 0 /\ k <= n => k \in D
  OBVIOUS
<1>3. /\ \A i \in D : <<i, i>> \notin first
      /\ \A i, j, k \in D : <<i, j>> \in first /\ <<j, k>> \in first => <<i, k>> \in first
      /\ \A i, j \in D : i # j => <<i, j>> \in first \/ <<j, i>> \in first
  OBVIOUS
<1> HIDE DEF D
<1>4. ASSUME NEW i \in D
      PROVE  IsFiniteSet(UpTo(i)) /\ Cardinality(UpTo(i)) \in D /\ rank[i] = Cardinality(UpTo(i))
  <2>1. UpTo(i) \in SUBSET D /\ i \in UpTo(i) /\ rank[i] = Cardinality(UpTo(i))
    OBVIOUS
  <2> HIDE DEF UpTo, rank
  <2>2. IsFiniteSet(UpTo(i)) /\ Cardinality(UpTo(i)) <= n
    BY <1>1, <2>1, FS_Subset
  <2>3. Cardinality(UpTo(i)) \in Nat /\ Cardinality(UpTo(i)) # 0
    BY <2>1, <2>2, FS_CardinalityType, FS_EmptySet
  <2>4. QED
    BY <1>2, <2>1, <2>2, <2>3
<1>5. ASSUME NEW i \in D, NEW j \in D, <<i, j>> \in first
      PROVE  rank[i] < rank[j]
  <2>1. UpTo(i) \in SUBSET UpTo(j)
    BY <1>3, <1>5
  <2>2. j \in UpTo(j) /\ j \notin UpTo(i)
    BY <1>3, <1>5
  <2> HIDE DEF UpTo, rank
  <2>3. /\ IsFiniteSet(UpTo(i)) /\ IsFiniteSet(UpTo(j))
        /\ rank[i] = Cardinality(UpTo(i)) /\ rank[j] = Cardinality(UpTo(j))
    BY <1>4
  <2>4. Cardinality(UpTo(i)) \in Nat /\ Cardinality(UpTo(j)) \in Nat
    BY <2>3, FS_CardinalityType
  <2>5. Cardinality(UpTo(i)) <= Cardinality(UpTo(j)) /\ Cardinality(UpTo(i)) # Cardinality(UpTo(j))
    BY <2>1, <2>2, <2>3, FS_Subset
  <2>6. QED
    BY <2>3, <2>4, <2>5
<1>6. \A i \in D : rank[i] \in D
  <2> HIDE DEF UpTo, rank
  <2>1. QED
    BY <1>4
<1>7. rank \in [D -> D]
  BY <1>6
<1> HIDE DEF rank
<1>8. ASSUME NEW i \in D, NEW j \in D, rank[i] = rank[j] PROVE i = j
  <2>1. rank[i] \in Int /\ rank[j] \in Int
    BY <1>6 DEF D
  <2>2. <<i, j>> \notin first /\ <<j, i>> \notin first
    BY <1>5, <1>8, <2>1
  <2>3. QED
    BY <1>3, <2>2
<1>9. \A k \in D : \E i \in D : rank[i] = k
  <2>1. rank \in [1 .. n -> 1 .. n]
    BY <1>7 DEF D
  <2>2. rank \in Injection(1 .. n, 1 .. n)
    BY <1>8, <2>1, Fun_IsInj DEF D
  <2>3. \A k \in 1 .. n : \E i \in 1 .. n : rank[i] = k
    BY <2>2, EveryPosition
  <2>4. QED
    BY <2>3 DEF D
<1> DEFINE p == [k \in D |-> CHOOSE i \in D : rank[i] = k]
<1>10. \A k \in D : p[k] \in D /\ rank[p[k]] = k
  BY <1>9
<1>11. p \in [D -> D]
  BY <1>10
<1> HIDE DEF p
<1>12. ASSUME NEW k \in D, NEW l \in D, k < l
       PROVE  <<p[k], p[l]>> \in first
  <2>1. p[k] \in D /\ p[l] \in D /\ rank[p[k]] = k /\ rank[p[l]] = l
    BY <1>10
  <2>2. k \in Int /\ l \in Int
    BY DEF D
  <2> DEFINE i == p[k]
             j == p[l]
  <2>3. i \in D /\ j \in D /\ rank[i] = k /\ rank[j] = l
    BY <2>1
  <2> HIDE DEF i, j
  <2>4. i # j
    BY <1>12, <2>2, <2>3
  <2>5. <<j, i>> \notin first
    <3>1. <<j, i>> \in first => rank[j] < rank[i]
      BY <1>5, <2>3
    <3>2. QED
      BY <1>12, <2>2, <2>3, <3>1
  <2>6. <<i, j>> \in first
    BY <1>3, <2>3, <2>4, <2>5
  <2>7. QED
    BY <2>6 DEF i, j
<1>13. QED
  BY <1>11, <1>12 DEF D

LEMMA SortedExists ==
    ASSUME NEW a, a \in Several(Entries), ~HasDuplicates(a)
    PROVE  \E s : Sorted(a, s)
<1> DEFINE n == Len(a)
           D == 1 .. n
           first == {e \in D \X D : Before(Utf8[a[e[1]].key], Utf8[a[e[2]].key])}
<1>1. /\ n \in Nat /\ DOMAIN a = D /\ \A i \in D : Utf8[a[i].key] \in Bytestring
      /\ \A i, j \in D : Utf8[a[i].key] = Utf8[a[j].key] => i = j
  BY EntryKeys
<1>2. \A i, j \in D : <<i, j>> \in first <=> Before(Utf8[a[i].key], Utf8[a[j].key])
  OBVIOUS
<1> HIDE DEF n, D, first
<1>3. \A i \in D : <<i, i>> \notin first
  BY <1>1, <1>2, BeforeIsStrict
<1>4. \A i, j, k \in D : <<i, j>> \in first /\ <<j, k>> \in first => <<i, k>> \in first
  BY <1>1, <1>2, BeforeIsTransitive
<1>5. \A i, j \in D : i # j => <<i, j>> \in first \/ <<j, i>> \in first
  BY <1>1, <1>2, BeforeIsTotal
<1>6. PICK p \in [D -> D] : \A k, l \in D : k < l => <<p[k], p[l]>> \in first
  BY <1>1, <1>3, <1>4, <1>5, LinedUp DEF D
<1> DEFINE s == [k \in D |-> a[p[k]]]
<1>7. s \in [DOMAIN a -> ToSet(a)]
  BY <1>1, <1>6 DEF ToSet
<1>8. ASSUME NEW k \in D, NEW l \in D, k < l
      PROVE  Before(Utf8[s[k].key], Utf8[s[l].key])
  <2>1. p[k] \in D /\ p[l] \in D /\ <<p[k], p[l]>> \in first
    BY <1>6, <1>8
  <2>2. QED
    BY <1>2, <2>1
<1>9. Sorted(a, s)
  BY <1>1, <1>7, <1>8 DEF Sorted
<1>10. QED
  BY <1>9

LEMMA CanonicalIsSorted ==
    ASSUME NEW a, a \in Several(Entries), ~HasDuplicates(a)
    PROVE  Sorted(a, CanonicalEntries(a))
<1>1. \E s \in [DOMAIN a -> ToSet(a)] :
          \A i, j \in DOMAIN a : i < j => Before(Utf8[s[i].key], Utf8[s[j].key])
  BY SortedExists DEF Sorted
<1>2. QED
  BY <1>1 DEF CanonicalEntries, Sorted

\* Nothing is lost by sorting.
LEMMA CanonicalIs ==
    ASSUME NEW a, a \in Several(Entries), ~HasDuplicates(a)
    PROVE  CanonicalEntries(a) \in Several(Entries) /\ ToSet(CanonicalEntries(a)) = ToSet(a)
<1> DEFINE s == CanonicalEntries(a)
           n == Len(a)
           D == 1 .. n
<1>0. /\ n \in Nat /\ DOMAIN a = D /\ n \in Numbers /\ \A i \in D : a[i] \in Entries
      /\ \A i \in D : Utf8[a[i].key] \in Bytestring
  BY EntryKeys, SeveralIs
<1>1. s \in [D -> ToSet(a)]
      /\ \A i, j \in D : i < j => Before(Utf8[s[i].key], Utf8[s[j].key])
  BY <1>0, CanonicalIsSorted DEF Sorted
<1> HIDE DEF s
<1>2. \A i \in D : \E j \in D : a[j] = s[i]
  BY <1>0, <1>1 DEF ToSet
<1>3. \A i \in D : s[i] \in Entries /\ Utf8[s[i].key] \in Bytestring
  BY <1>0, <1>2
<1>4. s \in Several(Entries) /\ DOMAIN s = D
  <2>1. s \in [1 .. n -> Entries]
    BY <1>1, <1>3
  <2>2. s \in Seq(Entries) /\ Len(s) = n
    BY <1>0, <2>1
  <2>3. QED
    BY <1>0, <2>1, <2>2 DEF Several
<1> DEFINE q == [i \in D |-> CHOOSE j \in D : a[j] = s[i]]
<1>5. \A i \in D : q[i] \in D /\ a[q[i]] = s[i]
  BY <1>2
<1> HIDE DEF q
<1>6. q \in [D -> D]
  BY <1>5 DEF q
<1>7. ASSUME NEW i \in D, NEW j \in D, q[i] = q[j] PROVE i = j
  <2>1. s[i] = s[j]
    BY <1>5, <1>7
  <2>2. ~ Before(Utf8[s[i].key], Utf8[s[j].key]) /\ ~ Before(Utf8[s[j].key], Utf8[s[i].key])
    BY <1>3, <2>1, BeforeIsStrict
  <2>3. ~ (i < j) /\ ~ (j < i)
    BY <1>1, <2>2
  <2>4. QED
    BY <1>0, <2>3
<1>8. \A k \in D : \E i \in D : q[i] = k
  <2>1. n \in Nat /\ q \in Injection(1 .. n, 1 .. n)
    BY <1>0, <1>6, <1>7, Fun_IsInj
  <2> HIDE DEF n
  <2>2. \A k \in 1 .. n : \E i \in 1 .. n : q[i] = k
    BY <2>1, EveryPosition
  <2>3. QED
    BY <2>2
<1>9. \A k \in D : \E i \in D : s[i] = a[k]
  BY <1>5, <1>8
<1>10. ToSet(s) = ToSet(a)
  <2>1. ToSet(s) = {s[i] : i \in D} /\ ToSet(a) = {a[i] : i \in D}
    BY <1>0, <1>4 DEF ToSet
  <2> HIDE DEF D
  <2>2. QED
    BY <1>2, <1>9, <2>1
<1>11. QED
  BY <1>4, <1>10 DEF s

\* The same entries in another order have the same canonical form.
LEMMA CanonicalIsUnique ==
    ASSUME NEW a, NEW b, a \in Several(Entries), b \in Several(Entries),
           ~HasDuplicates(a), ~HasDuplicates(b), ToSet(a) = ToSet(b)
    PROVE  CanonicalEntries(a) = CanonicalEntries(b)
<1>1. ASSUME NEW s, NEW t, s \in Several(Entries), t \in Several(Entries), ~HasDuplicates(s),
             ToSet(s) = ToSet(t)
      PROVE  Len(s) <= Len(t)
  <2> DEFINE m == Len(s)
             n == Len(t)
             q == [i \in 1 .. m |-> CHOOSE j \in 1 .. n : t[j] = s[i]]
  <2>1. /\ m \in Nat /\ n \in Nat /\ DOMAIN s = 1 .. m /\ DOMAIN t = 1 .. n
        /\ \A i, j \in 1 .. m : Utf8[s[i].key] = Utf8[s[j].key] => i = j
    <3>1. s \in Several(Entries) /\ t \in Several(Entries) /\ ~HasDuplicates(s)
      BY <1>1
    <3>2. Len(s) \in Nat /\ Len(t) \in Nat /\ DOMAIN s = 1 .. Len(s) /\ DOMAIN t = 1 .. Len(t)
      BY <3>1, SeveralIs, NumbersAre
    <3>3. \A i, j \in DOMAIN s : Utf8[s[i].key] = Utf8[s[j].key] => i = j
      BY <3>1, EntryKeys
    <3>4. QED
      BY <3>2, <3>3
  <2>2. \A i \in 1 .. m : \E j \in 1 .. n : t[j] = s[i]
    BY <1>1, <2>1 DEF ToSet
  <2>3. \A i \in 1 .. m : q[i] \in 1 .. n /\ t[q[i]] = s[i]
    BY <2>2
  <2> HIDE DEF q
  <2>4. q \in [1 .. m -> 1 .. n]
    BY <2>3 DEF q
  <2>5. \A i, j \in 1 .. m : q[i] = q[j] => i = j
    BY <2>1, <2>3
  <2>6. QED
    BY <2>1, <2>4, <2>5, NoMorePositions
<1>2. Len(a) <= Len(b) /\ Len(b) <= Len(a)
  BY <1>1
<1>3. DOMAIN a = DOMAIN b
  <2>1. /\ Len(a) \in Nat /\ Len(b) \in Nat /\ DOMAIN a = 1 .. Len(a) /\ DOMAIN b = 1 .. Len(b)
    BY SeveralIs, NumbersAre
  <2> DEFINE m == Len(a)
             n == Len(b)
  <2>2. m = n
    <3>1. m \in Nat /\ n \in Nat /\ m <= n /\ n <= m
      BY <1>2, <2>1
    <3> HIDE DEF m, n
    <3>2. QED
      BY <3>1
  <2>3. QED
    BY <2>1, <2>2
<1>4. QED
  BY <1>3 DEF CanonicalEntries

-------------------------------------------------------------------------------
(* The actions that the constructors make.                                     *)

\* How fields that follow each other are read: the first, then those that are left.
LEMMA InTurn ==
    ASSUME NEW a, NEW b, NEW c, NEW d, NEW e, a \in Bytestring, b \in Bytestring,
           c \in Bytestring, d \in Bytestring, e \in Bytestring
    PROVE  /\ a ++ b \in Bytestring /\ a ++ b ++ c \in Bytestring
           /\ a ++ b ++ c ++ d \in Bytestring /\ a ++ b ++ c ++ d ++ e \in Bytestring
           /\ a ++ b ++ c = a ++ (b ++ c)
           /\ a ++ b ++ c ++ d = a ++ (b ++ c ++ d)
           /\ a ++ b ++ c ++ d ++ e = a ++ (b ++ c ++ d ++ e)
           /\ a ++ b ++ c ++ d = a ++ (b ++ (c ++ d))
           /\ a ++ b ++ c ++ d ++ e = a ++ (b ++ (c ++ (d ++ e)))
<1>1. /\ a ++ b \in Bytestring /\ a ++ b ++ c \in Bytestring /\ a ++ b ++ c ++ d \in Bytestring
      /\ b ++ c \in Bytestring /\ b ++ c ++ d \in Bytestring /\ c ++ d \in Bytestring
      /\ d ++ e \in Bytestring /\ a ++ b ++ c ++ d ++ e \in Bytestring
  BY Joined
<1>2. a ++ b ++ c = a ++ (b ++ c)
  BY Regrouped
<1>3. a ++ b ++ c ++ d = a ++ (b ++ c ++ d) /\ b ++ c ++ d = b ++ (c ++ d)
  <2>1. (a ++ (b ++ c)) ++ d = a ++ ((b ++ c) ++ d)
    BY <1>1, Regrouped
  <2>2. QED
    BY <1>2, <2>1, Regrouped
<1>4. a ++ b ++ c ++ d ++ e = a ++ (b ++ c ++ d ++ e)
  <2>1. (a ++ (b ++ c ++ d)) ++ e = a ++ ((b ++ c ++ d) ++ e)
    BY <1>1, Regrouped
  <2>2. QED
    BY <1>3, <2>1
<1>5. b ++ c ++ d ++ e = b ++ (c ++ (d ++ e))
  <2>1. (b ++ (c ++ d)) ++ e = b ++ ((c ++ d) ++ e)
    BY <1>1, Regrouped
  <2>2. (c ++ d) ++ e = c ++ (d ++ e)
    BY Regrouped
  <2>3. QED
    BY <1>3, <2>1, <2>2
<1>6. QED
  BY <1>1, <1>2, <1>3, <1>4, <1>5

Builders ==
    {"create_account", "deploy_contract", "function_call", "transfer", "stake", "transfer_to_gas_key",
     "withdraw_from_gas_key", "add_full_access_key", "delete_key", "add_function_call_key", "add_gas_key",
     "delete_account", "publish_contract", "use_global_contract", "deterministic_state_init"}

LEMMA ConstructionIs ==
    ASSUME NEW c, c \in Constructions
    PROVE  /\ c.builder \in Builders
           /\ c.builder = "create_account" => c \in [builder : {"create_account"}]
           /\ c.builder = "deploy_contract" => c \in [builder : {"deploy_contract"}, code : Texts]
           /\ c.builder = "function_call" =>
                c \in [builder : {"function_call"}, method : Texts, args : Optional(Texts), gas : Numbers, deposit : Numbers]
           /\ c.builder = "transfer" => c \in [builder : {"transfer"}, amount : Numbers]
           /\ c.builder \in {"stake", "transfer_to_gas_key", "withdraw_from_gas_key"} =>
                c \in [builder : {"stake", "transfer_to_gas_key", "withdraw_from_gas_key"}, amount : Numbers, key : Keys]
           /\ c.builder \in {"add_full_access_key", "delete_key"} =>
                c \in [builder : {"add_full_access_key", "delete_key"}, key : Keys]
           /\ c.builder = "add_function_call_key" =>
                c \in [builder : {"add_function_call_key"}, key : Keys, contract_id : {<<t>> : t \in Texts},
                       method_names : Several(Texts), allowance : Optional(Numbers)]
           /\ c.builder = "add_gas_key" =>
                c \in [builder : {"add_gas_key"}, key : Keys, contract_id : Optional(Texts),
                       method_names : Several(Texts), num_nonces : Numbers]
           /\ c.builder = "delete_account" => c \in [builder : {"delete_account"}, beneficiary_id : Texts]
           /\ c.builder = "publish_contract" => c \in [builder : {"publish_contract"}, code : Texts, identified_by : STRING]
           /\ c.builder = "use_global_contract" =>
                c \in [builder : {"use_global_contract"}, code_hash : Optional(Bytestring), account_id : Optional(Texts)]
           /\ c.builder = "deterministic_state_init" =>
                c \in [builder : {"deterministic_state_init"}, code_hash : Optional(Bytestring),
                       account_id : Optional(Texts), deposit : Numbers, data : Several(Entries)]
BY DEF Constructions, Builders, Entries

Adding == {"add_full_access_key", "add_function_call_key", "add_gas_key"}

\* A call that adds a key has a permission and a key that can be parsed.
LEMMA AddKeyIs ==
    ASSUME NEW c, c \in Constructions, c.builder \in Adding, Build(c) # <<>>
    PROVE  /\ c \in AddingKeys /\ ParsesAsPublicKey(c.key) /\ c.key \in Keys
           /\ Build(c)[1] = [variant |-> "AddKey", public_key |-> PublicKeyValue(c.key),
                             access_key |-> [nonce |-> 0, permission |-> PermissionOf(c)]]
<1>1. CASE c.builder = "add_full_access_key"
  <2>1. Build(c) = AddKey(c.key, <<[variant |-> "FullAccess"]>>)
    BY <1>1 DEF Build
  <2>2. c \in [builder : {"add_full_access_key", "delete_key"}, key : Keys]
    BY <1>1, ConstructionIs
  <2>3. c \in [builder : {"add_full_access_key"}, key : Keys]
    BY <1>1, <2>2
  <2>4. PermissionOf(c) = [variant |-> "FullAccess"]
    BY <1>1 DEF PermissionOf
  <2>5. QED
    BY <2>1, <2>3, <2>4 DEF AddKey, When, AddingKeys
<1>2. CASE c.builder = "add_function_call_key"
  <2>1. Build(c) = AddKey(c.key, <<Permission(c)>>)
    BY <1>2 DEF Build
  <2>2. c \in [builder : {"add_function_call_key"}, key : Keys, contract_id : {<<t>> : t \in Texts},
               method_names : Several(Texts), allowance : Optional(Numbers)]
    BY <1>2, ConstructionIs
  <2>3. PermissionOf(c) = Permission(c)
    BY <1>2 DEF PermissionOf
  <2>4. QED
    BY <2>1, <2>2, <2>3 DEF AddKey, When, AddingKeys
<1>3. CASE c.builder = "add_gas_key"
  <2>1. Build(c) = AddKey(c.key, GasKeyPermission(c))
    BY <1>3 DEF Build
  <2>2. c \in [builder : {"add_gas_key"}, key : Keys, contract_id : Optional(Texts),
               method_names : Several(Texts), num_nonces : Numbers]
    BY <1>3, ConstructionIs
  <2>3. PermissionOf(c) = GasKeyPermission(c)[1]
    BY <1>3 DEF PermissionOf
  <2>4. GasKeyPermission(c) # <<>> /\ ParsesAsPublicKey(c.key)
    BY <2>1 DEF AddKey, When
  <2>5. QED
    BY <2>1, <2>2, <2>3, <2>4 DEF AddKey, When, AddingKeys
<1>4. QED
  BY <1>1, <1>2, <1>3 DEF Adding

ActionTag(c) ==
    CASE c.builder = "create_account"           -> 0
      [] c.builder = "deploy_contract"          -> 1
      [] c.builder = "function_call"            -> 2
      [] c.builder = "transfer"                 -> 3
      [] c.builder = "stake"                    -> 4
      [] c.builder \in Adding                   -> 5
      [] c.builder = "delete_key"               -> 6
      [] c.builder = "delete_account"           -> 7
      [] c.builder = "publish_contract"         -> 9
      [] c.builder = "use_global_contract"      -> 10
      [] c.builder = "deterministic_state_init" -> 11
      [] c.builder = "transfer_to_gas_key"      -> 12
      [] c.builder = "withdraw_from_gas_key"    -> 13

KeyOfCall(c) == PublicKeyWire(PublicKeyValue(c.key))
ModeOf(c) == IF c.identified_by = "hash" THEN <<0>> ELSE <<1>>
IdentifierOf(c) == GlobalContractIdentifier(ContractIdentifier(c.code_hash, c.account_id)[1])
DataOf(c) == LET s == CanonicalEntries(c.data) IN Vector([i \in DOMAIN s |-> StateEntry(s[i])])

\* The bytes that follow the tag.
ActionFields(c) ==
    CASE ActionTag(c) = 0  -> <<>>
      [] ActionTag(c) = 1  -> Text(c.code)
      [] ActionTag(c) = 2  -> Text(c.method) ++ Text(EncodeArgs(c.args)) ++ U64(c.gas) ++ U128(c.deposit)
      [] ActionTag(c) = 3  -> U128(c.amount)
      [] ActionTag(c) = 4  -> U128(c.amount) ++ KeyOfCall(c)
      [] ActionTag(c) = 5  -> KeyOfCall(c) ++ (U64(0) ++ AccessKeyPermission(PermissionOf(c)))
      [] ActionTag(c) = 6  -> KeyOfCall(c)
      [] ActionTag(c) = 7  -> Text(c.beneficiary_id)
      [] ActionTag(c) = 9  -> Text(c.code) ++ ModeOf(c)
      [] ActionTag(c) = 10 -> IdentifierOf(c)
      [] ActionTag(c) = 11 -> (U8(0) ++ IdentifierOf(c) ++ DataOf(c)) ++ U128(c.deposit)
      [] ActionTag(c) = 12 -> KeyOfCall(c) ++ U128(c.amount)
      [] ActionTag(c) = 13 -> KeyOfCall(c) ++ U128(c.amount)

LEMMA SmallTags == \A k \in 0 .. 13 : k \in Byte /\ <<k>> \in Bytestring
<1>1. \A k \in 0 .. 13 : k \in Byte
  BY DEF Byte
<1>2. QED
  BY <1>1, TagType

LEMMA ActionTags ==
    ASSUME NEW c, c \in Constructions
    PROVE  /\ ActionTag(c) \in 0 .. 13 /\ ActionTag(c) \in Byte
           /\ c.builder \in Builders
           /\ ActionTag(c) = 0 <=> c.builder = "create_account"
           /\ ActionTag(c) = 1 <=> c.builder = "deploy_contract"
           /\ ActionTag(c) = 2 <=> c.builder = "function_call"
           /\ ActionTag(c) = 3 <=> c.builder = "transfer"
           /\ ActionTag(c) = 4 <=> c.builder = "stake"
           /\ ActionTag(c) = 5 <=> c.builder \in Adding
           /\ ActionTag(c) = 6 <=> c.builder = "delete_key"
           /\ ActionTag(c) = 7 <=> c.builder = "delete_account"
           /\ ActionTag(c) # 8
           /\ ActionTag(c) = 9 <=> c.builder = "publish_contract"
           /\ ActionTag(c) = 10 <=> c.builder = "use_global_contract"
           /\ ActionTag(c) = 11 <=> c.builder = "deterministic_state_init"
           /\ ActionTag(c) = 12 <=> c.builder = "transfer_to_gas_key"
           /\ ActionTag(c) = 13 <=> c.builder = "withdraw_from_gas_key"
<1>1. c.builder \in Builders
  BY ConstructionIs
<1>2. ActionTag(c) \in 0 .. 13
  BY <1>1 DEF ActionTag, Builders, Adding
<1>3. ActionTag(c) \in Byte
  BY <1>2 DEF Byte
<1>4. QED
  BY <1>1, <1>2, <1>3 DEF ActionTag, Builders, Adding

\* An action is its tag and its fields: of the simple ones, for a start.
LEMMA PlainActionIs ==
    ASSUME NEW c, c \in Constructions, Build(c) # <<>>, ActionTag(c) \in {0, 1, 2, 3, 7, 9}
    PROVE  /\ ActionFields(c) \in Bytestring /\ Build(c)[1].variant # "SignedDelegate"
           /\ NonDelegateAction(Build(c)[1]) = <<ActionTag(c)>> ++ ActionFields(c)
<1>0. \A k \in 0 .. 13 : k \in Byte /\ <<k>> \in Bytestring
  BY SmallTags
<1>1. CASE c.builder = "create_account"
  <2>1. Build(c)[1] = [variant |-> "CreateAccount"]
    BY <1>1 DEF Build
  <2>2. ActionTag(c) = 0 /\ ActionFields(c) = <<>>
    BY <1>1, ActionTags DEF ActionFields
  <2>3. NonDelegateAction(Build(c)[1]) = <<0>>
    BY <2>1 DEF NonDelegateAction
  <2>4. QED
    BY <1>0, <2>1, <2>2, <2>3, EmptyBytes
<1>2. CASE c.builder = "deploy_contract"
  <2>1. Build(c)[1] = [variant |-> "DeployContract", code |-> c.code]
    BY <1>2 DEF Build
  <2>2. ActionTag(c) = 1 /\ ActionFields(c) = Text(c.code)
    BY <1>2, ActionTags DEF ActionFields
  <2>3. NonDelegateAction(Build(c)[1]) = <<1>> ++ Text(c.code)
    BY <2>1 DEF NonDelegateAction
  <2>4. c.code \in Texts
    BY <1>2, ConstructionIs
  <2>5. QED
    BY <2>1, <2>2, <2>3, <2>4, TextType
<1>3. CASE c.builder = "function_call"
  <2>1. Build(c)[1] = [variant |-> "FunctionCall", method_name |-> c.method, args |-> EncodeArgs(c.args),
                       gas |-> c.gas, deposit |-> c.deposit]
    BY <1>3 DEF Build
  <2>2. ActionTag(c) = 2 /\ ActionFields(c) = Text(c.method) ++ Text(EncodeArgs(c.args)) ++ U64(c.gas) ++ U128(c.deposit)
    BY <1>3, ActionTags DEF ActionFields
  <2>3. NonDelegateAction(Build(c)[1])
          = <<2>> ++ Text(c.method) ++ Text(EncodeArgs(c.args)) ++ U64(c.gas) ++ U128(c.deposit)
    BY <2>1 DEF NonDelegateAction
  <2>4. /\ Text(c.method) \in Bytestring /\ Text(EncodeArgs(c.args)) \in Bytestring
        /\ U64(c.gas) \in Bytestring /\ U128(c.deposit) \in Bytestring
    <3>1. c.method \in Texts /\ c.args \in Optional(Texts) /\ c.gas \in Numbers /\ c.deposit \in Numbers
      BY <1>3, ConstructionIs
    <3>2. EncodeArgs(c.args) \in Texts
      BY <3>1, OptionalIs, ActionsAssumption DEF EncodeArgs
    <3>3. QED
      BY <3>1, <3>2, TextType, U64Type, U128Type
  <2>5. <<2>> ++ Text(c.method) ++ Text(EncodeArgs(c.args)) ++ U64(c.gas) ++ U128(c.deposit)
          = <<2>> ++ (Text(c.method) ++ Text(EncodeArgs(c.args)) ++ U64(c.gas) ++ U128(c.deposit))
    BY <1>0, <2>4, InTurn
  <2>6. Text(c.method) ++ Text(EncodeArgs(c.args)) ++ U64(c.gas) ++ U128(c.deposit) \in Bytestring
    BY <2>4, EmptyBytes, InTurn
  <2>7. QED
    BY <2>1, <2>2, <2>3, <2>5, <2>6
<1>4. CASE c.builder = "transfer"
  <2>1. Build(c)[1] = [variant |-> "Transfer", deposit |-> c.amount]
    BY <1>4 DEF Build
  <2>2. ActionTag(c) = 3 /\ ActionFields(c) = U128(c.amount)
    BY <1>4, ActionTags DEF ActionFields
  <2>3. NonDelegateAction(Build(c)[1]) = <<3>> ++ U128(c.amount)
    BY <2>1 DEF NonDelegateAction
  <2>4. c.amount \in Numbers
    BY <1>4, ConstructionIs
  <2>5. QED
    BY <2>1, <2>2, <2>3, <2>4, U128Type
<1>5. CASE c.builder = "delete_account"
  <2>1. Build(c)[1] = [variant |-> "DeleteAccount", beneficiary_id |-> c.beneficiary_id]
    BY <1>5 DEF Build
  <2>2. ActionTag(c) = 7 /\ ActionFields(c) = Text(c.beneficiary_id)
    BY <1>5, ActionTags DEF ActionFields
  <2>3. NonDelegateAction(Build(c)[1]) = <<7>> ++ Text(c.beneficiary_id)
    BY <2>1 DEF NonDelegateAction
  <2>4. c.beneficiary_id \in Texts
    BY <1>5, ConstructionIs
  <2>5. QED
    BY <2>1, <2>2, <2>3, <2>4, TextType
<1>6. CASE c.builder = "publish_contract"
  <2>1. /\ c.identified_by \in {"hash", "account"}
        /\ Build(c)[1] = [variant |-> "DeployGlobalContract", code |-> c.code,
                          deploy_mode |-> DeployMode(c.identified_by)]
    BY <1>6 DEF Build, PublishContract, When
  <2>2. ActionTag(c) = 9 /\ ActionFields(c) = Text(c.code) ++ ModeOf(c)
    BY <1>6, ActionTags DEF ActionFields
  <2>3. GlobalContractDeployMode(DeployMode(c.identified_by)) = ModeOf(c) /\ ModeOf(c) \in Bytestring
    BY <1>0, <2>1 DEF GlobalContractDeployMode, DeployMode, ModeOf
  <2>4. NonDelegateAction(Build(c)[1]) = <<9>> ++ Text(c.code) ++ ModeOf(c)
    BY <2>1, <2>3 DEF NonDelegateAction
  <2>5. c.code \in Texts
    BY <1>6, ConstructionIs
  <2>6. Text(c.code) \in Bytestring /\ Text(c.code) ++ ModeOf(c) \in Bytestring
    BY <2>3, <2>5, TextType, Joined
  <2>7. <<9>> ++ Text(c.code) ++ ModeOf(c) = <<9>> ++ (Text(c.code) ++ ModeOf(c))
    BY <1>0, <2>3, <2>6, Regrouped
  <2>8. QED
    BY <2>1, <2>2, <2>4, <2>6, <2>7
<1>7. QED
  BY <1>1, <1>2, <1>3, <1>4, <1>5, <1>6, ActionTags

\* Those with a key.
LEMMA KeyActionIs ==
    ASSUME NEW c, c \in Constructions, Build(c) # <<>>, ActionTag(c) \in {4, 5, 6, 12, 13}
    PROVE  /\ ActionFields(c) \in Bytestring /\ Build(c)[1].variant # "SignedDelegate"
           /\ NonDelegateAction(Build(c)[1]) = <<ActionTag(c)>> ++ ActionFields(c)
           /\ KeyOfCall(c) \in Bytestring /\ c.key \in Keys /\ ParsesAsPublicKey(c.key)
           /\ ActionTag(c) \in {4, 12, 13} => c.amount \in Numbers
<1>0. \A k \in 0 .. 13 : k \in Byte /\ <<k>> \in Bytestring
  BY SmallTags
<1>1. CASE c.builder \in {"stake", "transfer_to_gas_key", "withdraw_from_gas_key"}
  <2>1. ParsesAsPublicKey(c.key)
    BY <1>1 DEF Build, When
  <2>2. c.amount \in Numbers /\ c.key \in Keys
    BY <1>1, ConstructionIs
  <2>3. U128(c.amount) \in Bytestring /\ KeyOfCall(c) \in Bytestring
    BY <2>1, <2>2, U128Type, KeyType DEF KeyOfCall
  <2>4. U128(c.amount) ++ KeyOfCall(c) \in Bytestring /\ KeyOfCall(c) ++ U128(c.amount) \in Bytestring
    BY <2>3, Joined
  <2>5. CASE c.builder = "stake"
    <3>1. Build(c)[1] = [variant |-> "Stake", stake |-> c.amount, public_key |-> PublicKeyValue(c.key)]
      BY <2>1, <2>5 DEF Build, When
    <3>2. ActionTag(c) = 4 /\ ActionFields(c) = U128(c.amount) ++ KeyOfCall(c)
      BY <2>5, ActionTags DEF ActionFields
    <3>3. NonDelegateAction(Build(c)[1]) = <<4>> ++ U128(c.amount) ++ KeyOfCall(c)
      BY <3>1 DEF NonDelegateAction, KeyOfCall
    <3>4. QED
      BY <1>0, <2>1, <2>2, <2>3, <2>4, <3>1, <3>2, <3>3, Regrouped
  <2>6. CASE c.builder = "transfer_to_gas_key"
    <3>1. Build(c)[1] = [variant |-> "TransferToGasKey", public_key |-> PublicKeyValue(c.key), deposit |-> c.amount]
      BY <2>1, <2>6 DEF Build, When
    <3>2. ActionTag(c) = 12 /\ ActionFields(c) = KeyOfCall(c) ++ U128(c.amount)
      BY <2>6, ActionTags DEF ActionFields
    <3>3. NonDelegateAction(Build(c)[1]) = <<12>> ++ KeyOfCall(c) ++ U128(c.amount)
      BY <3>1 DEF NonDelegateAction, KeyOfCall
    <3>4. QED
      BY <1>0, <2>1, <2>2, <2>3, <2>4, <3>1, <3>2, <3>3, Regrouped
  <2>7. CASE c.builder = "withdraw_from_gas_key"
    <3>1. Build(c)[1] = [variant |-> "WithdrawFromGasKey", public_key |-> PublicKeyValue(c.key), amount |-> c.amount]
      BY <2>1, <2>7 DEF Build, When
    <3>2. ActionTag(c) = 13 /\ ActionFields(c) = KeyOfCall(c) ++ U128(c.amount)
      BY <2>7, ActionTags DEF ActionFields
    <3>3. NonDelegateAction(Build(c)[1]) = <<13>> ++ KeyOfCall(c) ++ U128(c.amount)
      BY <3>1 DEF NonDelegateAction, KeyOfCall
    <3>4. QED
      BY <1>0, <2>1, <2>2, <2>3, <2>4, <3>1, <3>2, <3>3, Regrouped
  <2>8. QED
    BY <1>1, <2>5, <2>6, <2>7
<1>2. CASE c.builder = "delete_key"
  <2>1. ParsesAsPublicKey(c.key) /\ Build(c)[1] = [variant |-> "DeleteKey", public_key |-> PublicKeyValue(c.key)]
    BY <1>2 DEF Build, When
  <2>2. c.key \in Keys /\ KeyOfCall(c) \in Bytestring
    BY <1>2, <2>1, ConstructionIs, KeyType DEF KeyOfCall
  <2>3. ActionTag(c) = 6 /\ ActionFields(c) = KeyOfCall(c)
    BY <1>2, ActionTags DEF ActionFields
  <2>4. NonDelegateAction(Build(c)[1]) = <<6>> ++ KeyOfCall(c)
    BY <2>1 DEF NonDelegateAction, KeyOfCall
  <2>5. QED
    BY <2>1, <2>2, <2>3, <2>4
<1>3. CASE c.builder \in Adding
  <2> DEFINE p == AccessKeyPermission(PermissionOf(c))
  <2>1. /\ c \in AddingKeys /\ ParsesAsPublicKey(c.key) /\ c.key \in Keys
        /\ Build(c)[1] = [variant |-> "AddKey", public_key |-> PublicKeyValue(c.key),
                          access_key |-> [nonce |-> 0, permission |-> PermissionOf(c)]]
    BY <1>3, AddKeyIs
  <2>2. ActionTag(c) = 5 /\ ActionFields(c) = KeyOfCall(c) ++ (U64(0) ++ p)
    BY <1>3, ActionTags DEF ActionFields
  <2>3. NonDelegateAction(Build(c)[1]) = <<5>> ++ KeyOfCall(c) ++ (U64(0) ++ p)
    BY <2>1 DEF NonDelegateAction, KeyOfCall, AccessKey
  <2>4. KeyOfCall(c) \in Bytestring /\ U64(0) \in Bytestring /\ p \in Bytestring
    <3>1. <<PermissionTag(c)>> \in Bytestring
      BY <2>1, PermissionIs, TagType
    <3>2. p \in Bytestring
      BY <2>1, <3>1, PermissionIs, Joined
    <3>3. KeyOfCall(c) \in Bytestring /\ U64(0) \in Bytestring
      BY <2>1, KeyType, NumbersAre, U64Type DEF KeyOfCall
    <3>4. QED
      BY <3>2, <3>3
  <2> HIDE DEF p
  <2>5. QED
    BY <1>0, <2>1, <2>2, <2>3, <2>4, Joined, Regrouped
<1>4. QED
  BY <1>1, <1>2, <1>3, ActionTags

LEMMA ContractActionIs ==
    ASSUME NEW c, c \in Constructions, Build(c) # <<>>, ActionTag(c) \in {10, 11}
    PROVE  /\ ActionFields(c) \in Bytestring /\ Build(c)[1].variant # "SignedDelegate"
           /\ NonDelegateAction(Build(c)[1]) = <<ActionTag(c)>> ++ ActionFields(c)
           /\ c.code_hash \in Optional(Bytestring) /\ c.account_id \in Optional(Texts)
           /\ ContractIdentifier(c.code_hash, c.account_id) # <<>> /\ IdentifierOf(c) \in Bytestring
           /\ ActionTag(c) = 11 =>
                /\ c.data \in Several(Entries) /\ ~HasDuplicates(c.data) /\ c.deposit \in Numbers
                /\ U8(0) \in Bytestring /\ DataOf(c) \in Bytestring
<1>0. \A k \in 0 .. 13 : k \in Byte /\ <<k>> \in Bytestring
  BY SmallTags
<1>1. CASE c.builder = "use_global_contract"
  <2>1. c.code_hash \in Optional(Bytestring) /\ c.account_id \in Optional(Texts)
    BY <1>1, ConstructionIs
  <2>2. /\ ContractIdentifier(c.code_hash, c.account_id) # <<>>
        /\ Build(c)[1] = [variant |-> "UseGlobalContract",
                          contract_identifier |-> ContractIdentifier(c.code_hash, c.account_id)[1]]
    BY <1>1 DEF Build, UseGlobalContract, When
  <2>3. ActionTag(c) = 10 /\ ActionFields(c) = IdentifierOf(c)
    BY <1>1, ActionTags DEF ActionFields
  <2>4. NonDelegateAction(Build(c)[1]) = <<10>> ++ IdentifierOf(c)
    BY <2>2 DEF NonDelegateAction, IdentifierOf
  <2>5. IdentifierOf(c) \in Bytestring
    BY <2>1, <2>2, IdentifierType DEF IdentifierOf
  <2>6. QED
    BY <2>1, <2>2, <2>3, <2>4, <2>5
<1>2. CASE c.builder = "deterministic_state_init"
  <2>1. /\ c.code_hash \in Optional(Bytestring) /\ c.account_id \in Optional(Texts)
        /\ c.data \in Several(Entries) /\ c.deposit \in Numbers
    BY <1>2, ConstructionIs
  <2>2. /\ ~HasDuplicates(c.data) /\ ContractIdentifier(c.code_hash, c.account_id) # <<>>
        /\ Build(c)[1] = [variant |-> "DeterministicStateInit", deposit |-> c.deposit,
                          state_init |-> [version |-> 0, code |-> ContractIdentifier(c.code_hash, c.account_id)[1],
                                          data |-> CanonicalEntries(c.data)]]
    BY <1>2 DEF Build, DeterministicStateInit, When
  <2>3. ActionTag(c) = 11 /\ ActionFields(c) = (U8(0) ++ IdentifierOf(c) ++ DataOf(c)) ++ U128(c.deposit)
    BY <1>2, ActionTags DEF ActionFields
  <2>4. NonDelegateAction(Build(c)[1]) = <<11>> ++ (U8(0) ++ IdentifierOf(c) ++ DataOf(c)) ++ U128(c.deposit)
    BY <2>2 DEF NonDelegateAction, IdentifierOf, DataOf, StateInit
  <2>5. IdentifierOf(c) \in Bytestring
    BY <2>1, <2>2, IdentifierType DEF IdentifierOf
  <2>6. DataOf(c) \in Bytestring
    <3>1. CanonicalEntries(c.data) \in Several(Entries)
      BY <2>1, <2>2, CanonicalIs
    <3>2. QED
      BY <3>1, EntriesType DEF DataOf
  <2>7. U8(0) \in Bytestring /\ U128(c.deposit) \in Bytestring
    BY <2>1, U8Type, U128Type
  <2>8. U8(0) ++ IdentifierOf(c) ++ DataOf(c) \in Bytestring
    BY <2>5, <2>6, <2>7, Joined
  <2>9. QED
    BY <1>0, <2>1, <2>2, <2>3, <2>4, <2>5, <2>6, <2>7, <2>8, Joined, Regrouped
<1>3. QED
  BY <1>1, <1>2, ActionTags

LEMMA ActionIs ==
    ASSUME NEW c, c \in Constructions, Build(c) # <<>>
    PROVE  /\ ActionTag(c) \in Byte /\ <<ActionTag(c)>> \in Bytestring
           /\ ActionFields(c) \in Bytestring
           /\ NonDelegateAction(Build(c)[1]) = <<ActionTag(c)>> ++ ActionFields(c)
           /\ NonDelegateAction(Build(c)[1]) \in Bytestring
           /\ AnyAction(Build(c)[1]) = NonDelegateAction(Build(c)[1])
<1>1. ActionTag(c) \in {0, 1, 2, 3, 7, 9} \cup {4, 5, 6, 12, 13} \cup {10, 11}
  BY ActionTags
<1>2. /\ ActionFields(c) \in Bytestring /\ Build(c)[1].variant # "SignedDelegate"
      /\ NonDelegateAction(Build(c)[1]) = <<ActionTag(c)>> ++ ActionFields(c)
  BY <1>1, PlainActionIs, KeyActionIs, ContractActionIs
<1>3. ActionTag(c) \in Byte /\ <<ActionTag(c)>> \in Bytestring
  BY ActionTags, TagType
<1>4. QED
  BY <1>2, <1>3, Joined DEF AnyAction

LEMMA ActionTagReads ==
    ASSUME NEW c, NEW d, NEW x, NEW y, c \in Constructions, d \in Constructions,
           Build(c) # <<>>, Build(d) # <<>>, x \in Bytestring, y \in Bytestring,
           NonDelegateAction(Build(c)[1]) ++ x = NonDelegateAction(Build(d)[1]) ++ y
    PROVE  ActionTag(c) = ActionTag(d) /\ ActionFields(c) ++ x = ActionFields(d) ++ y
<1>1. /\ ActionTag(c) \in Byte /\ <<ActionTag(c)>> \in Bytestring /\ ActionFields(c) \in Bytestring
      /\ ActionTag(d) \in Byte /\ <<ActionTag(d)>> \in Bytestring /\ ActionFields(d) \in Bytestring
  BY ActionIs
<1>2. <<ActionTag(c)>> ++ (ActionFields(c) ++ x) = <<ActionTag(d)>> ++ (ActionFields(d) ++ y)
  BY <1>1, ActionIs, Regrouped
<1>3. ActionFields(c) ++ x \in Bytestring /\ ActionFields(d) ++ y \in Bytestring
  BY <1>1, Joined
<1>4. QED
  BY <1>1, <1>2, <1>3, TagReads

\* Only two constructors make the same of different arguments.
LEMMA MeaningIs ==
    ASSUME NEW c, c \in Constructions
    PROVE  /\ c.builder \notin {"function_call", "deterministic_state_init"} => Meaning(c) = c
           /\ c.builder = "function_call" => Meaning(c) = [c EXCEPT !.args = EncodeArgs(c.args)]
           /\ c.builder = "deterministic_state_init" => Meaning(c) = [c EXCEPT !.data = ToSet(c.data)]
BY DEF Meaning

LEMMA PlainActionReads ==
    ASSUME NEW c, NEW d, NEW x, NEW y, c \in Constructions, d \in Constructions,
           Build(c) # <<>>, Build(d) # <<>>, x \in Bytestring, y \in Bytestring,
           ActionTag(c) \in {0, 1, 2, 3, 7, 9}, ActionTag(c) = ActionTag(d),
           ActionFields(c) ++ x = ActionFields(d) ++ y
    PROVE  Meaning(c) = Meaning(d) /\ x = y
<1>1. CASE ActionTag(c) = 0
  <2>1. c.builder = "create_account" /\ d.builder = "create_account"
    BY <1>1, ActionTags
  <2>2. c = d
    BY <2>1, ConstructionIs
  <2>3. x = y
    BY <1>1, EmptyBytes DEF ActionFields
  <2>4. QED
    BY <2>2, <2>3
<1>2. CASE ActionTag(c) = 1
  <2>1. c.builder = "deploy_contract" /\ d.builder = "deploy_contract"
    BY <1>2, ActionTags
  <2>2. /\ c \in [builder : {"deploy_contract"}, code : Texts]
        /\ d \in [builder : {"deploy_contract"}, code : Texts]
    BY <2>1, ConstructionIs
  <2>3. Text(c.code) ++ x = Text(d.code) ++ y
    BY <1>2 DEF ActionFields
  <2>4. c.code = d.code /\ x = y
    BY <2>2, <2>3, TextReads
  <2>5. QED
    BY <2>2, <2>4
<1>3. CASE ActionTag(c) = 2
  <2>1. c.builder = "function_call" /\ d.builder = "function_call"
    BY <1>3, ActionTags
  <2> DEFINE Shape == [builder : {"function_call"}, method : Texts, args : Optional(Texts),
                       gas : Numbers, deposit : Numbers]
             a == EncodeArgs(c.args)
             b == EncodeArgs(d.args)
  <2>2. c \in Shape /\ d \in Shape
    BY <2>1, ConstructionIs
  <2>3. /\ c.method \in Texts /\ a \in Texts /\ c.gas \in Numbers /\ c.deposit \in Numbers
        /\ d.method \in Texts /\ b \in Texts /\ d.gas \in Numbers /\ d.deposit \in Numbers
    BY <2>2, OptionalIs, ActionsAssumption DEF EncodeArgs
  <2>4. Text(c.method) ++ Text(a) ++ U64(c.gas) ++ U128(c.deposit) ++ x
          = Text(d.method) ++ Text(b) ++ U64(d.gas) ++ U128(d.deposit) ++ y
    BY <1>3 DEF ActionFields
  <2> HIDE DEF a, b
  <2>5. /\ Text(c.method) \in Bytestring /\ Text(a) \in Bytestring
        /\ U64(c.gas) \in Bytestring /\ U128(c.deposit) \in Bytestring
        /\ Text(d.method) \in Bytestring /\ Text(b) \in Bytestring
        /\ U64(d.gas) \in Bytestring /\ U128(d.deposit) \in Bytestring
    BY <2>3, TextType, U64Type, U128Type
  <2>6. Text(c.method) ++ (Text(a) ++ (U64(c.gas) ++ (U128(c.deposit) ++ x)))
          = Text(d.method) ++ (Text(b) ++ (U64(d.gas) ++ (U128(d.deposit) ++ y)))
    BY <2>4, <2>5, InTurn
  <2>7. /\ U128(c.deposit) ++ x \in Bytestring /\ U128(d.deposit) ++ y \in Bytestring
        /\ U64(c.gas) ++ (U128(c.deposit) ++ x) \in Bytestring
        /\ U64(d.gas) ++ (U128(d.deposit) ++ y) \in Bytestring
        /\ Text(a) ++ (U64(c.gas) ++ (U128(c.deposit) ++ x)) \in Bytestring
        /\ Text(b) ++ (U64(d.gas) ++ (U128(d.deposit) ++ y)) \in Bytestring
    BY <2>5, Joined
  <2>8. /\ c.method = d.method
        /\ Text(a) ++ (U64(c.gas) ++ (U128(c.deposit) ++ x)) = Text(b) ++ (U64(d.gas) ++ (U128(d.deposit) ++ y))
    BY <2>3, <2>6, <2>7, TextReads
  <2>9. a = b /\ U64(c.gas) ++ (U128(c.deposit) ++ x) = U64(d.gas) ++ (U128(d.deposit) ++ y)
    BY <2>3, <2>7, <2>8, TextReads
  <2>10. c.gas = d.gas /\ U128(c.deposit) ++ x = U128(d.deposit) ++ y
    BY <2>3, <2>7, <2>9, U64Reads
  <2>11. c.deposit = d.deposit /\ x = y
    BY <2>3, <2>10, U128Reads
  <2>12. [c EXCEPT !.args = a] = [d EXCEPT !.args = b]
    BY <2>2, <2>8, <2>9, <2>10, <2>11
  <2>13. Meaning(c) = [c EXCEPT !.args = a] /\ Meaning(d) = [d EXCEPT !.args = b]
    BY <2>1, MeaningIs DEF a, b
  <2>14. QED
    BY <2>11, <2>12, <2>13
<1>4. CASE ActionTag(c) = 3
  <2>1. c.builder = "transfer" /\ d.builder = "transfer"
    BY <1>4, ActionTags
  <2>2. c \in [builder : {"transfer"}, amount : Numbers] /\ d \in [builder : {"transfer"}, amount : Numbers]
    BY <2>1, ConstructionIs
  <2>3. U128(c.amount) ++ x = U128(d.amount) ++ y
    BY <1>4 DEF ActionFields
  <2>4. c.amount = d.amount /\ x = y
    BY <2>2, <2>3, U128Reads
  <2>5. QED
    BY <2>2, <2>4
<1>5. CASE ActionTag(c) = 7
  <2>1. c.builder = "delete_account" /\ d.builder = "delete_account"
    BY <1>5, ActionTags
  <2>2. /\ c \in [builder : {"delete_account"}, beneficiary_id : Texts]
        /\ d \in [builder : {"delete_account"}, beneficiary_id : Texts]
    BY <2>1, ConstructionIs
  <2>3. Text(c.beneficiary_id) ++ x = Text(d.beneficiary_id) ++ y
    BY <1>5 DEF ActionFields
  <2>4. c.beneficiary_id = d.beneficiary_id /\ x = y
    BY <2>2, <2>3, TextReads
  <2>5. QED
    BY <2>2, <2>4
<1>6. CASE ActionTag(c) = 9
  <2>1. c.builder = "publish_contract" /\ d.builder = "publish_contract"
    BY <1>6, ActionTags
  <2>2. /\ c \in [builder : {"publish_contract"}, code : Texts, identified_by : STRING]
        /\ d \in [builder : {"publish_contract"}, code : Texts, identified_by : STRING]
    BY <2>1, ConstructionIs
  <2>3. c.identified_by \in {"hash", "account"} /\ d.identified_by \in {"hash", "account"}
    BY <2>1 DEF Build, PublishContract, When
  <2>4. /\ ModeOf(c) = <<IF c.identified_by = "hash" THEN 0 ELSE 1>>
        /\ ModeOf(d) = <<IF d.identified_by = "hash" THEN 0 ELSE 1>>
    BY DEF ModeOf
  <2>5. /\ ModeOf(c) \in Bytestring /\ ModeOf(d) \in Bytestring
        /\ Text(c.code) \in Bytestring /\ Text(d.code) \in Bytestring
    BY <2>2, <2>4, SmallTags, TextType
  <2>6. Text(c.code) ++ (ModeOf(c) ++ x) = Text(d.code) ++ (ModeOf(d) ++ y)
    <3>1. (Text(c.code) ++ ModeOf(c)) ++ x = (Text(d.code) ++ ModeOf(d)) ++ y
      BY <1>6 DEF ActionFields
    <3>2. QED
      BY <2>5, <3>1, Regrouped
  <2>7. c.code = d.code /\ ModeOf(c) ++ x = ModeOf(d) ++ y
    BY <2>2, <2>5, <2>6, Joined, TextReads
  <2>8. (c.identified_by = "hash") = (d.identified_by = "hash") /\ x = y
    <3> DEFINE k == IF c.identified_by = "hash" THEN 0 ELSE 1
               l == IF d.identified_by = "hash" THEN 0 ELSE 1
    <3>1. k \in 0 .. 13 /\ l \in 0 .. 13 /\ <<k>> ++ x = <<l>> ++ y
      BY <2>4, <2>7
    <3>2. k = l /\ x = y
      <4> HIDE DEF k, l
      <4>1. QED
        BY <3>1, SmallTags, TagReads
    <3>3. QED
      BY <3>2
  <2>9. c.identified_by = d.identified_by
    BY <2>3, <2>8
  <2>10. c = d
    BY <2>2, <2>7, <2>9
  <2>11. QED
    BY <2>8, <2>10
<1>7. QED
  BY <1>1, <1>2, <1>3, <1>4, <1>5, <1>6

LEMMA KeyActionReads ==
    ASSUME NEW c, NEW d, NEW x, NEW y, c \in Constructions, d \in Constructions,
           Build(c) # <<>>, Build(d) # <<>>, x \in Bytestring, y \in Bytestring,
           ActionTag(c) \in {4, 5, 6, 12, 13}, ActionTag(c) = ActionTag(d),
           ActionFields(c) ++ x = ActionFields(d) ++ y
    PROVE  c = d /\ x = y
<1>1. /\ KeyOfCall(c) \in Bytestring /\ c.key \in Keys /\ ParsesAsPublicKey(c.key)
      /\ KeyOfCall(d) \in Bytestring /\ d.key \in Keys /\ ParsesAsPublicKey(d.key)
      /\ ActionTag(c) \in {4, 12, 13} => c.amount \in Numbers /\ d.amount \in Numbers
  BY KeyActionIs
<1>2. ASSUME NEW u, NEW v, u \in Bytestring, v \in Bytestring, KeyOfCall(c) ++ u = KeyOfCall(d) ++ v
      PROVE  c.key = d.key /\ u = v
  BY <1>1, <1>2, KeyReads DEF KeyOfCall
<1>3. CASE ActionTag(c) \in {4, 12, 13}
  <2>1. U128(c.amount) \in Bytestring /\ U128(d.amount) \in Bytestring
    BY <1>1, <1>3, U128Type
  <2>2. /\ c.builder = d.builder
        /\ c \in [builder : {"stake", "transfer_to_gas_key", "withdraw_from_gas_key"}, amount : Numbers, key : Keys]
        /\ d \in [builder : {"stake", "transfer_to_gas_key", "withdraw_from_gas_key"}, amount : Numbers, key : Keys]
    BY <1>3, ActionTags, ConstructionIs
  <2>3. c.amount = d.amount /\ c.key = d.key /\ x = y
    <3>1. CASE ActionTag(c) = 4
      <4>1. U128(c.amount) ++ (KeyOfCall(c) ++ x) = U128(d.amount) ++ (KeyOfCall(d) ++ y)
        <5>1. (U128(c.amount) ++ KeyOfCall(c)) ++ x = (U128(d.amount) ++ KeyOfCall(d)) ++ y
          BY <3>1 DEF ActionFields
        <5>2. QED
          BY <1>1, <2>1, <5>1, Regrouped
      <4>2. c.amount = d.amount /\ KeyOfCall(c) ++ x = KeyOfCall(d) ++ y
        BY <1>1, <1>3, <4>1, Joined, U128Reads
      <4>3. QED
        BY <1>2, <4>2
    <3>2. CASE ActionTag(c) \in {12, 13}
      <4>1. KeyOfCall(c) ++ (U128(c.amount) ++ x) = KeyOfCall(d) ++ (U128(d.amount) ++ y)
        <5>1. (KeyOfCall(c) ++ U128(c.amount)) ++ x = (KeyOfCall(d) ++ U128(d.amount)) ++ y
          BY <3>2 DEF ActionFields
        <5>2. QED
          BY <1>1, <2>1, <5>1, Regrouped
      <4>2. c.key = d.key /\ U128(c.amount) ++ x = U128(d.amount) ++ y
        BY <1>2, <2>1, <4>1, Joined
      <4>3. c.amount = d.amount /\ x = y
        BY <1>1, <1>3, <4>2, U128Reads
      <4>4. QED
        BY <4>2, <4>3
    <3>3. QED
      BY <1>3, <3>1, <3>2
  <2>4. QED
    BY <2>2, <2>3
<1>4. CASE ActionTag(c) = 6
  <2>1. /\ c.builder = "delete_key" /\ d.builder = "delete_key"
        /\ c \in [builder : {"add_full_access_key", "delete_key"}, key : Keys]
        /\ d \in [builder : {"add_full_access_key", "delete_key"}, key : Keys]
    BY <1>4, ActionTags, ConstructionIs
  <2>2. c.key = d.key /\ x = y
    BY <1>2, <1>4 DEF ActionFields
  <2>3. QED
    BY <2>1, <2>2
<1>5. CASE ActionTag(c) = 5
  <2> DEFINE p == AccessKeyPermission(PermissionOf(c))
             q == AccessKeyPermission(PermissionOf(d))
  <2>1. c \in AddingKeys /\ d \in AddingKeys
    BY <1>5, ActionTags, AddKeyIs
  <2>2. U64(0) \in Bytestring /\ p \in Bytestring /\ q \in Bytestring
    <3>1. <<PermissionTag(c)>> \in Bytestring /\ <<PermissionTag(d)>> \in Bytestring
      BY <2>1, PermissionIs, TagType
    <3>2. p = <<PermissionTag(c)>> ++ PermissionFields(c) /\ q = <<PermissionTag(d)>> ++ PermissionFields(d)
      BY <2>1, PermissionIs
    <3>3. PermissionFields(c) \in Bytestring /\ PermissionFields(d) \in Bytestring
      BY <2>1, PermissionIs
    <3> HIDE DEF p, q
    <3>4. p \in Bytestring /\ q \in Bytestring
      BY <3>1, <3>2, <3>3, Joined
    <3>5. QED
      BY <3>4, NumbersAre, U64Type
  <2>3. (KeyOfCall(c) ++ (U64(0) ++ p)) ++ x = (KeyOfCall(d) ++ (U64(0) ++ q)) ++ y
    BY <1>5 DEF ActionFields
  <2>4. /\ (KeyOfCall(c) ++ (U64(0) ++ p)) ++ x = KeyOfCall(c) ++ (U64(0) ++ (p ++ x))
        /\ (KeyOfCall(d) ++ (U64(0) ++ q)) ++ y = KeyOfCall(d) ++ (U64(0) ++ (q ++ y))
    <3> HIDE DEF p, q
    <3>1. U64(0) ++ p \in Bytestring /\ U64(0) ++ q \in Bytestring
      BY <2>2, Joined
    <3>2. (U64(0) ++ p) ++ x = U64(0) ++ (p ++ x) /\ (U64(0) ++ q) ++ y = U64(0) ++ (q ++ y)
      BY <2>2, Regrouped
    <3>3. QED
      BY <1>1, <3>1, <3>2, Regrouped
  <2>5. c.key = d.key /\ U64(0) ++ (p ++ x) = U64(0) ++ (q ++ y)
    <3> HIDE DEF p, q
    <3>1. U64(0) ++ (p ++ x) \in Bytestring /\ U64(0) ++ (q ++ y) \in Bytestring
      BY <2>2, Joined
    <3>2. QED
      BY <1>2, <2>3, <2>4, <3>1
  <2>6. p ++ x = q ++ y
    <3> HIDE DEF p, q
    <3>1. p ++ x \in Bytestring /\ q ++ y \in Bytestring
      BY <2>2, Joined
    <3>2. QED
      BY <2>2, <2>5, <3>1, Rest
  <2>7. QED
    BY <2>1, <2>5, <2>6, PermissionReads
<1>6. QED
  BY <1>3, <1>4, <1>5

LEMMA ContractActionReads ==
    ASSUME NEW c, NEW d, NEW x, NEW y, c \in Constructions, d \in Constructions,
           Build(c) # <<>>, Build(d) # <<>>, x \in Bytestring, y \in Bytestring,
           ActionTag(c) \in {10, 11}, ActionTag(c) = ActionTag(d),
           ActionFields(c) ++ x = ActionFields(d) ++ y
    PROVE  Meaning(c) = Meaning(d) /\ x = y
<1>1. /\ c.code_hash \in Optional(Bytestring) /\ c.account_id \in Optional(Texts)
      /\ ContractIdentifier(c.code_hash, c.account_id) # <<>> /\ IdentifierOf(c) \in Bytestring
      /\ d.code_hash \in Optional(Bytestring) /\ d.account_id \in Optional(Texts)
      /\ ContractIdentifier(d.code_hash, d.account_id) # <<>> /\ IdentifierOf(d) \in Bytestring
  BY ContractActionIs
<1>2. ASSUME NEW u, NEW v, u \in Bytestring, v \in Bytestring, IdentifierOf(c) ++ u = IdentifierOf(d) ++ v
      PROVE  c.code_hash = d.code_hash /\ c.account_id = d.account_id /\ u = v
  BY <1>1, <1>2, IdentifierReads DEF IdentifierOf
<1>3. CASE ActionTag(c) = 10
  <2>1. c.builder = "use_global_contract" /\ d.builder = "use_global_contract"
    BY <1>3, ActionTags
  <2>2. /\ c \in [builder : {"use_global_contract"}, code_hash : Optional(Bytestring), account_id : Optional(Texts)]
        /\ d \in [builder : {"use_global_contract"}, code_hash : Optional(Bytestring), account_id : Optional(Texts)]
    BY <2>1, ConstructionIs
  <2>3. c.code_hash = d.code_hash /\ c.account_id = d.account_id /\ x = y
    BY <1>2, <1>3 DEF ActionFields
  <2>4. c = d
    BY <2>2, <2>3
  <2>5. QED
    BY <2>3, <2>4
<1>4. CASE ActionTag(c) = 11
  <2>1. c.builder = "deterministic_state_init" /\ d.builder = "deterministic_state_init"
    BY <1>4, ActionTags
  <2> DEFINE Shape == [builder : {"deterministic_state_init"}, code_hash : Optional(Bytestring),
                       account_id : Optional(Texts), deposit : Numbers, data : Several(Entries)]
  <2>2. c \in Shape /\ d \in Shape
    BY <2>1, ConstructionIs
  <2>3. /\ c.data \in Several(Entries) /\ ~HasDuplicates(c.data) /\ c.deposit \in Numbers
        /\ d.data \in Several(Entries) /\ ~HasDuplicates(d.data) /\ d.deposit \in Numbers
        /\ U8(0) \in Bytestring /\ DataOf(c) \in Bytestring /\ DataOf(d) \in Bytestring
    BY <1>4, ContractActionIs
  <2>4. U128(c.deposit) \in Bytestring /\ U128(d.deposit) \in Bytestring
    BY <2>3, U128Type
  <2>5. /\ U128(c.deposit) ++ x \in Bytestring /\ U128(d.deposit) ++ y \in Bytestring
        /\ DataOf(c) ++ (U128(c.deposit) ++ x) \in Bytestring
        /\ DataOf(d) ++ (U128(d.deposit) ++ y) \in Bytestring
        /\ IdentifierOf(c) ++ (DataOf(c) ++ (U128(c.deposit) ++ x)) \in Bytestring
        /\ IdentifierOf(d) ++ (DataOf(d) ++ (U128(d.deposit) ++ y)) \in Bytestring
    BY <1>1, <2>3, <2>4, Joined
  <2>6. U8(0) ++ (IdentifierOf(c) ++ (DataOf(c) ++ (U128(c.deposit) ++ x)))
          = U8(0) ++ (IdentifierOf(d) ++ (DataOf(d) ++ (U128(d.deposit) ++ y)))
    <3>1. U8(0) ++ IdentifierOf(c) ++ DataOf(c) ++ U128(c.deposit) ++ x
            = U8(0) ++ IdentifierOf(d) ++ DataOf(d) ++ U128(d.deposit) ++ y
      BY <1>4 DEF ActionFields
    <3>2. QED
      BY <1>1, <2>3, <2>4, <3>1, InTurn
  <2>7. IdentifierOf(c) ++ (DataOf(c) ++ (U128(c.deposit) ++ x))
          = IdentifierOf(d) ++ (DataOf(d) ++ (U128(d.deposit) ++ y))
    BY <2>3, <2>5, <2>6, Rest
  <2>8. /\ c.code_hash = d.code_hash /\ c.account_id = d.account_id
        /\ DataOf(c) ++ (U128(c.deposit) ++ x) = DataOf(d) ++ (U128(d.deposit) ++ y)
    BY <1>2, <2>5, <2>7
  <2>9. /\ CanonicalEntries(c.data) \in Several(Entries) /\ ToSet(CanonicalEntries(c.data)) = ToSet(c.data)
        /\ CanonicalEntries(d.data) \in Several(Entries) /\ ToSet(CanonicalEntries(d.data)) = ToSet(d.data)
    BY <2>3, CanonicalIs
  <2>10. CanonicalEntries(c.data) = CanonicalEntries(d.data) /\ U128(c.deposit) ++ x = U128(d.deposit) ++ y
    BY <2>5, <2>8, <2>9, EntriesRead DEF DataOf
  <2>11. c.deposit = d.deposit /\ x = y
    BY <2>3, <2>10, U128Reads
  <2>12. [c EXCEPT !.data = ToSet(c.data)] = [d EXCEPT !.data = ToSet(d.data)]
    <3> DEFINE s == ToSet(c.data)
               t == ToSet(d.data)
    <3>1. s = t
      BY <2>9, <2>10
    <3> HIDE DEF s, t
    <3>2. [c EXCEPT !.data = s] = [d EXCEPT !.data = t]
      BY <2>2, <2>8, <2>11, <3>1
    <3>3. QED
      BY <3>2 DEF s, t
  <2>13. QED
    BY <2>1, <2>11, <2>12, MeaningIs
<1>5. QED
  BY <1>3, <1>4

LEMMA ActionReads ==
    ASSUME NEW c, NEW d, NEW x, NEW y, c \in Constructions, d \in Constructions,
           Build(c) # <<>>, Build(d) # <<>>, x \in Bytestring, y \in Bytestring,
           NonDelegateAction(Build(c)[1]) ++ x = NonDelegateAction(Build(d)[1]) ++ y
    PROVE  Meaning(c) = Meaning(d) /\ x = y
<1>1. ActionTag(c) = ActionTag(d) /\ ActionFields(c) ++ x = ActionFields(d) ++ y
  BY ActionTagReads
<1>2. ActionTag(c) \in {0, 1, 2, 3, 7, 9} \cup {4, 5, 6, 12, 13} \cup {10, 11}
  BY ActionTags
<1>3. CASE ActionTag(c) \in {0, 1, 2, 3, 7, 9}
  BY <1>1, <1>3, PlainActionReads
<1>4. CASE ActionTag(c) \in {4, 5, 6, 12, 13}
  BY <1>1, <1>4, KeyActionReads
<1>5. CASE ActionTag(c) \in {10, 11}
  BY <1>1, <1>5, ContractActionReads
<1>6. QED
  BY <1>2, <1>3, <1>4, <1>5

\* Arguments of the same meaning make the same action.
LEMMA SameMeaning ==
    ASSUME NEW c, NEW d, c \in Constructions, d \in Constructions,
           Build(c) # <<>>, Build(d) # <<>>, Meaning(c) = Meaning(d)
    PROVE  Build(c) = Build(d)
<1>1. c.builder = d.builder
  <2>1. Meaning(c).builder = c.builder /\ Meaning(d).builder = d.builder
    BY ConstructionIs, MeaningIs
  <2>2. QED
    BY <2>1
<1>2. CASE c.builder \notin {"function_call", "deterministic_state_init"}
  BY <1>1, <1>2, MeaningIs
<1>3. CASE c.builder = "function_call"
  <2> DEFINE Shape == [builder : {"function_call"}, method : Texts, args : Optional(Texts),
                       gas : Numbers, deposit : Numbers]
             a == EncodeArgs(c.args)
             b == EncodeArgs(d.args)
  <2>1. c \in Shape /\ d \in Shape
    BY <1>1, <1>3, ConstructionIs
  <2>2. [c EXCEPT !.args = a] = [d EXCEPT !.args = b]
    BY <1>1, <1>3, MeaningIs
  <2>3. c.method = d.method /\ a = b /\ c.gas = d.gas /\ c.deposit = d.deposit
    <3> HIDE DEF a, b
    <3>1. QED
      BY <2>1, <2>2
  <2>4. QED
    BY <1>1, <1>3, <2>3 DEF Build
<1>4. CASE c.builder = "deterministic_state_init"
  <2> DEFINE Shape == [builder : {"deterministic_state_init"}, code_hash : Optional(Bytestring),
                       account_id : Optional(Texts), deposit : Numbers, data : Several(Entries)]
             s == ToSet(c.data)
             t == ToSet(d.data)
  <2>1. c \in Shape /\ d \in Shape
    BY <1>1, <1>4, ConstructionIs
  <2>2. [c EXCEPT !.data = s] = [d EXCEPT !.data = t]
    BY <1>1, <1>4, MeaningIs
  <2>3. c.code_hash = d.code_hash /\ c.account_id = d.account_id /\ c.deposit = d.deposit /\ s = t
    <3> HIDE DEF s, t
    <3>1. QED
      BY <2>1, <2>2
  <2>4. Build(c) = DeterministicStateInit(c) /\ Build(d) = DeterministicStateInit(d)
    BY <1>1, <1>4 DEF Build
  <2>5. ~HasDuplicates(c.data) /\ ~HasDuplicates(d.data)
    BY <2>4 DEF DeterministicStateInit, When
  <2>6. CanonicalEntries(c.data) = CanonicalEntries(d.data)
    BY <2>1, <2>3, <2>5, CanonicalIsUnique
  <2>7. DeterministicStateInit(c) = DeterministicStateInit(d)
    BY <2>3, <2>5, <2>6 DEF DeterministicStateInit
  <2>8. QED
    BY <2>4, <2>7
<1>5. QED
  BY <1>2, <1>3, <1>4

-------------------------------------------------------------------------------
(* The client.                                                                 *)

\* Nobody who can sign is one of the results that are none.
LEMMA WhoIsReal == NoSigner \notin Who /\ Error \notin Who /\ NoSigner # Error
<1>1. \A key \in DOMAIN KeyData : key.curve # Nothing
  BY SigningAssumption DEF Nothing
<1>2. KeyOf(NoSecret).curve = Nothing
  BY DEF KeyOf, NoSecret
<1>3. NoSigner.key = KeyOf(NoSecret) /\ Error.key = KeyOf(NoSecret)
  BY DEF NoSigner, Error
<1>4. NoSigner # Error
  BY DEF NoSigner, Error, Nothing
<1>5. \A who \in Who : who.key \in DOMAIN KeyData
  BY DEF Who
<1>6. QED
  BY <1>1, <1>2, <1>3, <1>4, <1>5

\* A usable credentials file is that of an account, and makes a signer.
LEMMA LoadedSigner ==
    ASSUME NEW account, NEW network, LoadCredentials(account, network) # Error
    PROVE  account # Nothing /\ LoadCredentials(account, network) \in Who
<1> DEFINE file == FileOf(account, network)
           secret == OrSecret(file.private_key, file.secret_key)
<1>1. /\ file.found /\ ParsesAsKey(secret)
      /\ LoadCredentials(account, network)
            = [account |-> Or(file.account_id, account), key |-> KeyOf(secret)]
  BY DEF LoadCredentials
<1>2. /\ network \in DOMAIN Files /\ account \in DOMAIN Files[network]
      /\ file = Files[network][account]
  BY <1>1 DEF FileOf, Missing
<1>3. account \in Accounts /\ file.account_id \in Accounts \cup {Nothing}
  BY <1>2, ProgramAssumption
<1>4. secret \in {file.private_key, file.secret_key}
  BY DEF OrSecret
<1>5. KeyOf(secret) \in DOMAIN KeyData
  BY <1>1, <1>2, <1>4, ProgramAssumption
<1>6. account # Nothing /\ Or(file.account_id, account) \in Accounts
  BY <1>3, SigningAssumption DEF Or
<1>7. QED
  BY <1>1, <1>5, <1>6 DEF Who

\* What ResolveSigner finds can sign, or it found nothing to sign with.
LEMMA ResolvedSigner ==
    ASSUME NEW s \in Sessions, NEW network,
           ResolveSigner(network, s.given, s.env) # Error
    PROVE  /\ ResolveSigner(network, s.given, s.env) \in Who \cup {NoSigner}
           /\ ResolveSigner(network, s.given, s.env) = NoSigner =>
                LET account == Or(s.given.account_id, s.env.account_id)
                IN /\ s.given.signer = NoSigner
                   /\ s.given.private_key = NoSecret /\ s.env.private_key = NoSecret
                   /\ account # Nothing => LoadCredentials(account, network) = Error
<1> DEFINE account == Or(s.given.account_id, s.env.account_id)
           secret == OrSecret(s.given.private_key, s.env.private_key)
           signer == ResolveSigner(network, s.given, s.env)
<1>1. /\ s.given.signer \in Who \cup {NoSigner}
      /\ account \in Accounts \cup {Nothing}
      /\ ParsesAsKey(secret) => KeyOf(secret) \in DOMAIN KeyData
  BY ProgramAssumption DEF Or, OrSecret
<1>2. CASE s.given.signer # NoSigner
  BY <1>1, <1>2 DEF ResolveSigner
<1>3. CASE s.given.signer = NoSigner /\ secret # NoSecret
  <2>1. signer = IF account # Nothing /\ ParsesAsKey(secret)
                 THEN [account |-> account, key |-> KeyOf(secret)] ELSE Error
    BY <1>3 DEF ResolveSigner
  <2>2. signer \in Who
    BY <1>1, <2>1 DEF Who
  <2>3. QED
    BY <2>2, WhoIsReal
<1>4. CASE s.given.signer = NoSigner /\ secret = NoSecret
  <2>1. signer = IF account # Nothing /\ LoadCredentials(account, network) # Error
                 THEN LoadCredentials(account, network) ELSE NoSigner
    BY <1>4 DEF ResolveSigner
  <2>2. s.given.private_key = NoSecret /\ s.env.private_key = NoSecret
    BY <1>4 DEF OrSecret
  <2>3. QED
    BY <1>4, <2>1, <2>2, LoadedSigner, WhoIsReal
<1>5. QED
  BY <1>2, <1>3, <1>4

\* A client that was made has a signer, or a reason to have none.
MadeWell(s, c) ==
    /\ c.signer \in Who \cup {NoSigner}
    /\ c.signer = NoSigner =>
        LET account == Or(s.given.account_id, s.env.account_id)
        IN /\ s.made # "from_file"
           /\ s.given.signer = NoSigner
           /\ s.given.private_key = NoSecret /\ s.env.private_key = NoSecret
           /\ account # Nothing => LoadCredentials(account, c.network) = Error

LEMMA MadeClient ==
    ASSUME NEW s \in Sessions, Make(s).rpc_url # Nothing
    PROVE  MadeWell(s, Make(s))
<1>0. NoClient.rpc_url = Nothing
  BY DEF NoClient, Client
<1>1. s.made \in {"Near", "from_file", "with_signer"}
  BY ProgramAssumption
<1>2. CASE s.made = "Near"
  <2> DEFINE network == ResolveNetwork(s.given, s.env)
             signer == ResolveSigner(network, s.given, s.env)
  <2>1. Make(s) = Construct(s.given, s.env)
    BY <1>2 DEF Make
  <2>2. signer # Error /\ Make(s).signer = signer /\ Make(s).network = network
    BY <1>0, <2>1 DEF Construct, Client
  <2>3. QED
    BY <1>2, <2>2, ResolvedSigner DEF MadeWell
<1>3. CASE s.made = "from_file"
  <2> DEFINE network == Or(s.given.network, "mainnet")
             signer == LoadCredentials(s.given.account_id, network)
  <2>1. Make(s) = FromFile(s.given, s.env)
    BY <1>3 DEF Make
  <2>2. signer # Error /\ Make(s).signer = signer
    BY <1>0, <2>1 DEF FromFile, Client
  <2>3. QED
    BY <2>2, LoadedSigner, WhoIsReal DEF MadeWell
<1>4. CASE s.made = "with_signer"
  <2> DEFINE made == Construct(s.given, s.env)
  <2>1. Make(s) = [made EXCEPT !.signer = s.signer]
    BY <1>4 DEF Make, WithSigner
  <2>2. Make(s).signer = s.signer
    BY <2>1 DEF Construct, NoClient, Client
  <2>3. s.signer \in Who
    BY <1>4, ProgramAssumption
  <2>4. QED
    BY <2>2, <2>3, WhoIsReal DEF MadeWell
<1>5. QED
  BY <1>1, <1>2, <1>3, <1>4

-------------------------------------------------------------------------------
(* The protocol: one signature, one verification.                              *)

TypeOK == session \in Sessions /\ now \in Numbers /\ skew \in Int

MadeInv == pc \in {"ready", "signed"} => client.rpc_url # Nothing /\ client = Make(session)

\* What was signed is what was asked for, a message with the time of its signature
\* when it was given no nonce.
SignedInv ==
    pc = "signed" =>
        LET s == signature[1]
        IN /\ s.signer \in Who /\ s.request \in Requests /\ s.at \in Numbers
           /\ Signable(s.signer, s.request)
           /\ s.request.kind = session.request.kind
           /\ ~IsMessage => s.request = session.request
           /\ IsMessage => s.request.nonce # <<>>
           /\ IsMessage /\ session.request.nonce = <<>> =>
                s.request.nonce[1].timestamp = s.at \div 2

\* The clock stands still once the signature is checked.
CheckedInv ==
    checked # <<>> =>
        /\ pc = "signed"
        /\ checked[1].checksAge \in BOOLEAN /\ (checked[1].checksAge => IsMessage)
        /\ \E c \in Claims : checked[1].claim = Told(c)
        /\ Claimable(checked[1].claim)
        /\ checked[1].at = now
        /\ checked[1].result = Result(checked[1].claim, checked[1].checksAge)

ProtocolInv == TypeOK /\ MadeInv /\ SignedInv /\ CheckedInv

LEMMA ProtocolInit == Init => ProtocolInv
<1> SUFFICES ASSUME Init PROVE ProtocolInv
  OBVIOUS
<1>1. skew \in Int
  BY SigningAssumption DEF Init
<1>2. QED
  BY <1>1, NumbersAre DEF Init, ProtocolInv, TypeOK, MadeInv, SignedInv, CheckedInv

SendRequests ==
    [kind : {"send"}, signer : Who \cup {NoSigner}, receiver : Texts, calls : Several(Constructions),
     nonce : Numbers, lane : Optional(Numbers), strict : BOOLEAN]
DelegateRequests ==
    [kind : {"delegate"}, signer : Who \cup {NoSigner}, receiver : Texts,
     calls : Several(Constructions), nonce : Numbers, max_block_height : Numbers]
MessageRequests ==
    [kind : {"message"}, signer : Who \cup {NoSigner}, message : Texts, recipient : Texts,
     nonce : Optional(MessageNonces), callback_url : Optional(Texts)]

LEMMA RequestKinds ==
    /\ \A r \in Requests : r.kind \in {"send", "delegate", "message"} /\ r.signer \in Who \cup {NoSigner}
    /\ \A r \in Requests : r.kind = "send" => r \in SendRequests
    /\ \A r \in Requests : r.kind = "delegate" => r \in DelegateRequests
    /\ \A r \in Requests : r.kind = "message" => r \in MessageRequests
    /\ Requests = SendRequests \cup DelegateRequests \cup MessageRequests
BY DEF Requests, SendRequests, DelegateRequests, MessageRequests

\* A message's nonce may be replaced by another one.
LEMMA RenoncedMessage ==
    ASSUME NEW r \in Requests, r.kind = "message", NEW nonce \in MessageNonces
    PROVE  [r EXCEPT !.nonce = <<nonce>>] \in Requests
<1>1. <<nonce>> \in Optional(MessageNonces)
  BY DEF Optional
<1>2. QED
  BY <1>1, RequestKinds DEF MessageRequests

LEMMA AskedIsRequest ==
    ASSUME TypeOK
    PROVE  /\ Asked \in Requests /\ Asked.kind = session.request.kind
           /\ ~IsMessage => Asked = session.request
           /\ IsMessage => Asked.nonce # <<>>
           /\ IsMessage /\ session.request.nonce = <<>> =>
                Asked.nonce[1].timestamp = now \div 2
<1>1. session.request \in Requests
  BY ProgramAssumption DEF TypeOK
<1>2. CASE IsMessage /\ session.request.nonce = <<>>
  <2> DEFINE nonce == [timestamp |-> Timestamp, random |-> Random]
  <2>1. nonce \in MessageNonces
    <3>1. now \div 2 \in Numbers
      BY NumbersAre DEF TypeOK
    <3>2. QED
      BY <3>1, SigningAssumption DEF MessageNonces, Timestamp
  <2>2. Asked = [session.request EXCEPT !.nonce = <<nonce>>]
    BY <1>2 DEF Asked
  <2>3. session.request \in MessageRequests
    BY <1>1, <1>2, RequestKinds DEF IsMessage
  <2>4. Asked \in Requests
    BY <1>1, <1>2, <2>1, <2>2, RenoncedMessage DEF IsMessage
  <2>5. Asked.kind = session.request.kind /\ Asked.nonce = <<nonce>>
    BY <2>2, <2>3 DEF MessageRequests
  <2>6. QED
    BY <1>2, <2>4, <2>5 DEF Timestamp
<1>3. CASE ~(IsMessage /\ session.request.nonce = <<>>)
  BY <1>1, <1>3 DEF Asked
<1>4. QED
  BY <1>2, <1>3

LEMMA ProtocolStep == ProtocolInv /\ [Next]_vars => ProtocolInv'
<1> SUFFICES ASSUME ProtocolInv, [Next]_vars PROVE ProtocolInv'
  OBVIOUS
<1> USE DEF ProtocolInv
<1>1. CASE MakeClient
  <2>1. UNCHANGED <<session, now, skew, signature, checked>> /\ pc' # "signed" /\ checked = <<>>
    BY <1>1 DEF MakeClient, CheckedInv
  <2>2. QED
    BY <1>1, <2>1 DEF MakeClient, TypeOK, MadeInv, SignedInv, CheckedInv
<1>2. CASE Sign
  <2> DEFINE signer == Active(client, session.request.signer)
  <2>1. /\ UNCHANGED <<session, client, now, skew, checked>> /\ checked = <<>>
        /\ pc = "ready"
        /\ \/ /\ Signable(signer, Asked) /\ pc' = "signed"
              /\ signature' = <<[signer |-> signer, request |-> Asked, at |-> now]>>
           \/ pc' = "refused"
    BY <1>2 DEF Sign, CheckedInv
  <2>2. TypeOK' /\ MadeInv' /\ CheckedInv'
    BY <2>1 DEF TypeOK, MadeInv, CheckedInv
  <2>3. SignedInv'
    <3>1. CASE pc' = "refused"
      BY <3>1 DEF SignedInv
    <3>2. CASE Signable(signer, Asked)
               /\ signature' = <<[signer |-> signer, request |-> Asked, at |-> now]>>
      <4>1. client.signer \in Who \cup {NoSigner}
        BY <2>1, MadeClient DEF MadeInv, TypeOK, MadeWell
      <4>2. session.request.signer \in Who \cup {NoSigner}
        <5>1. session.request \in Requests
          BY ProgramAssumption DEF TypeOK
        <5>2. QED
          BY <5>1, RequestKinds
      <4>3. signer \in Who
        BY <3>2, <4>1, <4>2 DEF Active, Signable
      <4>4. /\ signature[1]'.signer = signer /\ signature[1]'.request = Asked
            /\ signature[1]'.at = now
        BY <3>2
      <4>5. IsMessage' = IsMessage /\ session' = session
        BY <2>1 DEF IsMessage
      <4>6. QED
        BY <3>2, <4>3, <4>4, <4>5, AskedIsRequest DEF SignedInv, TypeOK, Signable
    <3>3. QED
      BY <2>1, <3>1, <3>2
  <2>4. QED
    BY <2>2, <2>3
<1>3. CASE Tick
  <2>1. /\ UNCHANGED <<session, client, pc, skew, signature, checked>> /\ checked = <<>>
        /\ now' = now + 1 /\ now < MaxClock
    BY <1>3 DEF Tick
  <2>2. now' \in Numbers
    BY <2>1, SigningAssumption, NumbersAre DEF TypeOK
  <2>3. SignedInv'
    BY <2>1 DEF SignedInv, Signable, IsMessage
  <2>4. QED
    BY <2>1, <2>2, <2>3 DEF TypeOK, MadeInv, CheckedInv
<1>4. CASE Verify
  <2>1. UNCHANGED <<session, client, pc, now, skew, signature>> /\ pc = "signed"
    BY <1>4 DEF Verify
  <2>2. TypeOK' /\ MadeInv' /\ SignedInv'
    BY <2>1 DEF TypeOK, MadeInv, SignedInv, Signable, IsMessage
  <2>3. PICK c \in Claims, checksAge \in (IF IsMessage THEN BOOLEAN ELSE {FALSE}) :
            /\ Claimable(Told(c))
            /\ checked' = <<[claim |-> Told(c), checksAge |-> checksAge, at |-> now,
                             result |-> Result(Told(c), checksAge)]>>
    BY <1>4 DEF Verify
  <2>4. /\ checked[1]'.claim = Told(c) /\ checked[1]'.checksAge = checksAge
        /\ checked[1]'.at = now /\ checked[1]'.result = Result(Told(c), checksAge)
    BY <2>3
  <2>5. Told(c)' = Told(c) /\ Claimable(Told(c))' = Claimable(Told(c))
        /\ Result(Told(c), checksAge)' = Result(Told(c), checksAge) /\ IsMessage' = IsMessage
    BY <2>1 DEF Told, Claimable, Signable, Result, VerifyMessage, TooOld, Age, SignedBytes, IsMessage
  <2>6. checksAge \in BOOLEAN /\ (checksAge => IsMessage)
    OBVIOUS
  <2>7. CheckedInv'
    BY <2>1, <2>3, <2>4, <2>5, <2>6 DEF CheckedInv, Told, Claimable, Signable, Result, VerifyMessage,
       TooOld, Age, SignedBytes, IsMessage
  <2>8. QED
    BY <2>2, <2>7
<1>5. CASE UNCHANGED vars
  BY <1>5 DEF vars, TypeOK, MadeInv, SignedInv, CheckedInv, Told, Claimable, Signable, Result,
     VerifyMessage, TooOld, Age, SignedBytes, IsMessage
<1>6. QED
  BY <1>1, <1>2, <1>3, <1>4, <1>5 DEF Next, Done

LEMMA ProtocolAlways == Spec => []ProtocolInv
BY ProtocolInit, ProtocolStep, PTL DEF Spec

\* A client cannot sign only because nothing gave it a key.
THEOREM NoKeyForAReason == Spec => []ReadOnlyForAReason
<1>1. ProtocolInv => ReadOnlyForAReason
  <2> SUFFICES ASSUME ProtocolInv, pc = "ready", client.signer = NoSigner
               PROVE  MadeWell(session, client)
    BY DEF ReadOnlyForAReason, MadeWell
  <2>1. QED
    BY MadeClient DEF ProtocolInv, TypeOK, MadeInv
<1>2. QED
  BY <1>1, ProtocolAlways, PTL

\* An age that is measured from whole milliseconds is half of one too much at most.
LEMMA AgeIsRoundedUp ==
    ASSUME NEW n \in Nat, NEW k \in Int, NEW at \in Nat, NEW max \in Nat
    PROVE  LET age == n + k - at
               measured == n + k - 2 * (at \div 2)
           IN /\ age \in 0 .. 2 * max - 1 => 0 <= measured /\ measured <= 2 * max
              /\ 0 <= measured /\ measured <= 2 * max => age \in -1 .. 2 * max
OBVIOUS

\* A message with a timestamp is accepted while it is not older than max_age_ms, by a
\* clock that may be ahead of the signer's, and never after.
THEOREM MessagesLiveTheirTime == Spec => []MessageLivesItsTime
<1>1. ProtocolInv => MessageLivesItsTime
  <2> DEFINE age == checked[1].at + skew - signature[1].at
             claim == checked[1].claim
             nonce == claim.nonce[1]
  <2> SUFFICES ASSUME ProtocolInv, checked # <<>>, checked[1].checksAge,
                      claim = signature[1].request, session.request.nonce = <<>>
               PROVE  /\ age \in 0 .. 2 * MaxAge - 1 => checked[1].result
                      /\ checked[1].result => age \in -1 .. 2 * MaxAge
    BY DEF MessageLivesItsTime
  <2>1. /\ pc = "signed" /\ IsMessage /\ checked[1].at = now
        /\ checked[1].result = Result(claim, checked[1].checksAge)
    BY DEF ProtocolInv, CheckedInv
  <2>2. /\ claim \in Requests /\ claim.kind = "message" /\ Len(NonceBytes(nonce)) = 32
        /\ nonce.timestamp = signature[1].at \div 2 /\ signature[1].at \in Numbers
    BY <2>1 DEF ProtocolInv, SignedInv, Signable, IsMessage
  <2>3. SignedBytes = MessageBytes(claim)
    BY <2>2 DEF SignedBytes, Bytes
  <2>4. checked[1].result = ~TooOld(nonce)
    BY <2>1, <2>2, <2>3 DEF Result, VerifyMessage
  <2>5. Age(nonce) = now + skew - 2 * (signature[1].at \div 2)
    BY <2>2 DEF Age
  <2>6. now \in Nat /\ skew \in Int /\ signature[1].at \in Nat
    BY <2>2, NumbersAre DEF ProtocolInv, TypeOK
  <2>7. MaxAge \in Nat
    BY SigningAssumption
  <2>8. checked[1].result <=> ~(Age(nonce) > 2 * MaxAge \/ Age(nonce) < 0)
    BY <2>4 DEF TooOld
  <2>9. age = now + skew - signature[1].at
    BY <2>1
  <2> HIDE DEF age, claim, nonce
  <2>10. /\ age \in 0 .. 2 * MaxAge - 1 => 0 <= Age(nonce) /\ Age(nonce) <= 2 * MaxAge
         /\ 0 <= Age(nonce) /\ Age(nonce) <= 2 * MaxAge => age \in -1 .. 2 * MaxAge
    BY <2>5, <2>6, <2>7, <2>9, AgeIsRoundedUp
  <2>11. Age(nonce) \in Int
    BY <2>5, <2>6
  <2>12. QED
    BY <2>7, <2>8, <2>10, <2>11
<1>2. QED
  BY <1>1, ProtocolAlways, PTL

-------------------------------------------------------------------------------
(* The actions of several calls.                                               *)

Wired(calls) == Vector([i \in DOMAIN calls |-> NonDelegateAction(Build(calls[i])[1])])
Meanings(calls) == [i \in DOMAIN calls |-> Meaning(calls[i])]

LEMMA WiredIs ==
    ASSUME NEW a, a \in Several(Constructions), Builds(a)
    PROVE  /\ Wired(a) \in Bytestring
           /\ AnyActions(BuildAll(a)) = Wired(a)
           /\ Vector([i \in DOMAIN BuildAll(a) |-> NonDelegateAction(BuildAll(a)[i])]) = Wired(a)
<1> DEFINE s == [i \in DOMAIN a |-> NonDelegateAction(Build(a[i])[1])]
<1>1. \A i \in DOMAIN a : a[i] \in Constructions /\ Build(a[i]) # <<>>
  BY SeveralIs DEF Builds
<1>2. \A i \in DOMAIN a : /\ NonDelegateAction(Build(a[i])[1]) \in Bytestring
                          /\ AnyAction(Build(a[i])[1]) = NonDelegateAction(Build(a[i])[1])
  BY <1>1, ActionIs
<1>3. s \in Seq(Bytestring) /\ Len(s) \in Numbers
  <2>1. DOMAIN a = 1 .. Len(a) /\ Len(a) \in Nat /\ Len(a) \in Numbers
    BY SeveralIs, NumbersAre
  <2>2. s \in [1 .. Len(a) -> Bytestring]
    BY <1>2, <2>1
  <2>3. s \in Seq(Bytestring) /\ Len(s) = Len(a)
    BY <2>1, <2>2
  <2>4. QED
    BY <2>1, <2>3
<1>4. Wired(a) \in Bytestring
  <2> HIDE DEF s
  <2>1. Vector(s) \in Bytestring
    BY <1>3, VectorType
  <2>2. QED
    BY <2>1 DEF Wired, s
<1>5. /\ [i \in DOMAIN BuildAll(a) |-> AnyAction(BuildAll(a)[i])] = s
      /\ [i \in DOMAIN BuildAll(a) |-> NonDelegateAction(BuildAll(a)[i])] = s
  <2>1. DOMAIN BuildAll(a) = DOMAIN a /\ \A i \in DOMAIN a : BuildAll(a)[i] = Build(a[i])[1]
    BY DEF BuildAll
  <2>2. QED
    BY <1>2, <2>1
<1>6. QED
  BY <1>4, <1>5 DEF AnyActions, Wired

LEMMA CallsRead ==
    ASSUME NEW a, NEW b, NEW x, NEW y, a \in Several(Constructions), b \in Several(Constructions),
           Builds(a), Builds(b), x \in Bytestring, y \in Bytestring, Wired(a) ++ x = Wired(b) ++ y
    PROVE  Meanings(a) = Meanings(b) /\ x = y
<1> DEFINE C == {c \in Constructions : Build(c) # <<>>}
           B == {NonDelegateAction(Build(c)[1]) : c \in C}
           s == [i \in DOMAIN a |-> NonDelegateAction(Build(a[i])[1])]
           r == [i \in DOMAIN b |-> NonDelegateAction(Build(b[i])[1])]
<1>1. /\ \A i \in DOMAIN a : a[i] \in C
      /\ \A i \in DOMAIN b : b[i] \in C
      /\ DOMAIN a = 1 .. Len(a) /\ Len(a) \in Numbers /\ Len(a) \in Nat
      /\ DOMAIN b = 1 .. Len(b) /\ Len(b) \in Numbers /\ Len(b) \in Nat
  BY SeveralIs, NumbersAre DEF Builds
<1>2. B \subseteq Bytestring
  BY ActionIs
<1>3. PrefixFree(B)
  <2> SUFFICES ASSUME NEW c \in C, NEW d \in C, NEW u \in Bytestring, NEW v \in Bytestring,
                      NonDelegateAction(Build(c)[1]) ++ u = NonDelegateAction(Build(d)[1]) ++ v
               PROVE  NonDelegateAction(Build(c)[1]) = NonDelegateAction(Build(d)[1])
    BY DEF PrefixFree
  <2>1. Meaning(c) = Meaning(d)
    BY ActionReads
  <2>2. Build(c) = Build(d)
    BY <2>1, SameMeaning
  <2>3. QED
    BY <2>2
<1>4. s \in Seq(B) /\ r \in Seq(B) /\ Len(s) \in Numbers /\ Len(r) \in Numbers
  <2>1. s \in [1 .. Len(a) -> B] /\ r \in [1 .. Len(b) -> B]
    BY <1>1
  <2>2. /\ s \in Seq(B) /\ Len(s) = Len(a)
        /\ r \in Seq(B) /\ Len(r) = Len(b)
    <3> HIDE DEF s, r, B
    <3>1. QED
      BY <1>1, <2>1
  <2>3. QED
    BY <1>1, <2>2
<1>5. s = r /\ x = y
  <2> HIDE DEF B, s, r
  <2>1. Vector(s) ++ x = Vector(r) ++ y
    BY DEF s, r, Wired
  <2>2. QED
    BY <1>2, <1>3, <1>4, <2>1, VectorReads
<1>6. DOMAIN a = DOMAIN b
  BY <1>5
<1>7. ASSUME NEW i \in DOMAIN a PROVE Meaning(a[i]) = Meaning(b[i])
  <2>1. a[i] \in C /\ b[i] \in C /\ s[i] = r[i]
    BY <1>1, <1>5, <1>6
  <2>2. NonDelegateAction(Build(a[i])[1]) = NonDelegateAction(Build(b[i])[1])
    BY <1>6, <2>1
  <2>3. QED
    BY <2>1, <2>2, EmptyBytes, ActionReads
<1>8. QED
  BY <1>5, <1>6, <1>7 DEF Meanings

LEMMA SameCalls ==
    ASSUME NEW a, NEW b, a \in Several(Constructions), b \in Several(Constructions),
           Builds(a), Builds(b), Meanings(a) = Meanings(b)
    PROVE  Wired(a) = Wired(b)
<1>1. DOMAIN a = DOMAIN b /\ \A i \in DOMAIN a : Meaning(a[i]) = Meaning(b[i])
  <2>1. DOMAIN Meanings(a) = DOMAIN a /\ DOMAIN Meanings(b) = DOMAIN b
    BY DEF Meanings
  <2>2. /\ \A i \in DOMAIN a : Meanings(a)[i] = Meaning(a[i])
        /\ \A i \in DOMAIN b : Meanings(b)[i] = Meaning(b[i])
    BY DEF Meanings
  <2>3. QED
    BY <2>1, <2>2
<1>2. \A i \in DOMAIN a : Build(a[i]) = Build(b[i])
  BY <1>1, SeveralIs, SameMeaning DEF Builds
<1>3. QED
  BY <1>1, <1>2 DEF Wired

LEMMA FourInTurn ==
    ASSUME NEW a, NEW b, NEW c, NEW d, a \in Bytestring, b \in Bytestring, c \in Bytestring, d \in Bytestring
    PROVE  a ++ b ++ c ++ d = a ++ (b ++ (c ++ d))
BY EmptyBytes, InTurn

LEMMA SixInTurn ==
    ASSUME NEW a, NEW b, NEW c, NEW d, NEW e, NEW f, a \in Bytestring, b \in Bytestring,
           c \in Bytestring, d \in Bytestring, e \in Bytestring, f \in Bytestring
    PROVE  a ++ b ++ c ++ d ++ e ++ f = a ++ (b ++ (c ++ (d ++ (e ++ f))))
<1> DEFINE p == a ++ b
<1>1. p \in Bytestring
  BY Joined
<1>2. p ++ c ++ d ++ e ++ f = p ++ (c ++ (d ++ (e ++ f)))
  <2> HIDE DEF p
  <2>1. QED
    BY <1>1, InTurn
<1>3. c ++ (d ++ (e ++ f)) \in Bytestring
  BY Joined
<1>4. p ++ (c ++ (d ++ (e ++ f))) = a ++ (b ++ (c ++ (d ++ (e ++ f))))
  BY <1>3, Regrouped
<1>5. QED
  BY <1>2, <1>4

-------------------------------------------------------------------------------
(* What is signed.                                                             *)

LEMMA SignerIs ==
    ASSUME NEW w, w \in Who
    PROVE  /\ w.account \in Texts /\ w.key \in DOMAIN KeyData
           /\ w.account \in Accounts => Len(Utf8[w.account]) \in 2 .. 64
           /\ Text(w.account) \in Bytestring /\ PublicKeyWire(PublicKeyOf(w)) \in Bytestring
<1>1. w.key \in DOMAIN KeyData
  BY DEF Who
<1>2. w.key.curve \in {"ed25519", "secp256k1", "ml-dsa-65"} /\ KeyData[w.key] \in Bytestring
  BY <1>1, SigningAssumption
<1>3. PublicKeyWire(PublicKeyOf(w)) \in Bytestring
  <2> DEFINE data == KeyData[w.key]
  <2>1. /\ w.key.curve = "ed25519" => PublicKeyWire(PublicKeyOf(w)) = <<0>> ++ data
        /\ w.key.curve = "secp256k1" => PublicKeyWire(PublicKeyOf(w)) = <<1>> ++ data
        /\ w.key.curve = "ml-dsa-65" => PublicKeyWire(PublicKeyOf(w)) = <<2>> ++ data
    BY DEF PublicKeyWire, PublicKeyOf, PublicKeyValue
  <2>2. <<0>> ++ data \in Bytestring /\ <<1>> ++ data \in Bytestring /\ <<2>> ++ data \in Bytestring
    <3> HIDE DEF data
    <3>1. data \in Bytestring
      BY <1>2 DEF data
    <3>2. QED
      BY <3>1, SmallTags, Joined
  <2>3. QED
    BY <1>2, <2>1, <2>2
<1>4. w.account \in Accounts /\ w.account \in Texts
  BY SigningAssumption DEF Who
<1>5. QED
  BY <1>1, <1>3, <1>4, SigningAssumption, TextType

LEMMA HashIs == Hash \in Bytestring
BY SigningAssumption

\* A nonce of 32 bytes: 8 of the time and 24 at random.
LEMMA NonceBytesType ==
    ASSUME NEW n, n \in MessageNonces
    PROVE  /\ NonceBytes(n) \in Bytestring /\ n.random \in Bytestring /\ n.timestamp \in Numbers
           /\ Reverse(LittleEndian(n.timestamp, 8)) \in Bytestring
           /\ Len(Reverse(LittleEndian(n.timestamp, 8))) = 8
<1>1. n.timestamp \in Numbers /\ n.timestamp \in Nat /\ n.random \in Bytestring
  BY NumbersAre DEF MessageNonces
<1> DEFINE s == LittleEndian(n.timestamp, 8)
<1>2. s \in Bytestring /\ Len(s) = 8
  BY <1>1, NumberType
<1> HIDE DEF s
<1>3. Reverse(s) \in Bytestring /\ Len(Reverse(s)) = 8
  <2> DEFINE k == Len(s)
  <2>1. s \in Seq(Byte) /\ k \in Nat
    BY <1>2 DEF Bytestring
  <2>2. DOMAIN s = 1 .. k /\ \A i \in 1 .. k : s[i] \in Byte
    BY <2>1
  <2>3. Reverse(s) = [i \in 1 .. k |-> s[(k - i) + 1]]
    BY DEF Reverse
  <2>4. k = 8
    BY <1>2
  <2> HIDE DEF k
  <2>5. \A i \in 1 .. k : (k - i) + 1 \in 1 .. k
    BY <2>1
  <2>6. Reverse(s) \in [1 .. k -> Byte]
    BY <2>2, <2>3, <2>5
  <2>7. Reverse(s) \in Seq(Byte) /\ Len(Reverse(s)) = k
    BY <2>1, <2>6
  <2>8. QED
    BY <2>4, <2>7 DEF Bytestring
<1>4. QED
  BY <1>1, <1>3, Joined DEF s, NonceBytes

LEMMA NonceBytesRead ==
    ASSUME NEW m, NEW n, NEW x, NEW y, m \in MessageNonces, n \in MessageNonces,
           Len(NonceBytes(m)) = 32, Len(NonceBytes(n)) = 32,
           x \in Bytestring, y \in Bytestring, NonceBytes(m) ++ x = NonceBytes(n) ++ y
    PROVE  m = n /\ x = y
<1>1. NonceBytes(m) = NonceBytes(n) /\ x = y
  BY NonceBytesType, Cut
<1> DEFINE s == LittleEndian(m.timestamp, 8)
           t == LittleEndian(n.timestamp, 8)
<1>2. Reverse(s) = Reverse(t) /\ m.random = n.random
  <2>1. /\ Reverse(s) \in Bytestring /\ Len(Reverse(s)) = 8 /\ m.random \in Bytestring
        /\ Reverse(t) \in Bytestring /\ Len(Reverse(t)) = 8 /\ n.random \in Bytestring
    BY NonceBytesType
  <2>2. Reverse(s) ++ m.random = Reverse(t) ++ n.random
    BY <1>1 DEF NonceBytes
  <2> HIDE DEF s, t
  <2>3. QED
    BY <2>1, <2>2, Cut
<1>3. s \in Bytestring /\ Len(s) = 8 /\ t \in Bytestring /\ Len(t) = 8
  BY NonceBytesType, NumbersAre, NumberType
<1>4. s = t
  <2> HIDE DEF s, t
  <2>1. /\ Reverse(s) = [i \in 1 .. 8 |-> s[(8 - i) + 1]]
        /\ Reverse(t) = [i \in 1 .. 8 |-> t[(8 - i) + 1]]
    BY <1>3 DEF Reverse
  <2>2. ASSUME NEW i \in 1 .. 8 PROVE s[i] = t[i]
    <3>1. 9 - i \in 1 .. 8 /\ (8 - (9 - i)) + 1 = i
      OBVIOUS
    <3>2. Reverse(s)[9 - i] = s[i] /\ Reverse(t)[9 - i] = t[i]
      BY <2>1, <3>1
    <3>3. QED
      BY <1>2, <3>2
  <2>3. s \in Seq(Byte) /\ t \in Seq(Byte) /\ Len(s) = 8 /\ Len(t) = 8
    BY <1>3 DEF Bytestring
  <2>4. DOMAIN s = 1 .. 8 /\ DOMAIN t = 1 .. 8
    BY <2>3
  <2>5. QED
    BY <2>2, <2>3, <2>4, SameElements
<1>5. m.timestamp = n.timestamp
  BY <1>4, NonceBytesType, NumberIsRead
<1>6. QED
  BY <1>1, <1>2, <1>5 DEF MessageNonces

\* The nonce of a V1 transaction has a lane or none.
LaneNonce(r) ==
    TransactionNonce(IF r.lane = <<>> THEN [variant |-> "Nonce", nonce |-> r.nonce]
                     ELSE [variant |-> "GasKeyNonce", nonce |-> r.nonce, nonce_index |-> r.lane[1]])
ModeWire(r) == NonceMode([variant |-> IF r.strict THEN "Strict" ELSE "Monotonic"])
LanesOf(r) == \A n \in ToSet(r.lane) : FitsTwoBytes(n)

LEMMA LaneNonceIs ==
    ASSUME NEW r, r \in SendRequests, LanesOf(r)
    PROVE  /\ LaneNonce(r) \in Bytestring /\ U64(r.nonce) \in Bytestring /\ r.nonce \in Numbers
           /\ r.lane = <<>> => LaneNonce(r) = <<0>> ++ U64(r.nonce)
           /\ r.lane # <<>> =>
                /\ LaneNonce(r) = <<1>> ++ U64(r.nonce) ++ U16(r.lane[1])
                /\ r.lane = <<r.lane[1]>> /\ FitsTwoBytes(r.lane[1]) /\ U16(r.lane[1]) \in Bytestring
<1>1. r.nonce \in Numbers /\ r.lane \in Optional(Numbers)
  BY DEF SendRequests
<1>2. U64(r.nonce) \in Bytestring
  BY <1>1, U64Type
<1>3. CASE r.lane = <<>>
  <2>1. LaneNonce(r) = <<0>> ++ U64(r.nonce)
    BY <1>3 DEF LaneNonce, TransactionNonce
  <2>2. QED
    BY <1>1, <1>2, <1>3, <2>1, SmallTags, Joined
<1>4. CASE r.lane # <<>>
  <2>1. DOMAIN r.lane = {1} /\ r.lane[1] \in Numbers /\ r.lane = <<r.lane[1]>>
    BY <1>1, <1>4, OptionalIs
  <2>2. FitsTwoBytes(r.lane[1])
    BY <2>1 DEF LanesOf, ToSet
  <2>3. U16(r.lane[1]) \in Bytestring
    BY <2>1, NumbersAre, U16Type
  <2>4. LaneNonce(r) = <<1>> ++ U64(r.nonce) ++ U16(r.lane[1])
    BY <1>4 DEF LaneNonce, TransactionNonce
  <2>5. QED
    BY <1>1, <1>2, <1>4, <2>1, <2>2, <2>3, <2>4, SmallTags, Joined
<1>5. QED
  BY <1>3, <1>4

LEMMA LaneNonceReads ==
    ASSUME NEW r, NEW s, NEW x, NEW y, r \in SendRequests, s \in SendRequests, LanesOf(r), LanesOf(s),
           x \in Bytestring, y \in Bytestring, LaneNonce(r) ++ x = LaneNonce(s) ++ y
    PROVE  r.nonce = s.nonce /\ r.lane = s.lane /\ x = y
<1> DEFINE a == IF r.lane = <<>> THEN 0 ELSE 1
           b == IF s.lane = <<>> THEN 0 ELSE 1
           u == IF r.lane = <<>> THEN x ELSE U16(r.lane[1]) ++ x
           v == IF s.lane = <<>> THEN y ELSE U16(s.lane[1]) ++ y
<1>1. u \in Bytestring /\ v \in Bytestring
  BY LaneNonceIs, Joined
<1>2. LaneNonce(r) ++ x = <<a>> ++ (U64(r.nonce) ++ u)
  <2>1. CASE r.lane = <<>>
    BY <2>1, LaneNonceIs, SmallTags, Regrouped
  <2>2. CASE r.lane # <<>>
    <3>1. /\ U64(r.nonce) \in Bytestring /\ U16(r.lane[1]) \in Bytestring /\ <<1>> \in Bytestring
          /\ LaneNonce(r) = <<1>> ++ U64(r.nonce) ++ U16(r.lane[1])
      BY <2>2, LaneNonceIs, SmallTags
    <3>2. <<1>> ++ U64(r.nonce) ++ U16(r.lane[1]) ++ x
            = <<1>> ++ (U64(r.nonce) ++ (U16(r.lane[1]) ++ x))
      BY <3>1, FourInTurn
    <3>3. QED
      BY <2>2, <3>1, <3>2
  <2>3. QED
    BY <2>1, <2>2
<1>3. LaneNonce(s) ++ y = <<b>> ++ (U64(s.nonce) ++ v)
  <2>1. CASE s.lane = <<>>
    BY <2>1, LaneNonceIs, SmallTags, Regrouped
  <2>2. CASE s.lane # <<>>
    <3>1. /\ U64(s.nonce) \in Bytestring /\ U16(s.lane[1]) \in Bytestring /\ <<1>> \in Bytestring
          /\ LaneNonce(s) = <<1>> ++ U64(s.nonce) ++ U16(s.lane[1])
      BY <2>2, LaneNonceIs, SmallTags
    <3>2. <<1>> ++ U64(s.nonce) ++ U16(s.lane[1]) ++ y
            = <<1>> ++ (U64(s.nonce) ++ (U16(s.lane[1]) ++ y))
      BY <3>1, FourInTurn
    <3>3. QED
      BY <2>2, <3>1, <3>2
  <2>3. QED
    BY <2>1, <2>2
<1>4. a \in 0 .. 13 /\ b \in 0 .. 13
  OBVIOUS
<1>5. a = b /\ U64(r.nonce) ++ u = U64(s.nonce) ++ v
  <2> HIDE DEF a, b, u, v
  <2>1. U64(r.nonce) ++ u \in Bytestring /\ U64(s.nonce) ++ v \in Bytestring
    BY <1>1, LaneNonceIs, Joined
  <2>2. a \in Byte /\ b \in Byte
    BY <1>4, SmallTags
  <2>3. <<a>> ++ (U64(r.nonce) ++ u) = <<b>> ++ (U64(s.nonce) ++ v)
    BY <1>2, <1>3
  <2>4. QED
    BY <2>1, <2>2, <2>3, TagReads
<1>6. r.nonce = s.nonce /\ u = v
  <2> HIDE DEF u, v
  <2>1. QED
    BY <1>1, <1>5, LaneNonceIs, U64Reads
<1>7. CASE r.lane = <<>>
  <2>1. s.lane = <<>>
    BY <1>5, <1>7
  <2>2. QED
    BY <1>6, <1>7, <2>1
<1>8. CASE r.lane # <<>>
  <2>1. s.lane # <<>>
    BY <1>5, <1>8
  <2>2. U16(r.lane[1]) ++ x = U16(s.lane[1]) ++ y
    BY <1>6, <1>8, <2>1
  <2>3. r.lane[1] = s.lane[1] /\ x = y
    BY <1>8, <2>1, <2>2, LaneNonceIs, U16Reads
  <2>4. QED
    BY <1>6, <1>8, <2>1, <2>3, LaneNonceIs
<1>9. QED
  BY <1>7, <1>8

LEMMA ModeReads ==
    ASSUME NEW r, NEW s, r \in SendRequests, s \in SendRequests
    PROVE  /\ ModeWire(r) \in Bytestring
           /\ ModeWire(r) = ModeWire(s) => r.strict = s.strict
<1>1. r.strict \in BOOLEAN /\ s.strict \in BOOLEAN
  BY DEF SendRequests
<1>2. /\ ModeWire(r) = IF r.strict THEN <<1>> ELSE <<0>>
      /\ ModeWire(s) = IF s.strict THEN <<1>> ELSE <<0>>
  BY DEF ModeWire, NonceMode
<1>3. <<0>>[1] = 0 /\ <<1>>[1] = 1
  OBVIOUS
<1>4. <<0>> \in Bytestring /\ <<1>> \in Bytestring
  BY SmallTags
<1>5. QED
  BY <1>1, <1>2, <1>3, <1>4

\* What a request is signed for: a transaction of either version, a delegate action
\* or a message.
IsPlain(r) == r.kind = "send" /\ r.lane = <<>> /\ ~r.strict
IsLane(r) == r.kind = "send" /\ ~(r.lane = <<>> /\ ~r.strict)

\* Its arguments are accepted.
Accepted(r) ==
    /\ r.kind \in {"send", "delegate"} => Builds(r.calls)
    /\ r.kind = "send" => LanesOf(r)
    /\ r.kind = "message" => r.nonce # <<>> /\ Len(NonceBytes(r.nonce[1])) = 32

PlainRest(r) == U64(r.nonce) ++ (Text(r.receiver) ++ (Hash ++ Wired(r.calls)))

LEMMA PlainIs ==
    ASSUME NEW w, NEW r, w \in Who, r \in SendRequests, Accepted(r), IsPlain(r)
    PROVE  /\ Bytes(w, r) = Text(w.account) ++ (PublicKeyWire(PublicKeyOf(w)) ++ PlainRest(r))
           /\ PlainRest(r) \in Bytestring
           /\ r.nonce \in Numbers /\ r.receiver \in Texts /\ r.calls \in Several(Constructions)
           /\ Builds(r.calls) /\ Wired(r.calls) \in Bytestring
           /\ Hash ++ Wired(r.calls) \in Bytestring
           /\ Text(r.receiver) ++ (Hash ++ Wired(r.calls)) \in Bytestring
<1> DEFINE a == Text(w.account)
           k == PublicKeyWire(PublicKeyOf(w))
           n == U64(r.nonce)
           t == Text(r.receiver)
           v == Wired(r.calls)
<1>1. /\ r.nonce \in Numbers /\ r.receiver \in Texts /\ r.calls \in Several(Constructions)
      /\ r.kind = "send" /\ Builds(r.calls)
  BY DEF SendRequests, Accepted
<1>2. /\ a \in Bytestring /\ k \in Bytestring /\ n \in Bytestring /\ t \in Bytestring
      /\ Hash \in Bytestring /\ v \in Bytestring
  BY <1>1, SignerIs, HashIs, U64Type, TextType, WiredIs
<1>3. AnyActions(BuildAll(r.calls)) = v
  BY <1>1, WiredIs
<1>4. Bytes(w, r) = TransactionBytes(w, r)
  BY <1>1 DEF Bytes
<1>5. TransactionBytes(w, r) = a ++ k ++ n ++ t ++ Hash ++ AnyActions(BuildAll(r.calls))
  BY DEF TransactionBytes, Transaction, IsPlain
<1> HIDE DEF a, k, n, t, v
<1>6. a ++ k ++ n ++ t ++ Hash ++ v = a ++ (k ++ (n ++ (t ++ (Hash ++ v))))
  BY <1>2, SixInTurn
<1>7. Hash ++ v \in Bytestring /\ t ++ (Hash ++ v) \in Bytestring /\ n ++ (t ++ (Hash ++ v)) \in Bytestring
  BY <1>2, Joined
<1>8. PlainRest(r) = n ++ (t ++ (Hash ++ v))
  BY DEF PlainRest, n, t, v
<1>9. QED
  BY <1>1, <1>2, <1>3, <1>4, <1>5, <1>6, <1>7, <1>8 DEF a, k, n, t, v

LEMMA PlainReads ==
    ASSUME NEW w, NEW r, NEW s, w \in Who, r \in SendRequests, s \in SendRequests,
           Accepted(r), Accepted(s), IsPlain(r), IsPlain(s), Bytes(w, r) = Bytes(w, s)
    PROVE  r.nonce = s.nonce /\ r.receiver = s.receiver /\ Meanings(r.calls) = Meanings(s.calls)
<1>1. Text(w.account) \in Bytestring /\ PublicKeyWire(PublicKeyOf(w)) \in Bytestring /\ Hash \in Bytestring
  BY SignerIs, HashIs
<1>2. PlainRest(r) = PlainRest(s)
  <2>1. /\ Text(w.account) ++ (PublicKeyWire(PublicKeyOf(w)) ++ PlainRest(r))
             = Text(w.account) ++ (PublicKeyWire(PublicKeyOf(w)) ++ PlainRest(s))
        /\ PlainRest(r) \in Bytestring /\ PlainRest(s) \in Bytestring
    BY PlainIs
  <2>2. PublicKeyWire(PublicKeyOf(w)) ++ PlainRest(r) = PublicKeyWire(PublicKeyOf(w)) ++ PlainRest(s)
    BY <1>1, <2>1, Joined, Rest
  <2>3. QED
    BY <1>1, <2>1, <2>2, Rest
<1>3. /\ r.nonce = s.nonce
      /\ Text(r.receiver) ++ (Hash ++ Wired(r.calls)) = Text(s.receiver) ++ (Hash ++ Wired(s.calls))
  BY <1>2, PlainIs, U64Reads DEF PlainRest
<1>4. r.receiver = s.receiver /\ Hash ++ Wired(r.calls) = Hash ++ Wired(s.calls)
  BY <1>3, PlainIs, TextReads
<1>5. Wired(r.calls) = Wired(s.calls)
  BY <1>1, <1>4, PlainIs, Rest
<1>6. Meanings(r.calls) = Meanings(s.calls)
  BY <1>5, PlainIs, EmptyBytes, CallsRead
<1>7. QED
  BY <1>3, <1>4, <1>6

LaneRest(r) == LaneNonce(r) ++ (Text(r.receiver) ++ (Hash ++ (Wired(r.calls) ++ ModeWire(r))))

LEMMA LaneIs ==
    ASSUME NEW w, NEW r, w \in Who, r \in SendRequests, Accepted(r), IsLane(r)
    PROVE  /\ Bytes(w, r) = U8(1) ++ (Text(w.account) ++ (PublicKeyWire(PublicKeyOf(w)) ++ LaneRest(r)))
           /\ LaneRest(r) \in Bytestring /\ LanesOf(r)
           /\ r.receiver \in Texts /\ r.calls \in Several(Constructions)
           /\ Builds(r.calls) /\ Wired(r.calls) \in Bytestring /\ ModeWire(r) \in Bytestring
           /\ Wired(r.calls) ++ ModeWire(r) \in Bytestring
           /\ Hash ++ (Wired(r.calls) ++ ModeWire(r)) \in Bytestring
           /\ Text(r.receiver) ++ (Hash ++ (Wired(r.calls) ++ ModeWire(r))) \in Bytestring
<1> DEFINE o == U8(1)
           a == Text(w.account)
           k == PublicKeyWire(PublicKeyOf(w))
           n == LaneNonce(r)
           t == Text(r.receiver)
           v == Wired(r.calls)
           m == ModeWire(r)
<1>1. /\ r.receiver \in Texts /\ r.calls \in Several(Constructions)
      /\ r.kind = "send" /\ Builds(r.calls) /\ LanesOf(r)
  BY DEF SendRequests, Accepted
<1>2. /\ o \in Bytestring /\ a \in Bytestring /\ k \in Bytestring /\ n \in Bytestring /\ t \in Bytestring
      /\ Hash \in Bytestring /\ v \in Bytestring /\ m \in Bytestring
  BY <1>1, SignerIs, HashIs, U8Type, LaneNonceIs, TextType, WiredIs, ModeReads
<1>3. AnyActions(BuildAll(r.calls)) = v
  BY <1>1, WiredIs
<1>4. Bytes(w, r) = TransactionBytes(w, r)
  BY <1>1 DEF Bytes
<1>5. TransactionBytes(w, r) = o ++ a ++ k ++ n ++ t ++ Hash ++ AnyActions(BuildAll(r.calls)) ++ m
  BY <1>1 DEF TransactionBytes, TransactionV1, IsLane, LaneNonce, ModeWire
<1> HIDE DEF o, a, k, n, t, v, m
<1> DEFINE h == o ++ a ++ k
           l == n ++ (t ++ (Hash ++ (v ++ m)))
<1>6. /\ v ++ m \in Bytestring /\ Hash ++ (v ++ m) \in Bytestring
      /\ t ++ (Hash ++ (v ++ m)) \in Bytestring /\ l \in Bytestring /\ h \in Bytestring
  BY <1>2, Joined
<1>7. h ++ n ++ t ++ Hash ++ v ++ m = h ++ l
  <2> HIDE DEF h
  <2>1. QED
    BY <1>2, <1>6, SixInTurn
<1>8. h ++ l = o ++ (a ++ (k ++ l))
  <2> HIDE DEF l
  <2>1. QED
    BY <1>2, <1>6, FourInTurn
<1>9. LaneRest(r) = l
  BY DEF LaneRest, n, t, v, m
<1>10. QED
  <2> HIDE DEF l
  <2>1. Bytes(w, r) = h ++ n ++ t ++ Hash ++ v ++ m
    BY <1>3, <1>4, <1>5
  <2>2. Bytes(w, r) = o ++ (a ++ (k ++ l))
    BY <1>7, <1>8, <2>1
  <2>3. QED
    BY <1>1, <1>2, <1>6, <1>9, <2>2 DEF o, a, k, n, t, v, m

LEMMA LaneReads ==
    ASSUME NEW w, NEW r, NEW s, w \in Who, r \in SendRequests, s \in SendRequests,
           Accepted(r), Accepted(s), IsLane(r), IsLane(s), Bytes(w, r) = Bytes(w, s)
    PROVE  /\ r.nonce = s.nonce /\ r.lane = s.lane /\ r.strict = s.strict
           /\ r.receiver = s.receiver /\ Meanings(r.calls) = Meanings(s.calls)
<1> DEFINE o == U8(1)
           a == Text(w.account)
           k == PublicKeyWire(PublicKeyOf(w))
           p == LaneRest(r)
           q == LaneRest(s)
<1>1. o \in Bytestring /\ a \in Bytestring /\ k \in Bytestring /\ Hash \in Bytestring
  BY SignerIs, HashIs, U8Type
<1>2. /\ o ++ (a ++ (k ++ p)) = o ++ (a ++ (k ++ q)) /\ p \in Bytestring /\ q \in Bytestring
  BY LaneIs
<1>3. p = q
  <2> HIDE DEF o, a, k, p, q
  <2>1. k ++ p \in Bytestring /\ k ++ q \in Bytestring /\ a ++ (k ++ p) \in Bytestring /\ a ++ (k ++ q) \in Bytestring
    BY <1>1, <1>2, Joined
  <2>2. a ++ (k ++ p) = a ++ (k ++ q)
    BY <1>1, <1>2, <2>1, Rest
  <2>3. k ++ p = k ++ q
    BY <1>1, <2>1, <2>2, Rest
  <2>4. QED
    BY <1>1, <1>2, <2>3, Rest
<1>4. /\ r.nonce = s.nonce /\ r.lane = s.lane
      /\ Text(r.receiver) ++ (Hash ++ (Wired(r.calls) ++ ModeWire(r)))
           = Text(s.receiver) ++ (Hash ++ (Wired(s.calls) ++ ModeWire(s)))
  BY <1>3, LaneIs, LaneNonceReads DEF LaneRest
<1>5. /\ r.receiver = s.receiver
      /\ Hash ++ (Wired(r.calls) ++ ModeWire(r)) = Hash ++ (Wired(s.calls) ++ ModeWire(s))
  BY <1>4, LaneIs, TextReads
<1>6. Wired(r.calls) ++ ModeWire(r) = Wired(s.calls) ++ ModeWire(s)
  BY <1>1, <1>5, LaneIs, Rest
<1>7. Meanings(r.calls) = Meanings(s.calls) /\ ModeWire(r) = ModeWire(s)
  BY <1>6, LaneIs, CallsRead
<1>8. r.strict = s.strict
  BY <1>7, ModeReads
<1>9. QED
  BY <1>4, <1>5, <1>7, <1>8

DelegateRest(w, r) ==
    Text(r.receiver) ++ (Wired(r.calls) ++ (U64(r.nonce) ++ (U64(r.max_block_height) ++ PublicKeyWire(PublicKeyOf(w)))))

LEMMA PrefixesAre ==
    /\ NEP366_DELEGATE_PREFIX \in Bytestring /\ NEP413_MESSAGE_TAG \in Bytestring
    /\ Len(NEP366_DELEGATE_PREFIX) = 4 /\ Len(NEP413_MESSAGE_TAG) = 4
    /\ NEP366_DELEGATE_PREFIX[1] = 110 /\ NEP413_MESSAGE_TAG[1] = 157
<1>1. {110, 1, 0, 64, 157, 128} \subseteq Byte
  BY DEF Byte
<1>2. QED
  BY <1>1 DEF NEP366_DELEGATE_PREFIX, NEP413_MESSAGE_TAG, Bytestring

LEMMA DelegateIs ==
    ASSUME NEW w, NEW r, w \in Who, r \in DelegateRequests, Accepted(r)
    PROVE  /\ Bytes(w, r) = NEP366_DELEGATE_PREFIX ++ (Text(w.account) ++ DelegateRest(w, r))
           /\ DelegateRest(w, r) \in Bytestring
           /\ r.receiver \in Texts /\ r.calls \in Several(Constructions) /\ Builds(r.calls)
           /\ r.nonce \in Numbers /\ r.max_block_height \in Numbers
           /\ PublicKeyWire(PublicKeyOf(w)) \in Bytestring
           /\ U64(r.max_block_height) ++ PublicKeyWire(PublicKeyOf(w)) \in Bytestring
           /\ U64(r.nonce) ++ (U64(r.max_block_height) ++ PublicKeyWire(PublicKeyOf(w))) \in Bytestring
           /\ Wired(r.calls) ++ (U64(r.nonce) ++ (U64(r.max_block_height) ++ PublicKeyWire(PublicKeyOf(w)))) \in Bytestring
<1> DEFINE a == Text(w.account)
           k == PublicKeyWire(PublicKeyOf(w))
           n == U64(r.nonce)
           m == U64(r.max_block_height)
           t == Text(r.receiver)
           v == Wired(r.calls)
<1>1. /\ r.nonce \in Numbers /\ r.max_block_height \in Numbers
      /\ r.receiver \in Texts /\ r.calls \in Several(Constructions)
      /\ r.kind = "delegate" /\ Builds(r.calls)
  BY DEF DelegateRequests, Accepted
<1>2. /\ a \in Bytestring /\ k \in Bytestring /\ n \in Bytestring /\ t \in Bytestring
      /\ m \in Bytestring /\ v \in Bytestring
  BY <1>1, SignerIs, U64Type, TextType, WiredIs
<1>3. Vector([i \in DOMAIN BuildAll(r.calls) |-> NonDelegateAction(BuildAll(r.calls)[i])]) = v
  BY <1>1, WiredIs
<1>4. Bytes(w, r) = NEP366_DELEGATE_PREFIX ++ DelegateAction(DelegateOf(w, r))
  BY <1>1 DEF Bytes, DelegateBytes
<1>5. DelegateAction(DelegateOf(w, r))
        = a ++ t ++ Vector([i \in DOMAIN BuildAll(r.calls) |-> NonDelegateAction(BuildAll(r.calls)[i])]) ++ n ++ m ++ k
  BY DEF DelegateAction, DelegateOf
<1> HIDE DEF a, k, n, m, t, v
<1>6. a ++ t ++ v ++ n ++ m ++ k = a ++ (t ++ (v ++ (n ++ (m ++ k))))
  BY <1>2, SixInTurn
<1>7. /\ m ++ k \in Bytestring /\ n ++ (m ++ k) \in Bytestring /\ v ++ (n ++ (m ++ k)) \in Bytestring
      /\ t ++ (v ++ (n ++ (m ++ k))) \in Bytestring
  BY <1>2, Joined
<1>8. DelegateRest(w, r) = t ++ (v ++ (n ++ (m ++ k)))
  BY DEF DelegateRest, k, n, m, t, v
<1>9. QED
  BY <1>1, <1>2, <1>3, <1>4, <1>5, <1>6, <1>7, <1>8 DEF a, k, n, m, t, v

LEMMA DelegateReads ==
    ASSUME NEW w, NEW r, NEW s, w \in Who, r \in DelegateRequests, s \in DelegateRequests,
           Accepted(r), Accepted(s), Bytes(w, r) = Bytes(w, s)
    PROVE  /\ r.nonce = s.nonce /\ r.max_block_height = s.max_block_height
           /\ r.receiver = s.receiver /\ Meanings(r.calls) = Meanings(s.calls)
<1> DEFINE k == PublicKeyWire(PublicKeyOf(w))
<1>1. DelegateRest(w, r) = DelegateRest(w, s)
  <2>1. /\ Text(w.account) \in Bytestring /\ NEP366_DELEGATE_PREFIX \in Bytestring
        /\ DelegateRest(w, r) \in Bytestring /\ DelegateRest(w, s) \in Bytestring
        /\ NEP366_DELEGATE_PREFIX ++ (Text(w.account) ++ DelegateRest(w, r))
             = NEP366_DELEGATE_PREFIX ++ (Text(w.account) ++ DelegateRest(w, s))
    BY SignerIs, PrefixesAre, DelegateIs
  <2>2. Text(w.account) ++ DelegateRest(w, r) = Text(w.account) ++ DelegateRest(w, s)
    BY <2>1, Joined, Rest
  <2>3. QED
    BY <2>1, <2>2, Rest
<1>2. /\ r.receiver = s.receiver
      /\ Wired(r.calls) ++ (U64(r.nonce) ++ (U64(r.max_block_height) ++ k))
           = Wired(s.calls) ++ (U64(s.nonce) ++ (U64(s.max_block_height) ++ k))
  BY <1>1, DelegateIs, TextReads DEF DelegateRest
<1>3. /\ Meanings(r.calls) = Meanings(s.calls)
      /\ U64(r.nonce) ++ (U64(r.max_block_height) ++ k) = U64(s.nonce) ++ (U64(s.max_block_height) ++ k)
  BY <1>2, DelegateIs, CallsRead
<1>4. /\ r.nonce = s.nonce
      /\ U64(r.max_block_height) ++ k = U64(s.max_block_height) ++ k
  BY <1>3, DelegateIs, U64Reads
<1>5. r.max_block_height = s.max_block_height
  BY <1>4, DelegateIs, U64Reads
<1>6. QED
  BY <1>2, <1>3, <1>4, <1>5

MessageRest(r) ==
    NonceBytes(r.nonce[1]) ++ (Text(r.recipient) ++ Option([i \in DOMAIN r.callback_url |-> Text(r.callback_url[i])]))

LEMMA MessageIs ==
    ASSUME NEW r, r \in MessageRequests, Accepted(r)
    PROVE  /\ MessageBytes(r) = NEP413_MESSAGE_TAG ++ (Text(r.message) ++ MessageRest(r))
           /\ MessageRest(r) \in Bytestring /\ r.message \in Texts /\ r.recipient \in Texts
           /\ r.callback_url \in Optional(Texts) /\ r.nonce = <<r.nonce[1]>> /\ r.nonce[1] \in MessageNonces
           /\ Len(NonceBytes(r.nonce[1])) = 32 /\ NonceBytes(r.nonce[1]) \in Bytestring
           /\ Option([i \in DOMAIN r.callback_url |-> Text(r.callback_url[i])]) \in Bytestring
           /\ Text(r.recipient) ++ Option([i \in DOMAIN r.callback_url |-> Text(r.callback_url[i])]) \in Bytestring
<1> DEFINE m == Text(r.message)
           n == NonceBytes(r.nonce[1])
           t == Text(r.recipient)
           o == Option([i \in DOMAIN r.callback_url |-> Text(r.callback_url[i])])
<1>1. /\ r.message \in Texts /\ r.recipient \in Texts /\ r.callback_url \in Optional(Texts)
      /\ r.nonce \in Optional(MessageNonces) /\ r.nonce # <<>> /\ Len(n) = 32
  BY DEF MessageRequests, Accepted
<1>2. r.nonce = <<r.nonce[1]>> /\ r.nonce[1] \in MessageNonces
  BY <1>1, OptionalIs
<1>3. m \in Bytestring /\ n \in Bytestring /\ t \in Bytestring /\ o \in Bytestring
  BY <1>1, <1>2, TextType, NonceBytesType, OptionalTextIs, OptionType
<1>4. MessageBytes(r) = NEP413_MESSAGE_TAG ++ (m ++ n ++ t ++ o)
  BY DEF MessageBytes, Nep413Payload
<1>5. MessageRest(r) = n ++ (t ++ o)
  BY DEF MessageRest
<1> HIDE DEF m, n, t, o
<1>6. m ++ n ++ t ++ o = m ++ (n ++ (t ++ o))
  BY <1>3, FourInTurn
<1>7. t ++ o \in Bytestring /\ n ++ (t ++ o) \in Bytestring
  BY <1>3, Joined
<1>8. QED
  BY <1>1, <1>2, <1>3, <1>4, <1>5, <1>6, <1>7 DEF m, n, t, o

LEMMA MessageReads ==
    ASSUME NEW r, NEW s, r \in MessageRequests, s \in MessageRequests, Accepted(r), Accepted(s),
           MessageBytes(r) = MessageBytes(s)
    PROVE  /\ r.message = s.message /\ r.nonce = s.nonce
           /\ r.recipient = s.recipient /\ r.callback_url = s.callback_url
<1> DEFINE o(q) == Option([i \in DOMAIN q.callback_url |-> Text(q.callback_url[i])])
<1>1. Text(r.message) ++ MessageRest(r) = Text(s.message) ++ MessageRest(s)
  <2>1. /\ NEP413_MESSAGE_TAG ++ (Text(r.message) ++ MessageRest(r))
             = NEP413_MESSAGE_TAG ++ (Text(s.message) ++ MessageRest(s))
        /\ Text(r.message) ++ MessageRest(r) \in Bytestring
        /\ Text(s.message) ++ MessageRest(s) \in Bytestring
    BY MessageIs, TextType, Joined
  <2>2. QED
    BY <2>1, PrefixesAre, Rest
<1>2. r.message = s.message /\ MessageRest(r) = MessageRest(s)
  <2>1. /\ r.message \in Texts /\ s.message \in Texts
        /\ MessageRest(r) \in Bytestring /\ MessageRest(s) \in Bytestring
    BY MessageIs
  <2>2. QED
    BY <1>1, <2>1, TextReads
<1>3. r.nonce[1] = s.nonce[1] /\ Text(r.recipient) ++ o(r) = Text(s.recipient) ++ o(s)
  BY <1>2, MessageIs, NonceBytesRead DEF MessageRest
<1>4. r.recipient = s.recipient /\ o(r) = o(s)
  BY <1>3, MessageIs, TextReads
<1>5. r.callback_url = s.callback_url
  BY <1>4, MessageIs, EmptyBytes, OptionalTextReads
<1>6. r.nonce = s.nonce
  BY <1>3, MessageIs
<1>7. QED
  BY <1>2, <1>4, <1>5, <1>6

-------------------------------------------------------------------------------
(* What tells the kinds apart.                                                 *)

LEMMA HeadIs ==
    ASSUME NEW a, a \in Bytestring, Len(a) >= 4
    PROVE  SubSeq(a, 1, 4)[1] = a[1]
BY DEF Bytestring

\* The first field has the first byte.
LEMMA FirstIs ==
    ASSUME NEW a, NEW x, a \in Bytestring, x \in Bytestring, Len(a) >= 1
    PROVE  /\ a ++ x \in Bytestring /\ (a ++ x)[1] = a[1]
           /\ Len(a) >= 4 => Len(a ++ x) >= 4
<1>1. /\ a ++ x \in Bytestring /\ Len(a ++ x) = Len(a) + Len(x)
      /\ \A i \in 1 .. Len(a) : (a ++ x)[i] = a[i]
  BY Joined
<1>2. Len(a) \in Nat /\ Len(x) \in Nat
  BY DEF Bytestring
<1>3. QED
  BY <1>1, <1>2

\* A name of 2 to 64 bytes is written after its length.
LEMMA NameIs ==
    ASSUME NEW name, name \in Accounts
    PROVE  /\ Text(name) \in Bytestring /\ Len(Text(name)) >= 4
           /\ Text(name)[1] \in 2 .. 64
<1> DEFINE n == Len(Utf8[name])
<1>1. name \in Texts /\ n \in 2 .. 64
  BY SigningAssumption
<1>2. n \in Numbers /\ Utf8[name] \in Bytestring /\ Text(name) = U32(n) ++ Utf8[name]
  BY <1>1, TextType
<1> HIDE DEF n
<1>3. U32(n) \in Bytestring /\ Len(U32(n)) = 4
  BY <1>2, U32Type
<1>4. U32(n)[1] = n
  <2>1. U32(n)[1] = n % 256
    BY DEF U32, LittleEndian
  <2>2. QED
    BY <1>1, <2>1
<1>5. Text(name) \in Bytestring /\ Text(name)[1] = U32(n)[1] /\ Len(Text(name)) >= 4
  <2> DEFINE a == U32(n)
             x == Utf8[name]
  <2>1. a \in Bytestring /\ x \in Bytestring /\ Len(a) >= 4 /\ Len(a) >= 1 /\ Text(name) = a ++ x
    BY <1>2, <1>3
  <2> HIDE DEF a, x
  <2>2. a ++ x \in Bytestring /\ (a ++ x)[1] = a[1] /\ Len(a ++ x) >= 4
    BY <2>1, FirstIs
  <2>3. QED
    BY <2>1, <2>2 DEF a
<1>6. QED
  BY <1>1, <1>4, <1>5

LEMMA FirstByte ==
    ASSUME NEW w, NEW r, w \in Who, r \in Requests, Accepted(r)
    PROVE  /\ Bytes(w, r) \in Bytestring /\ Len(Bytes(w, r)) >= 4
           /\ IsPlain(r) => Bytes(w, r)[1] \in 2 .. 64
           /\ IsLane(r) => Bytes(w, r)[1] = 1
           /\ r.kind = "delegate" => Bytes(w, r)[1] = 110
           /\ r.kind = "message" => Bytes(w, r)[1] = 157 /\ Bytes(w, r) = MessageBytes(r)
<1> DEFINE a == Text(w.account)
           k == PublicKeyWire(PublicKeyOf(w))
<1>1. /\ a \in Bytestring /\ Len(a) >= 4 /\ a[1] \in 2 .. 64 /\ k \in Bytestring
  BY SignerIs, NameIs DEF Who
<1>2. CASE IsPlain(r)
  <2>1. r.kind = "send" /\ ~IsLane(r) /\ r \in SendRequests
    BY <1>2, RequestKinds DEF IsPlain, IsLane
  <2>2. Bytes(w, r) = a ++ (k ++ PlainRest(r)) /\ PlainRest(r) \in Bytestring
    BY <1>2, <2>1, PlainIs
  <2> HIDE DEF a, k
  <2>3. k ++ PlainRest(r) \in Bytestring
    BY <1>1, <2>2, Joined
  <2> DEFINE x == k ++ PlainRest(r)
  <2>4. x \in Bytestring /\ Bytes(w, r) = a ++ x
    BY <2>2, <2>3
  <2> HIDE DEF x
  <2>5. a ++ x \in Bytestring /\ (a ++ x)[1] = a[1] /\ Len(a ++ x) >= 4
    BY <1>1, <2>4, FirstIs
  <2>6. QED
    BY <1>1, <2>1, <2>4, <2>5
<1>3. CASE IsLane(r)
  <2>1. r.kind = "send" /\ ~IsPlain(r) /\ r \in SendRequests
    BY <1>3, RequestKinds DEF IsPlain, IsLane
  <2>2. Bytes(w, r) = U8(1) ++ (a ++ (k ++ LaneRest(r))) /\ LaneRest(r) \in Bytestring
    BY <1>3, <2>1, LaneIs
  <2> HIDE DEF a, k
  <2>3. k ++ LaneRest(r) \in Bytestring /\ a ++ (k ++ LaneRest(r)) \in Bytestring
    BY <1>1, <2>2, Joined
  <2>4. Len(a ++ (k ++ LaneRest(r))) >= 4
    BY <1>1, <2>3, FirstIs
  <2>5. U8(1) \in Bytestring /\ Len(U8(1)) = 1 /\ U8(1)[1] = 1
    BY U8Type DEF U8, LittleEndian
  <2> DEFINE o == U8(1)
             x == a ++ (k ++ LaneRest(r))
  <2>6. /\ o \in Bytestring /\ Len(o) >= 1 /\ Len(o) = 1 /\ o[1] = 1
        /\ x \in Bytestring /\ Len(x) >= 4 /\ Bytes(w, r) = o ++ x
    BY <2>2, <2>3, <2>4, <2>5
  <2> HIDE DEF o, x
  <2>7. o ++ x \in Bytestring /\ (o ++ x)[1] = o[1] /\ Len(o ++ x) = Len(o) + Len(x)
    <3>1. o \in Bytestring /\ x \in Bytestring /\ Len(o) >= 1
      BY <2>6
    <3>2. o ++ x \in Bytestring /\ (o ++ x)[1] = o[1]
      BY <3>1, FirstIs
    <3>3. Len(o ++ x) = Len(o) + Len(x)
      BY <3>1, Joined
    <3>4. QED
      BY <3>2, <3>3
  <2>8. Len(x) \in Nat
    BY <2>6 DEF Bytestring
  <2>9. Len(o ++ x) >= 4
    BY <2>6, <2>7, <2>8
  <2>10. QED
    BY <2>1, <2>6, <2>7, <2>9
<1>4. CASE r.kind = "delegate"
  <2>1. ~IsPlain(r) /\ ~IsLane(r) /\ r \in DelegateRequests
    BY <1>4, RequestKinds DEF IsPlain, IsLane
  <2>2. Bytes(w, r) = NEP366_DELEGATE_PREFIX ++ (a ++ DelegateRest(w, r)) /\ DelegateRest(w, r) \in Bytestring
    BY <2>1, DelegateIs
  <2> HIDE DEF a
  <2>3. a ++ DelegateRest(w, r) \in Bytestring
    BY <1>1, <2>2, Joined
  <2> DEFINE p == NEP366_DELEGATE_PREFIX
             x == a ++ DelegateRest(w, r)
  <2>4. /\ p \in Bytestring /\ Len(p) >= 4 /\ Len(p) >= 1 /\ p[1] = 110
        /\ x \in Bytestring /\ Bytes(w, r) = p ++ x
    BY <2>2, <2>3, PrefixesAre
  <2> HIDE DEF p, x
  <2>5. p ++ x \in Bytestring /\ (p ++ x)[1] = p[1] /\ Len(p ++ x) >= 4
    BY <2>4, FirstIs
  <2>6. QED
    BY <1>4, <2>1, <2>4, <2>5
<1>5. CASE r.kind = "message"
  <2>1. ~IsPlain(r) /\ ~IsLane(r) /\ r \in MessageRequests
    BY <1>5, RequestKinds DEF IsPlain, IsLane
  <2>2. Bytes(w, r) = MessageBytes(r)
    BY <1>5 DEF Bytes
  <2>3. MessageBytes(r) = NEP413_MESSAGE_TAG ++ (Text(r.message) ++ MessageRest(r))
        /\ Text(r.message) ++ MessageRest(r) \in Bytestring
    BY <2>1, MessageIs, TextType, Joined
  <2> DEFINE p == NEP413_MESSAGE_TAG
             x == Text(r.message) ++ MessageRest(r)
  <2>4. /\ p \in Bytestring /\ Len(p) >= 4 /\ Len(p) >= 1 /\ p[1] = 157
        /\ x \in Bytestring /\ Bytes(w, r) = p ++ x
    BY <2>2, <2>3, PrefixesAre
  <2> HIDE DEF p, x
  <2>5. p ++ x \in Bytestring /\ (p ++ x)[1] = p[1] /\ Len(p ++ x) >= 4
    BY <2>4, FirstIs
  <2>6. QED
    BY <1>5, <2>1, <2>2, <2>4, <2>5
<1>6. QED
  <2>1. r.kind \in {"send", "delegate", "message"}
    BY RequestKinds
  <2>2. r.kind = "send" => IsPlain(r) \/ IsLane(r)
    BY DEF IsPlain, IsLane
  <2>3. QED
    BY <1>2, <1>3, <1>4, <1>5, <2>1, <2>2

LEMMA FormatIs ==
    ASSUME NEW r, NEW s, r \in Requests, s \in Requests, Format(r) # Format(s)
    PROVE  \/ r.kind # s.kind
           \/ IsPlain(r) /\ IsLane(s)
           \/ IsLane(r) /\ IsPlain(s)
BY RequestKinds DEF Format, IsPlain, IsLane

\* By the first byte already.
LEMMA FirstBytesDiffer ==
    ASSUME NEW w, NEW u, NEW r, NEW s, w \in Who, u \in Who, r \in Requests, s \in Requests,
           Accepted(r), Accepted(s), Format(r) # Format(s)
    PROVE  Bytes(w, r)[1] # Bytes(u, s)[1]
<1> DEFINE b == Bytes(w, r)[1]
           c == Bytes(u, s)[1]
<1>1. /\ IsPlain(r) => b \in 2 .. 64
      /\ IsLane(r) => b = 1
      /\ r.kind = "delegate" => b = 110
      /\ r.kind = "message" => b = 157
  BY FirstByte
<1>2. /\ IsPlain(s) => c \in 2 .. 64
      /\ IsLane(s) => c = 1
      /\ s.kind = "delegate" => c = 110
      /\ s.kind = "message" => c = 157
  BY FirstByte
<1> HIDE DEF b, c
<1>3. /\ r.kind \in {"send", "delegate", "message"} /\ s.kind \in {"send", "delegate", "message"}
      /\ r.kind = "send" => IsPlain(r) \/ IsLane(r)
      /\ s.kind = "send" => IsPlain(s) \/ IsLane(s)
  BY RequestKinds DEF IsPlain, IsLane
<1>4. b # c
  <2>1. CASE r.kind = s.kind
    BY <1>1, <1>2, <2>1, FormatIs
  <2>2. CASE r.kind # s.kind
    BY <1>1, <1>2, <1>3, <2>2
  <2>3. QED
    BY <2>1, <2>2
<1>5. QED
  BY <1>4 DEF b, c

\* What a verifier is told is a request.
LEMMA ToldIsRequest ==
    ASSUME ProtocolInv, pc = "signed", NEW c, c \in Claims
    PROVE  Told(c) \in Requests
<1>1. c \in Requests
  BY SigningAssumption
<1>2. CASE c.kind = "message" /\ c.nonce = <<>> /\ IsMessage
  <2> DEFINE nonce == signature[1].request.nonce
  <2>1. nonce \in Optional(MessageNonces)
    <3>1. signature[1].request \in Requests /\ signature[1].request.kind = "message"
      BY <1>2 DEF ProtocolInv, SignedInv, IsMessage
    <3>2. QED
      BY <3>1, RequestKinds DEF MessageRequests
  <2>2. c \in MessageRequests
    BY <1>1, <1>2, RequestKinds
  <2>3. Told(c) = [c EXCEPT !.nonce = nonce]
    BY <1>2 DEF Told
  <2> HIDE DEF nonce
  <2>4. Told(c) \in MessageRequests
    BY <2>1, <2>2, <2>3 DEF MessageRequests
  <2>5. QED
    BY <2>4, RequestKinds
<1>3. CASE ~(c.kind = "message" /\ c.nonce = <<>> /\ IsMessage)
  BY <1>1, <1>3 DEF Told
<1>4. QED
  BY <1>2, <1>3

LEMMA SignedIsAccepted ==
    ASSUME ProtocolInv, pc = "signed"
    PROVE  /\ signature[1].signer \in Who /\ signature[1].request \in Requests
           /\ Accepted(signature[1].request)
           /\ SignedBytes = Bytes(signature[1].signer, signature[1].request)
           /\ Format(signature[1].request) = Format(session.request)
<1> DEFINE s == signature[1].request
<1>1. /\ signature[1].signer \in Who /\ s \in Requests /\ Signable(signature[1].signer, s)
      /\ s.kind = session.request.kind
      /\ ~IsMessage => s = session.request
      /\ IsMessage => s.nonce # <<>>
  BY DEF ProtocolInv, SignedInv
<1>2. Accepted(s)
  BY <1>1 DEF Accepted, Signable, LanesOf, IsMessage
<1>3. Format(s) = Format(session.request)
  BY <1>1 DEF Format, IsMessage
<1>4. QED
  BY <1>1, <1>2, <1>3 DEF SignedBytes

\* The first four bytes tell what was signed: the first one is the length of a name in
\* a transaction, 2 to 64, and 1 in a transaction of version 1; the tag of a delegate
\* action starts with 110 and that of a message with 157.
THEOREM DomainsAreApart == Spec => []DomainsApart
<1>1. ProtocolInv => DomainsApart
  <2> SUFFICES ASSUME ProtocolInv, pc = "signed", NEW c \in Claims, NEW name \in Accounts,
                      Claimable(Told(c)), Told(c).kind = "message" => Len(NonceBytes(Told(c).nonce[1])) = 32,
                      Format(Told(c)) # Format(session.request)
               PROVE  SubSeq(Bytes([signature[1].signer EXCEPT !.account = name], Told(c)), 1, 4)
                         # SubSeq(SignedBytes, 1, 4)
    BY DEF DomainsApart
  <2> DEFINE r == Told(c)
             s == signature[1].request
             w == [signature[1].signer EXCEPT !.account = name]
             u == signature[1].signer
  <2>1. u \in Who /\ s \in Requests /\ Accepted(s) /\ SignedBytes = Bytes(u, s) /\ Format(s) = Format(session.request)
    BY SignedIsAccepted
  <2>2. r \in Requests
    BY ToldIsRequest
  <2>3. w \in Who
    BY <2>1 DEF Who
  <2>4. Accepted(r)
    BY <2>2, RequestKinds DEF Claimable, Accepted, Signable, LanesOf
  <2> HIDE DEF r, s, w, u
  <2>5. Format(r) # Format(s)
    BY <2>1 DEF r
  <2>6. Bytes(w, r)[1] # Bytes(u, s)[1]
    BY <2>1, <2>2, <2>3, <2>4, <2>5, FirstBytesDiffer
  <2>7. /\ SubSeq(Bytes(w, r), 1, 4)[1] = Bytes(w, r)[1]
        /\ SubSeq(Bytes(u, s), 1, 4)[1] = Bytes(u, s)[1]
    BY <2>1, <2>2, <2>3, <2>4, FirstByte, HeadIs
  <2>8. SubSeq(Bytes(w, r), 1, 4) # SubSeq(SignedBytes, 1, 4)
    BY <2>1, <2>6, <2>7
  <2>9. QED
    BY <2>8 DEF r, w
<1>2. QED
  BY <1>1, ProtocolAlways, PTL

-------------------------------------------------------------------------------
(* What a signature is good for.                                               *)

LEMMA SendIntent ==
    ASSUME NEW r, NEW s, r \in SendRequests, s \in SendRequests
    PROVE  Intent(r) = Intent(s) <=>
             /\ r.receiver = s.receiver /\ r.nonce = s.nonce /\ r.lane = s.lane /\ r.strict = s.strict
             /\ Meanings(r.calls) = Meanings(s.calls)
<1> DEFINE a == Meanings(r.calls)
           b == Meanings(s.calls)
<1>1. /\ Intent(r) = [r EXCEPT !.signer = NoSigner, !.calls = a]
      /\ Intent(s) = [s EXCEPT !.signer = NoSigner, !.calls = b]
  BY DEF SendRequests, Intent, Meanings
<1> HIDE DEF a, b
<1>2. /\ Intent(r)
           = [kind |-> r.kind, signer |-> NoSigner, receiver |-> r.receiver,
              calls |-> a, nonce |-> r.nonce, lane |-> r.lane, strict |-> r.strict]
      /\ Intent(s)
           = [kind |-> s.kind, signer |-> NoSigner, receiver |-> s.receiver,
              calls |-> b, nonce |-> s.nonce, lane |-> s.lane, strict |-> s.strict]
      /\ r.kind = s.kind
  BY <1>1 DEF SendRequests
<1>3. QED
  BY <1>2 DEF a, b

LEMMA DelegateIntent ==
    ASSUME NEW r, NEW s, r \in DelegateRequests, s \in DelegateRequests
    PROVE  Intent(r) = Intent(s) <=>
             /\ r.receiver = s.receiver /\ r.nonce = s.nonce /\ r.max_block_height = s.max_block_height
             /\ Meanings(r.calls) = Meanings(s.calls)
<1> DEFINE a == Meanings(r.calls)
           b == Meanings(s.calls)
<1>1. /\ Intent(r) = [r EXCEPT !.signer = NoSigner, !.calls = a]
      /\ Intent(s) = [s EXCEPT !.signer = NoSigner, !.calls = b]
  BY DEF DelegateRequests, Intent, Meanings
<1> HIDE DEF a, b
<1>2. /\ Intent(r)
           = [kind |-> r.kind, signer |-> NoSigner, receiver |-> r.receiver,
              calls |-> a, nonce |-> r.nonce, max_block_height |-> r.max_block_height]
      /\ Intent(s)
           = [kind |-> s.kind, signer |-> NoSigner, receiver |-> s.receiver,
              calls |-> b, nonce |-> s.nonce, max_block_height |-> s.max_block_height]
      /\ r.kind = s.kind
  BY <1>1 DEF DelegateRequests
<1>3. QED
  BY <1>2 DEF a, b

LEMMA MessageIntent ==
    ASSUME NEW r, NEW s, r \in MessageRequests, s \in MessageRequests
    PROVE  Intent(r) = Intent(s) <=>
             /\ r.message = s.message /\ r.recipient = s.recipient
             /\ r.nonce = s.nonce /\ r.callback_url = s.callback_url
<1>1. Intent(r) = [r EXCEPT !.signer = NoSigner] /\ Intent(s) = [s EXCEPT !.signer = NoSigner]
  BY DEF MessageRequests, Intent
<1>2. QED
  BY <1>1 DEF MessageRequests

\* The same bytes are signed for the same intent, and for no other.
LEMMA SendsAgree ==
    ASSUME NEW w, NEW r, NEW s, w \in Who, r \in SendRequests, s \in SendRequests, Accepted(r), Accepted(s)
    PROVE  Bytes(w, r) = Bytes(w, s) <=> Intent(r) = Intent(s)
<1>1. /\ r.kind = "send" /\ s.kind = "send" /\ r \in Requests /\ s \in Requests
      /\ r.strict \in BOOLEAN /\ s.strict \in BOOLEAN
  BY RequestKinds DEF SendRequests
<1>2. /\ IsPlain(r) <=> ~IsLane(r)
      /\ IsPlain(s) <=> ~IsLane(s)
  BY <1>1 DEF IsPlain, IsLane
<1>3. ASSUME Bytes(w, r) = Bytes(w, s) PROVE Intent(r) = Intent(s)
  <2>1. IsPlain(r) = IsPlain(s)
    <3>1. Format(r) = Format(s)
      BY <1>1, <1>3, FirstBytesDiffer
    <3>2. QED
      BY <3>1 DEF Format, IsPlain
  <2>2. CASE IsPlain(r)
    <3>1. r.nonce = s.nonce /\ r.receiver = s.receiver /\ Meanings(r.calls) = Meanings(s.calls)
      BY <1>3, <2>1, <2>2, PlainReads
    <3>2. r.lane = s.lane /\ r.strict = s.strict
      BY <1>1, <2>1, <2>2 DEF IsPlain
    <3>3. QED
      BY <3>1, <3>2, SendIntent
  <2>3. CASE IsLane(r)
    <3>1. /\ r.nonce = s.nonce /\ r.lane = s.lane /\ r.strict = s.strict
          /\ r.receiver = s.receiver /\ Meanings(r.calls) = Meanings(s.calls)
      BY <1>2, <1>3, <2>1, <2>3, LaneReads
    <3>2. QED
      BY <3>1, SendIntent
  <2>4. QED
    BY <1>2, <2>2, <2>3
<1>4. ASSUME Intent(r) = Intent(s) PROVE Bytes(w, r) = Bytes(w, s)
  <2>1. /\ r.receiver = s.receiver /\ r.nonce = s.nonce /\ r.lane = s.lane /\ r.strict = s.strict
        /\ Meanings(r.calls) = Meanings(s.calls)
    BY <1>4, SendIntent
  <2>2. Wired(r.calls) = Wired(s.calls)
    BY <1>1, <2>1, SameCalls DEF SendRequests, Accepted
  <2>3. CASE IsPlain(r)
    <3>1. IsPlain(s)
      BY <1>1, <2>1, <2>3 DEF IsPlain
    <3>2. PlainRest(r) = PlainRest(s)
      BY <2>1, <2>2 DEF PlainRest
    <3>3. QED
      BY <2>3, <3>1, <3>2, PlainIs
  <2>4. CASE IsLane(r)
    <3>1. IsLane(s)
      BY <1>1, <2>1, <2>4 DEF IsLane
    <3>2. LaneNonce(r) = LaneNonce(s) /\ ModeWire(r) = ModeWire(s)
      BY <2>1 DEF LaneNonce, ModeWire
    <3>3. LaneRest(r) = LaneRest(s)
      BY <2>1, <2>2, <3>2 DEF LaneRest
    <3>4. QED
      BY <2>4, <3>1, <3>3, LaneIs
  <2>5. QED
    BY <1>2, <2>3, <2>4
<1>5. QED
  BY <1>3, <1>4

LEMMA DelegatesAgree ==
    ASSUME NEW w, NEW r, NEW s, w \in Who, r \in DelegateRequests, s \in DelegateRequests,
           Accepted(r), Accepted(s)
    PROVE  Bytes(w, r) = Bytes(w, s) <=> Intent(r) = Intent(s)
<1>1. ASSUME Bytes(w, r) = Bytes(w, s) PROVE Intent(r) = Intent(s)
  BY <1>1, DelegateReads, DelegateIntent
<1>2. ASSUME Intent(r) = Intent(s) PROVE Bytes(w, r) = Bytes(w, s)
  <2>1. /\ r.receiver = s.receiver /\ r.nonce = s.nonce /\ r.max_block_height = s.max_block_height
        /\ Meanings(r.calls) = Meanings(s.calls)
    BY <1>2, DelegateIntent
  <2>2. Wired(r.calls) = Wired(s.calls)
    BY <2>1, DelegateIs, SameCalls
  <2>3. DelegateRest(w, r) = DelegateRest(w, s)
    BY <2>1, <2>2 DEF DelegateRest
  <2>4. QED
    BY <2>3, DelegateIs
<1>3. QED
  BY <1>1, <1>2

LEMMA MessagesAgree ==
    ASSUME NEW r, NEW s, r \in MessageRequests, s \in MessageRequests, Accepted(r), Accepted(s)
    PROVE  MessageBytes(r) = MessageBytes(s) <=> Intent(r) = Intent(s)
<1>1. ASSUME MessageBytes(r) = MessageBytes(s) PROVE Intent(r) = Intent(s)
  BY <1>1, MessageReads, MessageIntent
<1>2. ASSUME Intent(r) = Intent(s) PROVE MessageBytes(r) = MessageBytes(s)
  <2>1. /\ r.message = s.message /\ r.recipient = s.recipient
        /\ r.nonce = s.nonce /\ r.callback_url = s.callback_url
    BY <1>2, MessageIntent
  <2>2. QED
    BY <2>1 DEF MessageBytes
<1>3. QED
  BY <1>1, <1>2

LEMMA KindsDiffer ==
    ASSUME NEW w, NEW r, NEW s, w \in Who, r \in Requests, s \in Requests,
           Accepted(r), Accepted(s), r.kind # s.kind
    PROVE  Bytes(w, r) # Bytes(w, s)
<1>1. Format(r) # Format(s)
  BY DEF Format
<1>2. QED
  BY <1>1, FirstBytesDiffer

\* Two requests get the same bytes to sign exactly when they mean the same: the bytes of
\* each kind read back one way only, and the same meaning is always laid out alike.
THEOREM SignaturesMeanOneThing == Spec => []SignatureMeansOneThing
<1>1. ProtocolInv => SignatureMeansOneThing
  <2> DEFINE r == checked[1].claim
             s == signature[1].request
             w == signature[1].signer
  <2> SUFFICES ASSUME ProtocolInv, checked # <<>>, ~checked[1].checksAge
               PROVE  checked[1].result <=> SameIntent(r, s)
    BY DEF SignatureMeansOneThing
  <2>1. /\ pc = "signed" /\ Claimable(r) /\ checked[1].result = Result(r, FALSE)
        /\ r \in Requests
    <3>1. /\ pc = "signed" /\ Claimable(r) /\ checked[1].checksAge \in BOOLEAN
          /\ checked[1].result = Result(r, checked[1].checksAge)
          /\ \E c \in Claims : r = Told(c)
      BY DEF ProtocolInv, CheckedInv
    <3>2. r \in Requests
      BY <3>1, ToldIsRequest
    <3>3. checked[1].checksAge = FALSE
      BY <3>1
    <3>4. QED
      BY <3>1, <3>2, <3>3
  <2>2. w \in Who /\ s \in Requests /\ Accepted(s) /\ SignedBytes = Bytes(w, s)
    BY <2>1, SignedIsAccepted
  <2> HIDE DEF r, s, w
  <2>3. r.kind # "message" =>
          /\ Accepted(r) /\ (Result(r, FALSE) <=> Bytes(w, r) = Bytes(w, s))
    BY <2>1, <2>2, RequestKinds DEF Claimable, Accepted, Signable, LanesOf, Result, w
  <2>4. r.kind = "message" =>
          /\ r.nonce # <<>>
          /\ Result(r, FALSE) <=> Len(NonceBytes(r.nonce[1])) = 32 /\ MessageBytes(r) = Bytes(w, s)
    BY <2>1, <2>2 DEF Claimable, Result, VerifyMessage
  <2>5. Result(r, FALSE) <=> SameIntent(r, s)
    <3>1. CASE r.kind # "message" /\ r.kind # s.kind
      BY <2>1, <2>2, <2>3, <3>1, KindsDiffer DEF SameIntent
    <3>2. CASE r.kind = "send" /\ s.kind = "send"
      BY <2>1, <2>2, <2>3, <3>2, RequestKinds, SendsAgree DEF SameIntent
    <3>3. CASE r.kind = "delegate" /\ s.kind = "delegate"
      BY <2>1, <2>2, <2>3, <3>3, RequestKinds, DelegatesAgree DEF SameIntent
    <3>4. CASE r.kind = "message" /\ s.kind = "message"
      <4>1. r \in MessageRequests /\ s \in MessageRequests /\ Bytes(w, s) = MessageBytes(s)
        BY <2>1, <2>2, <3>4, RequestKinds DEF Bytes
      <4>2. CASE Len(NonceBytes(r.nonce[1])) = 32
        <5>1. Accepted(r)
          BY <2>4, <3>4, <4>2 DEF Accepted
        <5>2. QED
          BY <2>2, <2>4, <3>4, <4>1, <4>2, <5>1, MessagesAgree DEF SameIntent
      <4>3. CASE Len(NonceBytes(r.nonce[1])) # 32
        <5>1. Intent(r) # Intent(s)
          BY <2>2, <3>4, <4>1, <4>3, MessageIntent DEF Accepted
        <5>2. QED
          BY <2>4, <3>4, <4>3, <5>1 DEF SameIntent
      <4>4. QED
        BY <4>2, <4>3
    <3>5. CASE r.kind = "message" /\ s.kind # "message"
      <4>1. ~SameIntent(r, s)
        BY <3>5 DEF SameIntent
      <4>2. ~(Len(NonceBytes(r.nonce[1])) = 32 /\ MessageBytes(r) = Bytes(w, s))
        <5> SUFFICES ASSUME Len(NonceBytes(r.nonce[1])) = 32, MessageBytes(r) = Bytes(w, s) PROVE FALSE
          OBVIOUS
        <5>1. Accepted(r)
          BY <2>4, <3>5 DEF Accepted
        <5>2. Bytes(w, r) = MessageBytes(r)
          BY <3>5 DEF Bytes
        <5>3. QED
          BY <2>1, <2>2, <3>5, <5>1, <5>2, KindsDiffer
      <4>3. QED
        BY <2>4, <3>5, <4>1, <4>2
    <3>6. QED
      BY <2>1, <2>2, <3>1, <3>2, <3>3, <3>4, <3>5, RequestKinds
  <2>6. QED
    BY <2>1, <2>5
<1>2. QED
  BY <1>1, ProtocolAlways, PTL

================================================================================
