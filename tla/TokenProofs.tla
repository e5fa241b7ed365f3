------------------------------ MODULE TokenProofs ------------------------------
(* Theorems about tokens.  About Amounts, for any radix, scales, tokens and    *)
(* amounts, and any number of operations; about TokenTransfer, for any number  *)
(* of calls and receivers, whatever others do to the contract meanwhile.       *)
EXTENDS Amounts, TokenTransfer, WellFoundedInduction, TLAPS

-------------------------------------------------------------------------------
(* Amounts.                                                                    *)

\* As long as no unit has been hidden, a value has no source of another unit than its
\* own, and a plain int or gas has none at all.
UnitsInv ==
    /\ value.unit \in Units \cup {"int"}
    /\ sources \subseteq Money
    /\ ~hidden => IF value.unit \in Money THEN sources \subseteq {value.unit} ELSE sources = {}

\* The units are what they are called: gas and plain ints are no money.
LEMMA NoMoney == "GAS" \notin Money /\ "int" \notin Money
BY AmountsAssumption DEF Money

\* A result that is not below zero, of two values the program may combine and that
\* does not lose a unit, has the unit of each of them that is money.
LEMMA ResultUnit ==
    ASSUME NEW left, NEW right, NEW op,
           left.unit \in Units \cup {"int"}, right.unit \in Units \cup {"int"},
           ~Rejected(left, right), ~UnitLost(left, op, right)
    PROVE  /\ left.unit \in Money => UnitOf(left, op, right) = left.unit
           /\ right.unit \in Money => UnitOf(left, op, right) = right.unit
BY NoMoney DEF Rejected, UnitLost, UnitOf

\* An operation keeps the invariant, with the program's value on either side.
LEMMA CombineKeepsInv ==
    ASSUME UnitsInv, NEW left, NEW right, NEW op, NEW v \in Operands,
           {left, right} = {value, v}, Combine(left, op, right)
    PROVE  UnitsInv'
<1>1. left.unit \in Units \cup {"int"} /\ right.unit \in Units \cup {"int"}
  BY DEF UnitsInv, Operands, Value
<1>2. /\ value' = Value(Apply(op, left.n, right.n),
                        IF Apply(op, left.n, right.n) < 0 THEN "int" ELSE UnitOf(left, op, right))
      /\ sources' = sources \cup ({left.unit, right.unit} \cap Money)
      /\ hidden' = (hidden \/ value'.n < 0 \/ UnitLost(left, op, right))
      /\ ~Rejected(left, right)
  BY DEF Combine, Combined, Wrap
<1>3. value'.unit \in Units \cup {"int"} /\ sources' \subseteq Money
  BY <1>1, <1>2 DEF UnitsInv, Value, UnitOf, Units
<1>4. ASSUME ~hidden'
      PROVE  IF value'.unit \in Money THEN sources' \subseteq {value'.unit} ELSE sources' = {}
  <2>1. ~hidden /\ ~UnitLost(left, op, right) /\ value'.unit = UnitOf(left, op, right)
    BY <1>2, <1>4 DEF Value
  <2>2. /\ left.unit \in Money => value'.unit = left.unit
        /\ right.unit \in Money => value'.unit = right.unit
    BY <1>1, <1>2, <2>1, ResultUnit
  <2>3. IF value.unit \in Money THEN sources \subseteq {value.unit} ELSE sources = {}
    BY <2>1 DEF UnitsInv
  <2>4. value = left \/ value = right
    OBVIOUS
  <2>5. QED
    BY <1>2, <2>2, <2>3, <2>4
<1>5. QED
  BY <1>3, <1>4 DEF UnitsInv

\* What a client method takes for an amount has no amount of another unit in it.
THEOREM UnitsStayApart == AmountSpec => []UnitsKeptApart
<1>1. AmountInit => UnitsInv
  BY NoMoney DEF AmountInit, UnitsInv, Operands, Value, Units
<1>2. UnitsInv /\ [AmountNext]_amountVars => UnitsInv'
  <2> SUFFICES ASSUME UnitsInv, [AmountNext]_amountVars PROVE UnitsInv'
    OBVIOUS
  <2>1. CASE UNCHANGED amountVars
    BY <2>1 DEF UnitsInv, amountVars
  <2>2. CASE AmountNext
    <3>1. PICK v \in Operands, op \in Ops : Combine(value, op, v) \/ Combine(v, op, value)
      BY <2>2 DEF AmountNext
    <3>2. QED
      BY <3>1, CombineKeepsInv
  <2>3. QED
    BY <2>1, <2>2
<1>3. UnitsInv => UnitsKeptApart
  BY DEF UnitsInv, UnitsKeptApart, Accepts, Units
<1>4. QED
  BY <1>1, <1>2, <1>3, PTL DEF AmountSpec

-------------------------------------------------------------------------------
(* What digits stand for.                                                      *)

\* A set of numbers has a least member.
LEMMA LeastOf ==
    ASSUME NEW T, T \subseteq Nat, T # {}
    PROVE  \E x \in T : \A y \in T : x <= y
<1>1. \E x \in T : \A y \in T : <<y, x>> \notin OpToRel(<, Nat)
  BY WFMin, NatLessThanWellFounded
<1>2. \A x, y \in Nat : y < x => <<y, x>> \in OpToRel(<, Nat)
  BY Zenon DEF OpToRel
<1>3. PICK x \in T : \A y \in T : ~ (y < x)
  BY Zenon, <1>1, <1>2
<1>4. QED
  BY <1>3

\* What holds of zero, and of the next number whenever it holds of a number, holds of
\* all: the numbers of which it does not hold have no least one.
LEMMA AllNumbers ==
    ASSUME NEW G, 0 \in G, \A n \in Nat : n \in G => n + 1 \in G
    PROVE  Nat \subseteq G
<1> DEFINE T == Nat \ G
<1>1. CASE T = {}
  BY <1>1
<1>2. CASE T # {}
  <2>1. PICK x \in T : \A y \in T : x <= y
    BY <1>2, LeastOf
  <2>2. x # 0 /\ x - 1 \in Nat /\ x - 1 \notin T
    BY <2>1
  <2>3. x - 1 \in G /\ (x - 1) + 1 = x
    BY <2>1, <2>2
  <2>4. x \in G
    BY <2>2, <2>3
  <2>5. QED
    BY <2>1, <2>4
<1>3. QED
  BY <1>1, <1>2

\* The first n steps of a recursion that starts at b.
Goes(f, b, step, n) ==
    /\ f \in [0 .. n -> Nat] /\ f[0] = b
    /\ \A i \in 1 .. n : f[i] = step[<<i - 1, f[i - 1]>>]

LEMMA GoesOn ==
    ASSUME NEW f, NEW b, NEW step, NEW n, n \in Nat, b \in Nat, step \in [Nat \X Nat -> Nat],
           Goes(f, b, step, n)
    PROVE  \E g : Goes(g, b, step, n + 1)
<1> DEFINE g == [i \in 0 .. n + 1 |-> IF i \in 0 .. n THEN f[i] ELSE step[<<n, f[n]>>]]
<1>1. f \in [0 .. n -> Nat] /\ f[0] = b /\ \A i \in 1 .. n : f[i] = step[<<i - 1, f[i - 1]>>]
  BY DEF Goes
<1>2. n \in 0 .. n /\ f[n] \in Nat /\ <<n, f[n]>> \in Nat \X Nat
  BY <1>1
<1>3. step[<<n, f[n]>>] \in Nat
  BY <1>2
<1>4. /\ \A i \in 0 .. n : g[i] = f[i]
      /\ g[n + 1] = step[<<n, f[n]>>]
      /\ g \in [0 .. n + 1 -> Nat]
  BY <1>1, <1>3
<1> HIDE DEF g
<1>5. g[0] = b
  BY <1>1, <1>4
<1>6. ASSUME NEW i \in 1 .. n + 1 PROVE g[i] = step[<<i - 1, g[i - 1]>>]
  <2>1. CASE i \in 1 .. n
    <3>1. i \in 0 .. n /\ i - 1 \in 0 .. n
      BY <2>1
    <3>2. QED
      BY <1>1, <1>4, <2>1, <3>1
  <2>2. CASE i = n + 1
    <3>1. i - 1 = n /\ g[n] = f[n]
      BY <1>2, <1>4, <2>2
    <3>2. QED
      BY <1>4, <2>2, <3>1
  <2>3. QED
    BY <2>1, <2>2
<1>7. QED
  BY <1>4, <1>5, <1>6 DEF Goes

\* A recursion has a result after any number of steps.
LEMMA GoesFar ==
    ASSUME NEW b, NEW step, NEW n, n \in Nat, b \in Nat, step \in [Nat \X Nat -> Nat]
    PROVE  \E f : Goes(f, b, step, n)
<1> DEFINE G == {k \in Nat : \E f : Goes(f, b, step, k)}
<1>1. 0 \in G
  <2> DEFINE f == [i \in 0 .. 0 |-> b]
  <2>1. Goes(f, b, step, 0)
    BY DEF Goes
  <2>2. QED
    BY <2>1
<1>2. ASSUME NEW k \in Nat, k \in G PROVE k + 1 \in G
  <2>1. PICK f : Goes(f, b, step, k)
    BY <1>2
  <2>2. \E g : Goes(g, b, step, k + 1)
    BY <2>1, GoesOn
  <2>3. QED
    BY <2>2
<1> HIDE DEF G
<1>3. Nat \subseteq G
  BY <1>1, <1>2, AllNumbers
<1>4. QED
  BY <1>3 DEF G

\* And always the same one.
LEMMA GoesOneWay ==
    ASSUME NEW f, NEW g, NEW b, NEW step, NEW m, NEW n, m \in Nat, n \in Nat,
           Goes(f, b, step, m), Goes(g, b, step, n)
    PROVE  \A i \in Nat : i <= m /\ i <= n => f[i] = g[i]
<1> DEFINE G == {i \in Nat : i <= m /\ i <= n => f[i] = g[i]}
<1>1. 0 \in G
  BY DEF Goes
<1>2. ASSUME NEW i \in Nat, i \in G PROVE i + 1 \in G
  <2> SUFFICES ASSUME i + 1 <= m, i + 1 <= n PROVE f[i + 1] = g[i + 1]
    OBVIOUS
  <2>1. f[i] = g[i]
    BY <1>2
  <2>2. i + 1 \in 1 .. m /\ i + 1 \in 1 .. n /\ (i + 1) - 1 = i
    OBVIOUS
  <2>3. QED
    BY <2>1, <2>2 DEF Goes
<1> HIDE DEF G
<1>3. Nat \subseteq G
  BY <1>1, <1>2, AllNumbers
<1>4. QED
  BY <1>3 DEF G

LEMMA PowerIs ==
    /\ Power \in [Nat -> Nat] /\ Power[0] = 1
    /\ \A n \in Nat : Power[n + 1] = Radix * Power[n] /\ Power[n] > 0
<1>0. Radix \in Nat /\ Radix > 0
  BY AmountsAssumption
<1> DEFINE step == [x \in Nat \X Nat |-> Radix * x[2]]
           far(n) == CHOOSE g : Goes(g, 1, step, n)
           p == [n \in Nat |-> far(n)[n]]
<1>1. step \in [Nat \X Nat -> Nat] /\ \A i, k \in Nat : step[<<i, k>>] = Radix * k
  BY <1>0
<1> HIDE DEF step
<1>2. \A n \in Nat : Goes(far(n), 1, step, n)
  BY <1>1, GoesFar
<1> HIDE DEF far
<1>3. p[0] = 1 /\ \A n \in Nat : p[n] \in Nat
  BY <1>2 DEF Goes
<1>4. ASSUME NEW n \in Nat PROVE p[n + 1] = Radix * p[n]
  <2>1. Goes(far(n), 1, step, n) /\ Goes(far(n + 1), 1, step, n + 1)
    BY <1>2
  <2>2. far(n + 1)[n] = far(n)[n]
    BY <2>1, GoesOneWay
  <2>3. n + 1 \in 1 .. n + 1 /\ (n + 1) - 1 = n
    OBVIOUS
  <2>4. far(n + 1)[n + 1] = step[<<n, far(n + 1)[n]>>]
    BY <2>1, <2>3 DEF Goes
  <2>5. p[n + 1] = far(n + 1)[n + 1] /\ p[n] = far(n)[n]
    OBVIOUS
  <2>6. QED
    BY <1>1, <1>3, <2>2, <2>4, <2>5
<1>5. p = [n \in Nat |-> IF n = 0 THEN 1 ELSE Radix * p[n - 1]]
  <2>1. ASSUME NEW n \in Nat PROVE p[n] = IF n = 0 THEN 1 ELSE Radix * p[n - 1]
    <3>1. CASE n = 0
      BY <1>3, <3>1
    <3>2. CASE n # 0
      <4>1. n - 1 \in Nat /\ (n - 1) + 1 = n
        BY <3>2
      <4>2. p[(n - 1) + 1] = Radix * p[n - 1]
        BY <1>4, <4>1
      <4>3. QED
        BY <3>2, <4>1, <4>2
    <3>3. QED
      BY <3>1, <3>2
  <2>2. QED
    BY <2>1
<1> HIDE DEF p
<1>6. Power = [n \in Nat |-> IF n = 0 THEN 1 ELSE Radix * Power[n - 1]]
  BY <1>5 DEF Power
<1>7. Power[0] = 1 /\ \A n \in Nat : Power[n + 1] = Radix * Power[n]
  BY <1>6
<1> DEFINE G == {n \in Nat : Power[n] \in Nat /\ Power[n] > 0}
<1>8. 0 \in G
  BY <1>7
<1>9. ASSUME NEW n \in Nat, n \in G PROVE n + 1 \in G
  <2>1. Power[n + 1] = Radix * Power[n] /\ Power[n] \in Nat /\ Power[n] > 0
    BY <1>7, <1>9
  <2> DEFINE x == Power[n]
  <2> HIDE DEF x
  <2>2. Radix * x \in Nat /\ Radix * x > 0
    BY <1>0, <2>1 DEF x
  <2>3. QED
    BY <2>1, <2>2 DEF x
<1>10. Nat \subseteq G
  <2> HIDE DEF G
  <2>1. QED
    BY <1>8, <1>9, AllNumbers
<1>11. QED
  BY <1>6, <1>7, <1>10

\* What every beginning of the first k digits stands for.
Reading(d, r, k) ==
    /\ r \in [0 .. k -> Nat] /\ r[0] = 0
    /\ \A i \in 1 .. k : r[i] = r[i - 1] * Radix + d[i]

LEMMA NumberIs ==
    ASSUME NEW d, NEW r, NEW k, k \in Nat, Len(d) = k, Reading(d, r, k)
    PROVE  Number(d) = r[k]
<1> DEFINE Reads(f) == f = [i \in 0 .. k |-> IF i = 0 THEN 0 ELSE f[i - 1] * Radix + d[i]]
           f == CHOOSE g : Reads(g)
<1>0. /\ r \in [0 .. k -> Nat] /\ r[0] = 0
      /\ \A i \in 1 .. k : r[i] = r[i - 1] * Radix + d[i]
  BY DEF Reading
<1>1. Reads(r)
  <2>0. r = [i \in 0 .. k |-> r[i]]
    BY <1>0
  <2>1. \A i \in 0 .. k : r[i] = IF i = 0 THEN 0 ELSE r[i - 1] * Radix + d[i]
    BY <1>0
  <2>2. QED
    BY <2>0, <2>1
<1>2. Number(d) = f[k]
  BY DEF Number
<1> HIDE DEF Reads
<1>3. Reads(f)
  BY <1>1
<1> HIDE DEF f
<1>4. f[0] = 0 /\ \A i \in 1 .. k : f[i] = f[i - 1] * Radix + d[i]
  BY <1>3 DEF Reads
<1> DEFINE G == {i \in Nat : i <= k => f[i] = r[i]}
<1>5. 0 \in G
  BY <1>0, <1>4
<1>6. ASSUME NEW i \in Nat, i \in G PROVE i + 1 \in G
  <2> SUFFICES ASSUME i + 1 <= k PROVE f[i + 1] = r[i + 1]
    OBVIOUS
  <2>1. f[i] = r[i] /\ i + 1 \in 1 .. k /\ (i + 1) - 1 = i
    BY <1>6
  <2>2. f[i + 1] = f[i] * Radix + d[i + 1] /\ r[i + 1] = r[i] * Radix + d[i + 1]
    BY <1>0, <1>4, <2>1
  <2>3. QED
    BY <2>1, <2>2
<1> HIDE DEF G
<1>7. Nat \subseteq G
  BY <1>5, <1>6, AllNumbers
<1>8. QED
  BY <1>2, <1>7 DEF G

LEMMA Products ==
    ASSUME NEW a, NEW b, a \in Int, b \in Int
    PROVE  /\ a * b \in Int
           /\ a >= 0 /\ b >= 0 => a * b >= 0
           /\ a >= 1 /\ b >= 0 => a * b >= b
           /\ a <= -1 /\ b >= 0 => a * b <= -b
OBVIOUS

\* A quotient and a remainder are the only ones.
LEMMA QuotientIs ==
    ASSUME NEW m, NEW b, NEW e, NEW t, m \in Nat, b \in Nat, e \in Nat, t \in Nat,
           m = b * e + t, t < b
    PROVE  m \div b = e
<1> DEFINE x == m \div b
           y == m % b
<1>1. x \in Nat /\ y \in Nat /\ y < b /\ m = b * x + y
  OBVIOUS
<1> HIDE DEF x, y
<1>2. (x - e) * b = t - y
  BY <1>1
<1>3. x - e \in Int /\ t - y < b /\ t - y > -b
  BY <1>1
<1>4. ~ (x - e >= 1) /\ ~ (x - e <= -1)
  BY <1>2, <1>3, Products
<1>5. x = e
  BY <1>1, <1>4
<1>6. QED
  BY <1>5 DEF x

LEMMA QuotientsInTurn ==
    ASSUME NEW m, NEW p, NEW b, m \in Nat, p \in Nat, b \in Nat, p > 0, b > 0
    PROVE  m \div (b * p) = (m \div p) \div b
<1> DEFINE q == m \div p
           a == m % p
           e == q \div b
           c == q % b
<1>1. q \in Nat /\ a \in Nat /\ a < p /\ m = p * q + a
  OBVIOUS
<1>2. e \in Nat /\ c \in Nat /\ c < b /\ q = b * e + c
  <2> HIDE DEF q
  <2>1. QED
    BY <1>1
<1> HIDE DEF q, a, e, c
<1>3. m = (b * p) * e + (p * c + a)
  BY <1>1, <1>2
<1>4. p * c \in Nat /\ p * c + a \in Nat /\ b * p \in Nat
  BY <1>1, <1>2, Products
<1>5. p * c + a < b * p
  <2>1. (b - 1 - c) * p >= 0
    BY <1>2, Products
  <2>2. (b - 1 - c) * p = b * p - p - p * c
    BY <1>2
  <2>3. QED
    BY <1>1, <1>4, <2>1, <2>2
<1>6. m \div (b * p) = e
  <2> DEFINE bp == b * p
             t == p * c + a
  <2>1. bp \in Nat /\ t \in Nat /\ t < bp /\ m = bp * e + t
    BY <1>3, <1>4, <1>5
  <2> HIDE DEF bp, t
  <2>2. m \div bp = e
    BY <1>2, <2>1, QuotientIs
  <2>3. QED
    BY <2>2 DEF bp
<1>7. QED
  BY <1>6 DEF e, q

\* The first i digits of m stand for m without its last ones.
LEMMA DigitsAre ==
    ASSUME NEW m, NEW s, m \in Nat, s \in Nat, m < Power[s]
    PROVE  /\ Digits(m, s) \in Seq(Nat) /\ Len(Digits(m, s)) = s
           /\ \E r : Reading(Digits(m, s), r, s) /\ r[s] = m
<1> DEFINE r == [i \in 0 .. s |-> m \div Power[s - i]]
           d == Digits(m, s)
<1>0. Radix \in Nat /\ Radix > 0
  BY AmountsAssumption
<1>1. \A i \in 0 .. s : s - i \in Nat /\ Power[s - i] \in Nat /\ Power[s - i] > 0
  BY PowerIs
<1>2. \A i \in 0 .. s : m \div Power[s - i] \in Nat
  BY <1>1
<1>3. r \in [0 .. s -> Nat]
  BY <1>2
<1>4. \A i \in 1 .. s : (m \div Power[s - i]) % Radix \in Nat
  BY <1>0, <1>2
<1>5. d = [i \in 1 .. s |-> (m \div Power[s - i]) % Radix]
  BY DEF Digits
<1>6. d \in Seq(Nat) /\ Len(d) = s /\ DOMAIN d = 1 .. s
  BY <1>4, <1>5
<1>7. r[0] = 0
  <2>1. r[0] = m \div Power[s]
    OBVIOUS
  <2>2. Power[s] \in Nat /\ m = Power[s] * 0 + m
    BY PowerIs
  <2>3. QED
    BY <2>1, <2>2, QuotientIs
<1>8. r[s] = m
  <2>1. r[s] = m \div Power[0] /\ Power[0] = 1
    BY PowerIs
  <2>2. QED
    BY <2>1
<1>9. ASSUME NEW i \in 1 .. s PROVE r[i] = r[i - 1] * Radix + d[i]
  <2>1. /\ i \in 0 .. s /\ i - 1 \in 0 .. s /\ s - i \in Nat
        /\ s - (i - 1) = (s - i) + 1
    OBVIOUS
  <2>2. Power[s - (i - 1)] = Radix * Power[s - i]
    BY <2>1, PowerIs
  <2> DEFINE p == Power[s - i]
             q == m \div p
  <2>3. r[i] = q /\ r[i - 1] = m \div (Radix * p) /\ d[i] = q % Radix
    BY <1>5, <2>1, <2>2
  <2>4. p \in Nat /\ p > 0 /\ q \in Nat
    BY <1>1, <1>2, <2>1
  <2> HIDE DEF p
  <2>5. m \div (Radix * p) = q \div Radix
    BY <1>0, <2>4, QuotientsInTurn
  <2> HIDE DEF q
  <2>6. q = (q \div Radix) * Radix + (q % Radix)
    BY <1>0, <2>4
  <2>7. QED
    BY <2>3, <2>5, <2>6
<1> HIDE DEF r, d
<1>10. Reading(d, r, s)
  BY <1>3, <1>7, <1>9 DEF Reading
<1>11. QED
  BY <1>6, <1>8, <1>10 DEF d

\* A set of numbers up to s has a greatest member.
LEMMA GreatestOf ==
    ASSUME NEW S, NEW s, s \in Nat, S \subseteq 0 .. s, S # {}
    PROVE  Max(S) \in S /\ \A i \in S : i <= Max(S)
<1> DEFINE T == {s - i : i \in S}
<1>1. T \subseteq Nat /\ T # {}
  <2>1. \A i \in S : s - i \in Nat
    OBVIOUS
  <2>2. QED
    BY <2>1
<1>2. PICK x \in T : \A y \in T : x <= y
  <2> HIDE DEF T
  <2>1. QED
    BY <1>1, LeastOf
<1>3. PICK k \in S : x = s - k
  BY <1>2
<1>4. \A i \in S : i <= k
  BY <1>2, <1>3
<1>5. \E k2 \in S : \A i \in S : k2 >= i
  BY <1>4
<1>6. Max(S) \in S /\ \A i \in S : Max(S) >= i
  BY <1>5 DEF Max
<1>7. QED
  BY <1>6

\* Without its last zeros, a fraction stands for the same, in larger units.
LEMMA StrippedReads ==
    ASSUME NEW m, NEW s, m \in Nat, s \in Nat, m < Power[s]
    PROVE  LET t == Stripped(Digits(m, s))
           IN /\ Len(t) \in 0 .. s
              /\ Number(t) \in Nat
              /\ Number(t) * Power[s - Len(t)] = m
<1> DEFINE d == Digits(m, s)
           S == {0} \cup {i \in DOMAIN d : d[i] # 0}
           k == Max(S)
           t == SubSeq(d, 1, k)
<1>0. Radix \in Nat /\ Radix > 0
  BY AmountsAssumption
<1>2. Stripped(Digits(m, s)) = t
  BY DEF Stripped
<1> HIDE DEF t, S, k, d
<1>2a. /\ d \in Seq(Nat) /\ Len(d) = s
      /\ \E f : Reading(d, f, s) /\ f[s] = m
  BY DigitsAre DEF d
<1>2b. PICK r : Reading(d, r, s) /\ r[s] = m
  BY <1>2a
<1>1. /\ d \in Seq(Nat) /\ Len(d) = s /\ DOMAIN d = 1 .. s
      /\ r \in [0 .. s -> Nat] /\ r[0] = 0 /\ r[s] = m
      /\ \A i \in 1 .. s : r[i] = r[i - 1] * Radix + d[i]
  BY <1>2a, <1>2b DEF Reading
<1>3. S \subseteq 0 .. s /\ S # {}
  BY <1>1 DEF S
<1>4. k \in 0 .. s /\ \A i \in 1 .. s : i > k => d[i] = 0
  <2>1. k \in S /\ \A i \in S : i <= k
    BY <1>3, GreatestOf DEF k
  <2>2. QED
    BY <1>1, <1>3, <2>1 DEF S
<1>5. Len(t) = k /\ \A i \in 1 .. k : t[i] = d[i]
  BY <1>1, <1>4 DEF t
<1>6. Number(t) = r[k]
  <2> DEFINE g == [i \in 0 .. k |-> r[i]]
  <2>1. \A i \in 0 .. k : i \in 0 .. s
    BY <1>4
  <2>2. g \in [0 .. k -> Nat] /\ g[0] = 0 /\ g[k] = r[k]
    BY <1>1, <1>4, <2>1
  <2>3. \A i \in 1 .. k : g[i] = g[i - 1] * Radix + t[i]
    <3> SUFFICES ASSUME NEW i \in 1 .. k PROVE g[i] = g[i - 1] * Radix + t[i]
      OBVIOUS
    <3>1. i \in 1 .. s /\ i \in 0 .. k /\ i - 1 \in 0 .. k
      BY <1>4
    <3>2. r[i] = r[i - 1] * Radix + d[i] /\ t[i] = d[i]
      BY <1>1, <1>5, <3>1
    <3>3. QED
      BY <3>1, <3>2
  <2> HIDE DEF g
  <2>4. k \in Nat
    BY <1>4
  <2>5. Reading(t, g, k)
    BY <2>2, <2>3 DEF Reading
  <2>6. Number(t) = g[k]
    BY <1>5, <2>4, <2>5, NumberIs
  <2>7. QED
    BY <2>2, <2>6
<1> DEFINE G == {j \in Nat : k + j <= s => r[k + j] = r[k] * Power[j]}
<1>7. r[k] \in Nat /\ k \in Nat
  BY <1>1, <1>4
<1>8. 0 \in G
  BY <1>7, PowerIs
<1>9. ASSUME NEW j \in Nat, j \in G PROVE j + 1 \in G
  <2> SUFFICES ASSUME k + (j + 1) <= s PROVE r[k + (j + 1)] = r[k] * Power[j + 1]
    OBVIOUS
  <2>1. r[k + j] = r[k] * Power[j]
    BY <1>7, <1>9
  <2>2. k + (j + 1) \in 1 .. s /\ k + (j + 1) > k /\ (k + (j + 1)) - 1 = k + j
    BY <1>7
  <2>3. r[k + (j + 1)] = r[k + j] * Radix + 0
    BY <1>1, <1>4, <2>2
  <2>4. Power[j + 1] = Radix * Power[j] /\ Power[j] \in Nat
    BY PowerIs
  <2> DEFINE a == r[k]
             p == Power[j]
  <2>5. a \in Nat /\ p \in Nat
    BY <1>7, <2>4
  <2> HIDE DEF a, p
  <2>6. (a * p) * Radix + 0 = a * (Radix * p)
    BY <1>0, <2>5
  <2>7. QED
    BY <2>1, <2>3, <2>4, <2>6 DEF a, p
<1>10. r[s] = r[k] * Power[s - k]
  <2> HIDE DEF G
  <2>1. Nat \subseteq G
    BY <1>8, <1>9, AllNumbers
  <2>2. s - k \in Nat /\ k + (s - k) = s
    BY <1>4
  <2>3. QED
    BY <2>1, <2>2 DEF G
<1>11. QED
  BY <1>1, <1>2, <1>4, <1>5, <1>6, <1>7, <1>10

\* A number is printed as it is read, if its unit can be read.
LEMMA FormatReads ==
    ASSUME NEW n, NEW unit, n \in Nat, unit \in Units \ Spaced
    PROVE  Parse(Format(n, unit), unit) = n
<1> DEFINE s == Scale(unit)
           p == Power[s]
           m == n % p
           t == Stripped(Digits(m, s))
           text == Text(n \div p, t, unit)
<1>1. s \in Nat
  BY AmountsAssumption DEF Scale, Units, Money
<1>2. p \in Nat /\ p > 0
  BY <1>1, PowerIs
<1>3. m \in Nat /\ m < p /\ n \div p \in Nat /\ n = (n \div p) * p + m
  <2> HIDE DEF p
  <2>1. QED
    BY <1>2
<1>4. Format(n, unit) = text
  BY DEF Format
<1>5. Len(t) \in 0 .. s /\ Number(t) * Power[s - Len(t)] = m
  <2> HIDE DEF s, m
  <2>1. m \in Nat /\ m < Power[s]
    BY <1>3
  <2>2. QED
    BY <1>1, <2>1, StrippedReads
<1> HIDE DEF m, t, s
<1>6. text.whole = n \div p /\ text.frac = t /\ text.unit = unit
  BY DEF Text
<1> HIDE DEF text, p
<1>7. ~Smallest(text, unit)
  BY <1>6 DEF Smallest
<1>8. Fits(text, unit)
  <2>1. Named(text, unit)
    BY <1>6 DEF Named
  <2>2. QED
    BY <1>1, <1>5, <1>6, <2>1 DEF Fits, s
<1>9. Parse(text, unit) = Scaled(n \div p, t, s)
  BY <1>6, <1>7, <1>8 DEF Parse, s
<1>10. Scaled(n \div p, t, s) = (n \div p) * p + m
  BY <1>5 DEF Scaled, p
<1>11. QED
  BY <1>3, <1>4, <1>9, <1>10

\* With a symbol that is not one word it is refused.
LEMMA SpacedIsRefused ==
    ASSUME NEW n, NEW unit, unit \in Spaced
    PROVE  Parse(Shown(n, unit), unit) = -1
<1> DEFINE text == Format(n, unit)
<1>1. unit \in Tokens /\ unit # "left out" /\ unit \notin {"NEAR", "GAS"}
  BY AmountsAssumption, SymbolsAssumption
<1>2. Shown(n, unit) = text /\ text.unit = unit
  BY <1>1 DEF Shown, Format, Text
<1>3. ~Smallest(text, unit)
  BY <1>1 DEF Smallest
<1>4. ~Fits(text, unit)
  BY <1>1, <1>2 DEF Fits, Named
<1>5. QED
  BY <1>2, <1>3, <1>4 DEF Parse

LEMMA ShownReads ==
    ASSUME NEW n, NEW unit, n \in Nat, unit \in Units \ Spaced
    PROVE  Parse(Shown(n, unit), unit) = n
<1>1. CASE unit = "NEAR" /\ 0 < n /\ n < Power[DustScale]
  <2>1. Shown(n, unit) = Text(n, <<>>, "yocto")
    BY <1>1 DEF Shown
  <2>2. Smallest(Text(n, <<>>, "yocto"), unit)
    BY <1>1 DEF Smallest, Text
  <2>3. Parse(Text(n, <<>>, "yocto"), unit) = n
    BY <2>2 DEF Parse, Text
  <2>4. QED
    BY <2>1, <2>3
<1>2. CASE ~(unit = "NEAR" /\ 0 < n /\ n < Power[DustScale])
  <2>1. Shown(n, unit) = Format(n, unit)
    BY <1>2 DEF Shown
  <2>2. QED
    BY <2>1, FormatReads
<1>3. QED
  BY <1>1, <1>2

\* A value with a unit is not below zero.
NotBelowZero == value.unit \in Units => value.n \in Nat

LEMMA CombineKeepsSign ==
    ASSUME NEW left, NEW right, NEW op, Combine(left, op, right)
    PROVE  NotBelowZero'
<1> DEFINE n == Apply(op, left.n, right.n)
           unit == UnitOf(left, op, right)
<1>1. n \in Int
  BY AmountsAssumption DEF Combine
<1>2. value' = Value(n, IF n < 0 THEN "int" ELSE unit)
  BY DEF Combine, Combined, Wrap
<1>3. "int" \notin Units
  BY NoMoney DEF Units
<1> HIDE DEF n, unit
<1>4. value'.n = n /\ (n < 0 => value'.unit = "int")
  BY <1>2 DEF Value
<1>5. QED
  BY <1>1, <1>3, <1>4 DEF NotBelowZero

\* Whatever a program computes and prints, it reads the same amount back, unless the
\* token's symbol is not one word: then it is refused.
THEOREM ShownIsReadBack == AmountSpec => []ShownReadsBack
<1>1. AmountInit => NotBelowZero
  BY AmountsAssumption DEF AmountInit, Operands, Value, NotBelowZero
<1>2. NotBelowZero /\ [AmountNext]_amountVars => NotBelowZero'
  <2> SUFFICES ASSUME NotBelowZero, [AmountNext]_amountVars PROVE NotBelowZero'
    OBVIOUS
  <2>1. CASE AmountNext
    BY <2>1, CombineKeepsSign DEF AmountNext
  <2>2. CASE UNCHANGED amountVars
    BY <2>2 DEF amountVars, NotBelowZero
  <2>3. QED
    BY <2>1, <2>2
<1>3. NotBelowZero => ShownReadsBack
  BY ShownReads, SpacedIsRefused DEF NotBelowZero, ShownReadsBack
<1>4. QED
  BY <1>1, <1>2, <1>3, PTL DEF AmountSpec

-------------------------------------------------------------------------------
(* Transfers.                                                                  *)

\* The types of what the properties are about.
TransferTypes ==
    /\ req \in [Calls -> Requests]
    /\ pc \in [Calls -> {"start", "view", "store", "parse", "registration", "bounds",
                        "send", "refused"}]
    /\ deposit \in [Calls -> Nat \cup {None}]
    /\ outcome \in [Calls -> [Receipts -> Fates \cup {None}]]
    /\ panic \in [Calls -> Panics \cup {None}]
    /\ registered \in SUBSET Receivers
    /\ minimum \in Nat /\ tokens \in Nat
    /\ moved \in SUBSET Calls /\ added \in SUBSET Calls
    /\ result \in [Calls -> Sends!Results \cup {"pending"}]
    /\ executed \in SUBSET Calls

\* A call that has looked and is not excused finds what its transfer needs: the
\* receiver registered, or a deposit that is enough to register it.
Provided ==
    \A c \in Calls :
        /\ pc[c] # "send" => deposit[c] = None /\ c \notin executed
        /\ HasRun(c, "actions") => c \in executed
        /\ pc[c] = "send" /\ req[c].register /\ ~HasRun(c, "actions") /\ c \notin excused =>
             IF deposit[c] = None THEN req[c].receiver \in registered
             ELSE deposit[c] >= minimum

\* The outcomes agree with what has become of the transfer.
Recorded(c) ==
    /\ outcome[c]["actions"] \in {None, "ok", "failed"}
    /\ outcome[c]["actions"] = "ok" <=> c \in moved
    /\ c \in added => c \in moved
    /\ HasRun(c, "on_transfer") => c \in moved /\ req[c].method # "ft_transfer"
    /\ outcome[c]["resolve"] \in {None, "ok"}

\* What a call was told, its outcomes show, now and later.
Shows(c) ==
    /\ result[c] = "returned" /\ req[c].wait = "EXECUTED"
         => AllRun(c) /\ c \in moved /\ ~Bounced(c)
    /\ result[c] = "panicked" => outcome[c]["actions"] = "failed" \/ Bounced(c)

Known == \A c \in Calls : Recorded(c) /\ Shows(c)

\* What a panic or a transfer leaves of the contract.
LEMMA ActionsRegister ==
    ASSUME TransferTypes, NEW c \in Calls
    PROVE  /\ Actions(c).panic \in Panics \cup {None}
           /\ Actions(c).panic = None =>
                /\ Actions(c).accounts \in SUBSET Receivers /\ Actions(c).tokens \in Nat
                /\ registered \subseteq Actions(c).accounts
           /\ (IF deposit[c] = None THEN req[c].receiver \in registered
               ELSE deposit[c] >= minimum)
                => Actions(c).panic \notin {"low_deposit", "not_registered"}
<1> DEFINE r == req[c].receiver
<1>1. /\ r \in Receivers /\ registered \in SUBSET Receivers /\ tokens \in Nat
      /\ None \notin Panics
  BY TransferAssumption DEF TransferTypes
<1> HIDE DEF r
<1>2. /\ Contract.accounts = registered /\ Contract.tokens = tokens /\ Contract.panic = None
      /\ DOMAIN Contract = {"accounts", "tokens", "panic"}
  BY DEF Contract
<1> DEFINE d == Deposit(c, Contract)
           In(state) == /\ state.accounts \in SUBSET Receivers /\ registered \subseteq state.accounts
                        /\ state.tokens = tokens
<1>3. /\ In(d) /\ d.panic \in {None, "low_deposit"}
      /\ d.panic = None => r \in d.accounts
      /\ deposit[c] >= minimum => d.panic = None
  <2>1. CASE r \in registered
    <3>1. d = Contract
      BY <1>2, <2>1 DEF Deposit, r
    <3> HIDE DEF d
    <3>2. QED
      BY <1>1, <1>2, <2>1, <3>1
  <2>2. CASE r \notin registered /\ deposit[c] >= minimum
    <3>1. d = [Contract EXCEPT !.accounts = registered \cup {r}]
      BY <1>1, <1>2, <2>2 DEF Deposit, r
    <3> HIDE DEF d
    <3>2. QED
      BY <1>1, <1>2, <2>2, <3>1
  <2>3. CASE r \notin registered /\ ~(deposit[c] >= minimum)
    <3>1. d = [Contract EXCEPT !.panic = "low_deposit"]
      BY <1>1, <1>2, <2>3 DEF Deposit, r
    <3> HIDE DEF d
    <3>2. QED
      BY <1>1, <1>2, <2>3, <3>1 DEF Panics
  <2>4. QED
    BY <2>1, <2>2, <2>3
<1>4. DOMAIN d = {"accounts", "tokens", "panic"}
  BY <1>2 DEF Deposit
<1>5. ASSUME NEW state, In(state), state.panic \in {None, "low_deposit"},
             DOMAIN state = {"accounts", "tokens", "panic"}
      PROVE  LET t == Transfer(c, state) IN
               /\ t.panic \in Panics \cup {None}
               /\ t.panic = None => /\ t.accounts \in SUBSET Receivers /\ t.tokens \in Nat
                                    /\ registered \subseteq t.accounts
               /\ state.panic = None /\ r \in state.accounts
                    => t.panic \notin {"low_deposit", "not_registered"}
  <2> DEFINE t == Transfer(c, state)
  <2>1. CASE state.panic # None
    <3>1. t = state
      BY <2>1 DEF Transfer
    <3>2. QED
      BY <1>1, <1>5, <2>1, <3>1 DEF Panics
  <2>2. CASE state.panic = None /\ state.tokens = 0
    <3>1. t = [state EXCEPT !.panic = "no_tokens"]
      BY <2>2 DEF Transfer
    <3> HIDE DEF t
    <3>2. t.panic = "no_tokens"
      BY <1>5, <3>1
    <3>3. QED
      BY <1>1, <3>2 DEF Panics, t
  <2>3. CASE state.panic = None /\ state.tokens # 0 /\ r \in state.accounts
    <3>1. t = [state EXCEPT !.tokens = state.tokens - 1]
      BY <2>3 DEF Transfer, r
    <3> HIDE DEF t
    <3>2. t.panic = None /\ t.accounts = state.accounts /\ t.tokens = tokens - 1
      BY <1>5, <2>3, <3>1
    <3>3. t.tokens \in Nat
      BY <1>1, <1>5, <2>3, <3>2
    <3>4. QED
      BY <1>1, <1>5, <3>2, <3>3 DEF Panics, t
  <2>4. CASE state.panic = None /\ state.tokens # 0 /\ r \notin state.accounts
    <3>1. t = [state EXCEPT !.panic = "not_registered"]
      BY <2>4 DEF Transfer, r
    <3> HIDE DEF t
    <3>2. t.panic = "not_registered"
      BY <1>5, <3>1
    <3>3. QED
      BY <1>1, <2>4, <3>2 DEF Panics, t
  <2>5. QED
    BY <2>1, <2>2, <2>3, <2>4
<1>6. In(Contract)
  BY <1>1, <1>2
<1> HIDE DEF d, In
<1>7. CASE deposit[c] = None
  <2>1. Actions(c) = Transfer(c, Contract)
    BY <1>7 DEF Actions
  <2>2. QED
    BY <1>2, <1>5, <1>6, <1>7, <2>1 DEF r
<1>8. CASE deposit[c] # None
  <2>1. Actions(c) = Transfer(c, d)
    BY <1>8 DEF Actions, d
  <2>2. QED
    BY <1>3, <1>4, <1>5, <1>8, <2>1
<1>9. QED
  BY <1>7, <1>8

\* A receipt that runs is given its outcome, and no other is touched.
LEMMA OutcomeChanges ==
    ASSUME TransferTypes, NEW c \in Calls, NEW receipt \in Receipts, NEW fate \in Fates,
           outcome' = [outcome EXCEPT ![c][receipt] = fate]
    PROVE  /\ outcome' \in [Calls -> [Receipts -> Fates \cup {None}]]
           /\ outcome'[c][receipt] = fate
           /\ \A r \in Receipts \ {receipt} : outcome'[c][r] = outcome[c][r]
           /\ \A d \in Calls \ {c} : outcome'[d] = outcome[d]
  BY DEF TransferTypes

\* The transaction's actions: everything they do is committed, or nothing.
LEMMA ExecuteCommits ==
    ASSUME TransferTypes, NEW c \in Calls, Execute(c)
    PROVE  /\ c \in executed /\ ~HasRun(c, "actions")
           /\ \E fate \in {"ok", "failed"} :
                /\ outcome' = [outcome EXCEPT ![c]["actions"] = fate]
                /\ fate = "ok" => moved' = moved \cup {c} /\ added' \subseteq added \cup {c}
                /\ fate = "failed" => moved' = moved /\ added' = added
           /\ panic' = [panic EXCEPT ![c] = Actions(c).panic]
           /\ registered \subseteq registered' /\ registered' \in SUBSET Receivers
           /\ tokens' \in Nat
           /\ UNCHANGED <<req, pc, deposit, minimum, excused, result, executed>>
<1>1. Contract.accounts = registered /\ Contract.tokens = tokens
  BY DEF Contract
<1>2. CASE Actions(c).panic = None
  BY <1>2, ActionsRegister DEF Execute, Committed, callVars, sendVars
<1>3. CASE Actions(c).panic # None
  BY <1>1, <1>3 DEF Execute, Committed, callVars, sendVars, TransferTypes
<1>4. QED
  BY <1>2, <1>3

\* An answer is looked at if the call waits, and otherwise the call returns.
LEMMA ConclusionsAre ==
    ASSUME TransferTypes, NEW c \in Calls, NEW r, r \in Conclusions(c)
    PROVE  /\ r \in Sends!Results
           /\ r = "panicked" => \E known \in Answers(c) :
                                 "failed" \in Outcomes(c, known) \cup {Status(c, known)}
           /\ r = "returned" /\ c \in Waiting =>
                \E known \in Answers(c) : "failed" \notin Outcomes(c, known)
  BY DEF Conclusions, Conclude, Sends!Results

\* Every step keeps the types.
LEMMA TransferTypesStep ==
    ASSUME TransferTypes, [Next]_vars
    PROVE  TransferTypes'
<1> USE DEF TransferTypes, callVars, cacheVars, contractVars, receiptVars, chainVars, sendVars, Goto
<1>1. ASSUME NEW c \in Calls, CheckMetadata(c) PROVE TransferTypes'
  BY <1>1 DEF CheckMetadata
<1>2. ASSUME NEW c \in Calls, ViewMetadata(c) PROVE TransferTypes'
  BY <1>2 DEF ViewMetadata
<1>3. ASSUME NEW c \in Calls, StoreMetadata(c) PROVE TransferTypes'
  BY <1>3 DEF StoreMetadata
<1>4. ASSUME NEW c \in Calls, ParseAmount(c) PROVE TransferTypes'
  BY <1>4 DEF ParseAmount
<1>5. ASSUME NEW c \in Calls, ViewRegistration(c) PROVE TransferTypes'
  BY <1>5 DEF ViewRegistration
<1>6. ASSUME NEW c \in Calls, ViewBounds(c) PROVE TransferTypes'
  BY <1>6 DEF ViewBounds
<1>7. ASSUME NEW c \in Calls, ViewFails(c) PROVE TransferTypes'
  BY <1>7 DEF ViewFails
<1>8. ASSUME NEW c \in Calls, Include(c) PROVE TransferTypes'
  BY <1>8 DEF Include, Sends!ExecuteFor
<1>9. ASSUME NEW c \in Calls, Execute(c) PROVE TransferTypes'
  <2>1. PICK fate \in {"ok", "failed"} :
          /\ outcome' = [outcome EXCEPT ![c]["actions"] = fate]
          /\ fate = "ok" => moved' = moved \cup {c} /\ added' \subseteq added \cup {c}
          /\ fate = "failed" => moved' = moved /\ added' = added
    BY <1>9, ExecuteCommits
  <2>2. outcome' \in [Calls -> [Receipts -> Fates \cup {None}]]
    BY <2>1 DEF Fates, Receipts
  <2>3. moved' \in SUBSET Calls /\ added' \in SUBSET Calls
    BY <2>1
  <2>4. panic' \in [Calls -> Panics \cup {None}]
    BY <1>9, ExecuteCommits, ActionsRegister
  <2>5. /\ UNCHANGED <<req, pc, deposit, minimum, result, executed>>
        /\ registered' \in SUBSET Receivers /\ tokens' \in Nat
    BY <1>9, ExecuteCommits
  <2>6. QED
    BY <2>2, <2>3, <2>4, <2>5
<1>10. ASSUME NEW c \in Calls, OnTransfer(c) PROVE TransferTypes'
  BY <1>10 DEF OnTransfer, Receipts
<1>11. ASSUME NEW c \in Calls, Resolve(c) PROVE TransferTypes'
  BY <1>11 DEF Resolve, Receipts, Fates
<1>12. ASSUME NEW c \in Calls, End(c) PROVE TransferTypes'
  BY <1>12, ConclusionsAre DEF End, Sends!End
<1>13. ASSUME NEW a \in Receivers, Register(a) \/ Unregister(a) PROVE TransferTypes'
  BY <1>13 DEF Register, Unregister
<1>14. CASE RaiseMinimum \/ ChangeMetadata
  BY <1>14 DEF RaiseMinimum, ChangeMetadata
<1>15. CASE UNCHANGED vars
  <2>1. UNCHANGED <<req, pc, deposit, outcome, panic, registered, minimum, tokens, moved, added,
                    result, executed>>
    BY <1>15 DEF vars
  <2>2. QED
    BY <2>1
<1>16. QED
  BY <1>1, <1>2, <1>3, <1>4, <1>5, <1>6, <1>7, <1>8, <1>9, <1>10, <1>11, <1>12, <1>13, <1>14,
     <1>15
  DEF Next, CallStep

\* A step of one call changes nothing of another call, excuses nobody, and leaves
\* registered who was.
LEMMA CallStepIsOwn ==
    ASSUME TransferTypes, NEW c \in Calls, CallStep(c)
    PROVE  /\ req' = req /\ excused' = excused /\ minimum' = minimum
           /\ registered \subseteq registered'
           /\ \A d \in Calls \ {c} :
                /\ pc'[d] = pc[d] /\ deposit'[d] = deposit[d]
                /\ outcome'[d] = outcome[d] /\ panic'[d] = panic[d]
                /\ result'[d] = result[d]
                /\ d \in executed' <=> d \in executed
                /\ d \in moved' <=> d \in moved
                /\ d \in added' => d \in added
<1> USE DEF TransferTypes, callVars, cacheVars, contractVars, receiptVars, chainVars, sendVars, Goto
<1>1. CASE CheckMetadata(c) \/ ViewMetadata(c) \/ StoreMetadata(c) \/ ParseAmount(c)
  BY <1>1 DEF CheckMetadata, ViewMetadata, StoreMetadata, ParseAmount
<1>2. CASE ViewRegistration(c) \/ ViewBounds(c) \/ ViewFails(c)
  BY <1>2 DEF ViewRegistration, ViewBounds, ViewFails
<1>3. CASE Include(c) \/ End(c)
  BY <1>3 DEF Include, End, Sends!ExecuteFor, Sends!End
<1>4. CASE Execute(c)
  BY <1>4, ExecuteCommits
<1>5. CASE OnTransfer(c) \/ Resolve(c)
  BY <1>5 DEF OnTransfer, Resolve
<1>6. QED
  BY <1>1, <1>2, <1>3, <1>4, <1>5 DEF CallStep

\* The steps of a call before its transaction runs.
LEMMA BeforeRunning ==
    ASSUME TransferTypes, NEW c \in Calls,
           CallStep(c), ~Include(c), ~Execute(c), ~OnTransfer(c), ~Resolve(c), ~End(c)
    PROVE  /\ pc[c] # "send"
           /\ UNCHANGED <<req, excused, registered, minimum, tokens, receiptVars, sendVars>>
  BY DEF CallStep, CheckMetadata, ViewMetadata, StoreMetadata, ParseAmount, ViewRegistration,
         ViewBounds, ViewFails, chainVars, contractVars

\* What a call relies on stays, or its call is excused.
LEMMA ProvidedStep ==
    ASSUME TransferTypes, Provided, [Next]_vars
    PROVE  Provided'
<1> DEFINE Enough(c) == IF deposit[c] = None THEN req[c].receiver \in registered
                        ELSE deposit[c] >= minimum
           ProvidedFor(c) ==
             /\ pc[c] # "send" => deposit[c] = None /\ c \notin executed
             /\ HasRun(c, "actions") => c \in executed
             /\ pc[c] = "send" /\ req[c].register /\ ~HasRun(c, "actions") /\ c \notin excused
                  => Enough(c)
<1> SUFFICES ASSUME NEW d \in Calls
             PROVE  ProvidedFor(d)'
  BY DEF Provided
<1>0. ProvidedFor(d) /\ deposit[d] \in Nat \cup {None}
  BY DEF Provided, TransferTypes
<1>1. ASSUME NEW c \in Calls, CallStep(c), c # d
      PROVE  ProvidedFor(d)'
  <2>1. /\ UNCHANGED <<req, excused, minimum>> /\ registered \subseteq registered'
        /\ pc'[d] = pc[d] /\ deposit'[d] = deposit[d] /\ outcome'[d] = outcome[d]
        /\ d \in executed' <=> d \in executed
    BY <1>1, CallStepIsOwn
  <2>2. QED
    BY <1>0, <2>1 DEF HasRun
<1>2. ASSUME CallStep(d), ~Include(d), ~Execute(d), ~OnTransfer(d), ~Resolve(d), ~End(d)
      PROVE  ProvidedFor(d)'
  <2>1. /\ pc[d] # "send" /\ deposit[d] = None /\ d \notin executed /\ ~HasRun(d, "actions")
        /\ UNCHANGED <<req, excused, registered, minimum, outcome, executed>>
    BY <1>0, <1>2, BeforeRunning DEF receiptVars, sendVars
  <2>2. ~HasRun(d, "actions")'
    BY <2>1 DEF HasRun
  <2> USE DEF TransferTypes, callVars, Goto
  <2>3. CASE CheckMetadata(d) \/ ViewMetadata(d) \/ StoreMetadata(d) \/ ViewFails(d)
    BY <2>1, <2>2, <2>3 DEF CheckMetadata, ViewMetadata, StoreMetadata, ViewFails
  <2>4. CASE ParseAmount(d)
    BY <2>1, <2>2, <2>4 DEF ParseAmount
  <2>5. CASE ViewRegistration(d)
    BY <2>1, <2>2, <2>5 DEF ViewRegistration
  <2>6. CASE ViewBounds(d)
    BY <2>1, <2>2, <2>6, TransferAssumption DEF ViewBounds
  <2>7. QED
    BY <1>2, <2>3, <2>4, <2>5, <2>6 DEF CallStep
<1>3. CASE Include(d) \/ End(d)
  <2>1. /\ UNCHANGED <<req, excused, registered, minimum, outcome, pc, deposit>>
        /\ executed \subseteq executed' /\ pc[d] = "send"
    BY <1>3 DEF Include, End, Sends!ExecuteFor, Sends!End, callVars, chainVars, contractVars,
                receiptVars
  <2>2. QED
    BY <1>0, <2>1 DEF HasRun
<1>4. CASE Execute(d)
  <2>1. /\ d \in executed /\ UNCHANGED <<pc, deposit, executed>>
        /\ HasRun(d, "actions")'
    <3>1. PICK fate \in {"ok", "failed"} : outcome' = [outcome EXCEPT ![d]["actions"] = fate]
      BY <1>4, ExecuteCommits
    <3>2. outcome'[d]["actions"] = fate /\ fate # None
      BY <3>1, OutcomeChanges, TransferAssumption DEF Fates, Receipts
    <3>3. QED
      BY <1>4, <3>2, ExecuteCommits DEF HasRun
  <2>2. QED
    BY <1>0, <2>1
<1>5. CASE OnTransfer(d) \/ Resolve(d)
  <2>1. /\ UNCHANGED <<req, excused, registered, minimum, pc, deposit, executed>>
        /\ outcome'[d]["actions"] = outcome[d]["actions"]
    BY <1>5 DEF OnTransfer, Resolve, callVars, contractVars, sendVars, TransferTypes, Receipts
  <2>2. QED
    BY <1>0, <2>1 DEF HasRun
<1>6. ASSUME NEW a \in Receivers, Register(a)
      PROVE  ProvidedFor(d)'
  BY <1>0, <1>6 DEF Register, callVars, receiptVars, sendVars, HasRun
<1>7. ASSUME NEW a \in Receivers, Unregister(a)
      PROVE  ProvidedFor(d)'
  BY <1>0, <1>7 DEF Unregister, callVars, receiptVars, sendVars, HasRun, Looked
<1>8. CASE RaiseMinimum
  BY <1>0, <1>8 DEF RaiseMinimum, callVars, receiptVars, sendVars, HasRun, Looked
<1>9. CASE ChangeMetadata
  BY <1>0, <1>9 DEF ChangeMetadata, callVars, receiptVars, sendVars, HasRun
<1>10. CASE UNCHANGED vars
  BY <1>0, <1>10 DEF vars, callVars, chainVars, contractVars, receiptVars, sendVars, HasRun
<1>11. QED
  BY <1>1, <1>2, <1>3, <1>4, <1>5, <1>6, <1>7, <1>8, <1>9, <1>10 DEF Next, CallStep

\* The invariants hold throughout.
LEMMA TransfersTyped == Spec => []TransferTypes
<1>1. Init => TransferTypes
  <2> SUFFICES ASSUME Init PROVE TransferTypes
    OBVIOUS
  <2>1. minimum \in Nat /\ tokens \in Nat
    BY TransferAssumption DEF Init
  <2>2. QED
    BY <2>1 DEF Init, TransferTypes, Sends!Init
<1>2. TransferTypes /\ [Next]_vars => TransferTypes'
  BY TransferTypesStep
<1>3. QED
  BY <1>1, <1>2, PTL DEF Spec

LEMMA ProvidedAlways == Spec => []Provided
<1>1. Init => Provided
  BY DEF Init, Provided, HasRun, Receipts, Sends!Init
<1>2. TransferTypes /\ Provided /\ [Next]_vars => Provided'
  BY ProvidedStep
<1>3. QED
  BY <1>1, <1>2, TransfersTyped, PTL DEF Spec

\* Whether a call's outcomes show what it was told is a matter of these alone.
LEMMA KnownDepends ==
    ASSUME NEW d \in Calls, Recorded(d), Shows(d),
           req' = req, outcome'[d] = outcome[d], result'[d] = result[d],
           d \in moved' <=> d \in moved, d \in added' => d \in added
    PROVE  Recorded(d)' /\ Shows(d)'
  BY DEF Recorded, Shows, HasRun, AllRun, ReceiptsOf, Bounced

\* Receipts run in their order, and none of what was told becomes untrue.
LEMMA ReceiptsKeepKnown ==
    ASSUME TransferTypes, Provided, NEW c \in Calls, Recorded(c), Shows(c),
           Execute(c) \/ OnTransfer(c) \/ Resolve(c)
    PROVE  Recorded(c)' /\ Shows(c)'
<1>0. None \notin Fates
  BY TransferAssumption
<1>1. CASE Execute(c)
  <2>1. PICK fate \in {"ok", "failed"} :
          /\ outcome' = [outcome EXCEPT ![c]["actions"] = fate]
          /\ fate = "ok" => moved' = moved \cup {c} /\ added' \subseteq added \cup {c}
          /\ fate = "failed" => moved' = moved /\ added' = added
    BY <1>1, ExecuteCommits
  <2>2. /\ outcome'[c]["actions"] = fate
        /\ \A r \in Receipts \ {"actions"} : outcome'[c][r] = outcome[c][r]
    BY <2>1, OutcomeChanges DEF Fates, Receipts
  <2>3. /\ UNCHANGED <<req, result>> /\ outcome[c]["actions"] = None /\ c \notin moved
        /\ ~HasRun(c, "on_transfer") /\ c \notin added
    BY <1>0, <1>1, ExecuteCommits DEF HasRun, Recorded, Fates
  <2>4. ~Bounced(c)
    BY <1>0, <2>3 DEF HasRun, Bounced, Fates
  <2>5. result[c] # "panicked" /\ ~(result[c] = "returned" /\ req[c].wait = "EXECUTED")
    BY <1>0, <2>3, <2>4 DEF Shows, Fates
  <2>6. Recorded(c)'
    BY <1>0, <2>1, <2>2, <2>3 DEF Recorded, HasRun, Receipts, Fates
  <2>7. QED
    BY <2>3, <2>5, <2>6 DEF Shows
<1>2. CASE OnTransfer(c)
  <2>1. PICK fate \in Fates : outcome' = [outcome EXCEPT ![c]["on_transfer"] = fate]
    BY <1>2 DEF OnTransfer
  <2>2. /\ outcome'[c]["on_transfer"] = fate
        /\ \A r \in Receipts \ {"on_transfer"} : outcome'[c][r] = outcome[c][r]
    BY <2>1, OutcomeChanges DEF Receipts
  <2>3. /\ UNCHANGED <<req, result, moved, added>>
        /\ HasRun(c, "actions") /\ ~HasRun(c, "on_transfer") /\ "on_transfer" \in ReceiptsOf(c)
    BY <1>2 DEF OnTransfer, sendVars
  <2>4. outcome[c]["actions"] = "ok" /\ c \in moved /\ req[c].method # "ft_transfer"
    BY <2>3 DEF HasRun, ReceiptsOf, Recorded
  <2>5. ~AllRun(c) /\ ~Bounced(c)
    BY <1>0, <2>3 DEF AllRun, HasRun, Bounced, Fates
  <2>6. result[c] # "panicked" /\ ~(result[c] = "returned" /\ req[c].wait = "EXECUTED")
    BY <2>4, <2>5 DEF Shows
  <2>7. Recorded(c)'
    BY <1>0, <2>2, <2>3, <2>4 DEF Recorded, HasRun, Receipts, Fates
  <2>8. QED
    BY <2>3, <2>6, <2>7 DEF Shows
<1>3. CASE Resolve(c)
  <2>1. outcome' = [outcome EXCEPT ![c]["resolve"] = "ok"]
    BY <1>3 DEF Resolve
  <2>2. /\ outcome'[c]["resolve"] = "ok"
        /\ \A r \in Receipts \ {"resolve"} : outcome'[c][r] = outcome[c][r]
    BY <2>1, OutcomeChanges DEF Receipts, Fates
  <2>3. UNCHANGED <<req, result, moved, added>>
    BY <1>3 DEF Resolve, sendVars
  <2>4. /\ outcome'[c]["actions"] = outcome[c]["actions"]
        /\ outcome'[c]["on_transfer"] = outcome[c]["on_transfer"]
    BY <2>2 DEF Receipts
  <2>5. Recorded(c)'
    BY <2>2, <2>3, <2>4 DEF Recorded, HasRun
  <2>6. AllRun(c) => AllRun(c)'
    <3>1. ReceiptsOf(c)' = ReceiptsOf(c) /\ ReceiptsOf(c) \subseteq Receipts
      BY <2>3, <2>4 DEF ReceiptsOf, Receipts
    <3>2. ASSUME NEW r \in Receipts, HasRun(c, r) PROVE HasRun(c, r)'
      BY <1>0, <2>2, <3>2 DEF HasRun, Fates
    <3>3. QED
      BY <3>1, <3>2 DEF AllRun
  <2>7. QED
    BY <2>3, <2>4, <2>5, <2>6 DEF Shows, Bounced
<1>4. QED
  BY <1>1, <1>2, <1>3

\* What an answer shows of the outcomes is true of them all, if the call waited for
\* all; a failure it shows is there.
LEMMA EndIsTrue ==
    ASSUME TransferTypes, NEW c \in Calls, Recorded(c), Shows(c), End(c)
    PROVE  Recorded(c)' /\ Shows(c)'
<1>0. None \notin Fates
  BY TransferAssumption
<1>1. PICK r \in Conclusions(c) : Sends!End(c, r)
  BY DEF End
<1>2. UNCHANGED <<req, outcome, moved, added>> /\ result' = [result EXCEPT ![c] = r]
  BY <1>1 DEF End, Sends!End, chainVars, receiptVars
<1>3. Recorded(c)'
  BY <1>2 DEF Recorded, HasRun
<1>4. ASSUME NEW known \in Answers(c)
      PROVE  /\ known \subseteq Receipts
             /\ \A receipt \in known : HasRun(c, receipt)
             /\ req[c].wait = "EXECUTED" => AllRun(c) /\ known = ReceiptsOf(c)
  BY DEF Answers
<1>5. CASE r = "panicked"
  <2>1. PICK known \in Answers(c) : "failed" \in Outcomes(c, known) \cup {Status(c, known)}
    BY <1>5, ConclusionsAre
  <2>2. PICK receipt \in known : outcome[c][receipt] = "failed"
    BY <2>1 DEF Outcomes, Status
  <2>3. receipt \in Receipts
    BY <1>4, <2>1, <2>2
  <2>4. outcome[c]["actions"] = "failed" \/ Bounced(c)
    BY <1>0, <2>2, <2>3 DEF Receipts, Bounced, Recorded, Fates
  <2>5. QED
    BY <1>2, <1>3, <1>5, <2>4 DEF Shows, Bounced, TransferTypes
<1>6. CASE r = "returned" /\ req[c].wait = "EXECUTED"
  <2>1. c \in Waiting
    BY <1>6 DEF Waiting
  <2>2. PICK known \in Answers(c) : "failed" \notin Outcomes(c, known)
    BY <1>6, <2>1, ConclusionsAre
  <2>3. AllRun(c) /\ known = ReceiptsOf(c)
    BY <1>4, <1>6, <2>2
  <2>4. ASSUME NEW receipt \in ReceiptsOf(c) PROVE outcome[c][receipt] \notin {None, "failed"}
    BY <2>2, <2>3 DEF Outcomes, AllRun, HasRun
  <2>5. "actions" \in ReceiptsOf(c)
    BY DEF ReceiptsOf, Receipts
  <2>6. c \in moved
    BY <2>4, <2>5 DEF Recorded
  <2>7. ~Bounced(c)
    <3>1. CASE "on_transfer" \in ReceiptsOf(c)
      BY <2>4, <3>1 DEF Bounced
    <3>2. CASE "on_transfer" \notin ReceiptsOf(c)
      <4>1. ~HasRun(c, "on_transfer")
        BY <2>4, <2>5, <3>2 DEF ReceiptsOf, Receipts, Recorded
      <4>2. QED
        BY <1>0, <4>1 DEF HasRun, Bounced, Fates
    <3>3. QED
      BY <3>1, <3>2
  <2>8. AllRun(c)' /\ Bounced(c)' = Bounced(c)
    BY <1>2, <2>3 DEF AllRun, HasRun, ReceiptsOf, Bounced
  <2>9. QED
    BY <1>2, <1>3, <1>6, <2>6, <2>7, <2>8 DEF Shows, TransferTypes
<1>7. CASE r # "panicked" /\ ~(r = "returned" /\ req[c].wait = "EXECUTED")
  BY <1>2, <1>3, <1>7 DEF Shows, TransferTypes
<1>8. QED
  BY <1>5, <1>6, <1>7

LEMMA KnownStep ==
    ASSUME TransferTypes, Provided, Known, [Next]_vars
    PROVE  Known'
<1> SUFFICES ASSUME NEW d \in Calls
             PROVE  Recorded(d)' /\ Shows(d)'
  BY DEF Known
<1>0. Recorded(d) /\ Shows(d)
  BY DEF Known
<1>1. ASSUME NEW c \in Calls, CallStep(c), c # d
      PROVE  Recorded(d)' /\ Shows(d)'
  BY <1>0, <1>1, CallStepIsOwn, KnownDepends
<1>2. CASE Execute(d) \/ OnTransfer(d) \/ Resolve(d)
  BY <1>0, <1>2, ReceiptsKeepKnown
<1>3. CASE End(d)
  BY <1>0, <1>3, EndIsTrue
<1>4. CASE UNCHANGED <<req, receiptVars, result>>
  <2>1. UNCHANGED <<req, outcome, moved, added, result>>
    BY <1>4 DEF receiptVars
  <2>2. QED
    BY <1>0, <2>1, KnownDepends
<1>5. CASE Include(d)
  BY <1>4, <1>5 DEF Include, Sends!ExecuteFor, chainVars
<1>6. ASSUME CallStep(d), ~Include(d), ~Execute(d), ~OnTransfer(d), ~Resolve(d), ~End(d)
      PROVE  Recorded(d)' /\ Shows(d)'
  BY <1>4, <1>6, BeforeRunning DEF sendVars
<1>7. ASSUME ~\E c \in Calls : CallStep(c)
      PROVE  Recorded(d)' /\ Shows(d)'
  BY <1>4, <1>7 DEF Next, Register, Unregister, RaiseMinimum, ChangeMetadata, vars, chainVars,
                    sendVars
<1>8. QED
  BY <1>1, <1>2, <1>3, <1>5, <1>6, <1>7

LEMMA KnownAlways == Spec => []Known
<1>1. Init => Known
  <2> SUFFICES ASSUME Init, NEW c \in Calls PROVE Recorded(c) /\ Shows(c)
    BY DEF Known
  <2>1. /\ \A receipt \in Receipts : outcome[c][receipt] = None
        /\ moved = {} /\ added = {} /\ result[c] = "pending"
    BY DEF Init, Sends!Init
  <2>2. None \notin Fates
    BY TransferAssumption
  <2>3. QED
    BY <2>1, <2>2 DEF Recorded, Shows, HasRun, Receipts, Fates
<1>2. TransferTypes /\ Provided /\ Known /\ [Next]_vars => Known'
  BY KnownStep
<1>3. QED
  BY <1>1, <1>2, TransfersTyped, ProvidedAlways, PTL DEF Spec

\* A panic, once there, has its excuse.
LEMMA RegisterStep ==
    ASSUME TransferTypes, Provided, RegisterWorks, [Next]_vars
    PROVE  RegisterWorks'
<1> SUFFICES ASSUME NEW d \in Calls, req'[d].register,
                    panic'[d] \in {"not_registered", "low_deposit"}
             PROVE  d \in excused'
  BY DEF RegisterWorks
<1>1. ASSUME NEW c \in Calls, CallStep(c), c # d
      PROVE  d \in excused'
  BY <1>1, CallStepIsOwn DEF RegisterWorks
<1>2. CASE Execute(d)
  <2>1. /\ req' = req /\ excused' = excused /\ d \in executed /\ ~HasRun(d, "actions")
        /\ panic'[d] = Actions(d).panic
    BY <1>2, ExecuteCommits DEF TransferTypes
  <2>2. pc[d] = "send"
    BY <2>1 DEF Provided
  <2>3. QED
    BY <2>1, <2>2, ActionsRegister DEF Provided
<1>3. CASE UNCHANGED <<req, panic>> /\ excused \subseteq excused'
  BY <1>3 DEF RegisterWorks
<1>4. CASE Include(d) \/ OnTransfer(d) \/ Resolve(d) \/ End(d)
  BY <1>3, <1>4 DEF Include, OnTransfer, Resolve, End, chainVars, receiptVars
<1>5. ASSUME CallStep(d), ~Include(d), ~Execute(d), ~OnTransfer(d), ~Resolve(d), ~End(d)
      PROVE  d \in excused'
  BY <1>3, <1>5, BeforeRunning DEF receiptVars
<1>6. ASSUME ~\E c \in Calls : CallStep(c)
      PROVE  d \in excused'
  BY <1>3, <1>6 DEF Next, Register, Unregister, RaiseMinimum, ChangeMetadata, vars, chainVars,
                    receiptVars
<1>7. QED
  BY <1>1, <1>2, <1>4, <1>5, <1>6

\* With register=True the contract refuses a transfer only over what changed after it
\* had looked, or for want of tokens.
THEOREM RegisteringWorks == Spec => []RegisterWorks
<1>1. Init => RegisterWorks
  BY TransferAssumption DEF Init, RegisterWorks, Panics
<1>2. TransferTypes /\ Provided /\ RegisterWorks /\ [Next]_vars => RegisterWorks'
  BY RegisterStep
<1>3. QED
  BY <1>1, <1>2, TransfersTyped, ProvidedAlways, PTL DEF Spec

\* A transfer that waited for its execution and returns has moved the tokens; one that
\* panics has moved nothing and registered nobody, or its receiver's contract failed.
THEOREM TransferResultsAreTrue == Spec => []ResultsAreTrue
<1>1. Known => ResultsAreTrue
  <2> SUFFICES ASSUME Known, NEW c \in Calls
               PROVE  /\ result[c] = "returned" /\ req[c].wait = "EXECUTED"
                           => c \in moved /\ ~Bounced(c)
                      /\ result[c] = "panicked" => c \notin moved \cup added \/ Bounced(c)
    BY DEF ResultsAreTrue
  <2>1. Recorded(c) /\ Shows(c)
    BY DEF Known
  <2>2. QED
    BY <2>1 DEF Recorded, Shows
<1>2. QED
  BY <1>1, KnownAlways, PTL

-------------------------------------------------------------------------------
(* The metadata cache.                                                         *)

\* As long as no two calls filled the cold cache together, at most one is filling
\* it, and none is once it is warm.
OneFills ==
    ~raced => /\ \A c, d \in Filling : c = d
              /\ ftMeta # None => Filling = {}

\* A call that does not look at the cache or store into it may only stop filling.
LEMMA FillingSteps ==
    ASSUME TransferTypes, [Next]_vars
    PROVE  \/ ftMeta' = ftMeta /\ raced' = raced /\ Filling' \subseteq Filling
           \/ \E c \in Calls : CheckMetadata(c) \/ StoreMetadata(c)
<1>1. ASSUME NEW c \in Calls, CallStep(c), ~CheckMetadata(c), ~StoreMetadata(c)
      PROVE  ftMeta' = ftMeta /\ raced' = raced /\ Filling' \subseteq Filling
  <2>1. CASE ViewMetadata(c)
    BY <2>1 DEF ViewMetadata, Goto, Filling, cacheVars, TransferTypes
  <2>2. CASE ParseAmount(c) \/ ViewRegistration(c) \/ ViewBounds(c) \/ ViewFails(c)
    BY <2>2 DEF ParseAmount, ViewRegistration, ViewBounds, ViewFails, Goto, Filling,
                cacheVars, TransferTypes
  <2>3. CASE Include(c) \/ Execute(c) \/ OnTransfer(c) \/ Resolve(c) \/ End(c)
    BY <2>3 DEF Include, Execute, OnTransfer, Resolve, End, Filling, callVars, cacheVars
  <2>4. QED
    BY <1>1, <2>1, <2>2, <2>3 DEF CallStep
<1>2. CASE ~\E c \in Calls : CallStep(c)
  BY <1>2 DEF Next, Register, Unregister, RaiseMinimum, ChangeMetadata, vars, callVars,
              cacheVars, Filling
<1>3. QED
  BY <1>1, <1>2

\* Who starts to fill a cold cache while nobody else does is alone until it has.
LEMMA OneFillsStep ==
    ASSUME TransferTypes, OneFills, [Next]_vars
    PROVE  OneFills' /\ (ftMeta # None /\ ~raced => ftMeta' = ftMeta)
<1>1. ASSUME NEW c \in Calls, CheckMetadata(c)
      PROVE  OneFills' /\ ftMeta' = ftMeta
  <2>1. /\ ftMeta' = ftMeta /\ raced' = (raced \/ (ftMeta = None /\ Filling # {}))
        /\ pc' = [pc EXCEPT ![c] = IF ftMeta = None THEN "view" ELSE "parse"]
    BY <1>1 DEF CheckMetadata, Goto
  <2>2. Filling' \subseteq Filling \cup {c} /\ (ftMeta # None => Filling' \subseteq Filling)
    BY <2>1 DEF Filling, TransferTypes
  <2>3. QED
    BY <2>1, <2>2 DEF OneFills
<1>2. ASSUME NEW c \in Calls, StoreMetadata(c)
      PROVE  OneFills' /\ (ftMeta # None /\ ~raced => ftMeta' = ftMeta)
  <2>1. c \in Filling /\ raced' = raced
    BY <1>2 DEF StoreMetadata, Filling
  <2>2. Filling' \subseteq Filling \ {c}
    BY <1>2 DEF StoreMetadata, Goto, Filling, TransferTypes
  <2>3. QED
    BY <2>1, <2>2 DEF OneFills
<1>3. CASE ftMeta' = ftMeta /\ raced' = raced /\ Filling' \subseteq Filling
  BY <1>3 DEF OneFills
<1>4. QED
  BY <1>1, <1>2, <1>3, FillingSteps

\* Metadata once cached stays, unless two calls filled the cold cache together.
THEOREM MetadataIsCachedForLife == Spec => CachedForLife
<1>1. Init => OneFills
  BY DEF Init, OneFills, Filling
<1>2. TransferTypes /\ OneFills /\ [Next]_vars => OneFills'
  BY OneFillsStep
<1>3. TransferTypes /\ OneFills /\ [Next]_vars
        => [ftMeta # None /\ ~raced => ftMeta' = ftMeta]_vars
  BY OneFillsStep
<1>4. QED
  BY <1>1, <1>2, <1>3, TransfersTyped, PTL DEF Spec, CachedForLife
================================================================================
