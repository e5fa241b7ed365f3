-------------------------------- MODULE Amounts --------------------------------
(* NEAR amounts, gas and token amounts (units.py, tokens.py): how they are     *)
(* parsed, printed and computed with.  A program holds one value at a time,    *)
(* typed with its unit or a plain int, and combines it with others.  Digits    *)
(* are in base Radix, with the scale of each unit, small in the instances.     *)
EXTENDS Integers, Sequences, SequencesExt, FiniteSetsExt

CONSTANTS
    Radix,          \* 10 in the code
    NearScale,      \* 24: one NEAR is Radix^24 yocto
    DustScale,      \* 21: smaller amounts are printed in yocto
    GasScale,       \* 12: one Tgas is Radix^12 gas
    Tokens,         \* token metadata: a symbol with its decimals
    Decimals,       \* the decimals of each token
    Spaced,         \* the tokens whose symbol has a space before, in or after a word
    Limit           \* bound: of every number a program uses

ASSUME AmountsAssumption ==
    /\ Radix \in Nat \ {0, 1}
    /\ NearScale \in Nat /\ DustScale \in 0 .. NearScale
    /\ GasScale \in Nat
    /\ Decimals \in [Tokens -> Nat] /\ Tokens \cap {"NEAR", "GAS", "int"} = {}
    /\ Limit \in Nat

ASSUME SymbolsAssumption == Spaced \subseteq Tokens /\ "left out" \notin Tokens

\* The units of amounts, and gas, which is an int to every amount.
Money == {"NEAR"} \cup Tokens
Units == Money \cup {"GAS"}
Scale(u) == CASE u = "NEAR" -> NearScale [] u = "GAS" -> GasScale [] OTHER -> Decimals[u]

\* A text is a whole number, the digits of its fraction, and what it is in.
Text(whole, frac, unit) == [whole |-> whole, frac |-> frac, unit |-> unit]

Power[n \in Nat] == IF n = 0 THEN 1 ELSE Radix * Power[n - 1]

Number(digits) ==
    LET read[i \in 0 .. Len(digits)] ==
            IF i = 0 THEN 0 ELSE read[i - 1] * Radix + digits[i]
    IN read[Len(digits)]

Digits(n, width) == [i \in 1 .. width |-> (n \div Power[width - i]) % Radix]

\* rjust(scale, "0").rstrip("0")
Stripped(digits) == SubSeq(digits, 1, Max({0} \cup {i \in DOMAIN digits : digits[i] # 0}))

\* Defect: the fraction is not filled up with zeros.
ScaledUnpadded(whole, frac, scale) == whole * Power[scale] + Number(frac)

\* _decimal_to_scaled_int, for a fraction that is not too long.
Scaled(whole, frac, scale) ==
    whole * Power[scale] + Number(frac) * Power[scale - Len(frac)]

\* Texts that are whole numbers of the smallest unit: "7 yocto", and bare digits for gas.
Smallest(text, unit) ==
    /\ text.frac = <<>>
    /\ <<unit, text.unit>> \in {<<"NEAR", "yocto">>, <<"GAS", "raw">>}

\* A token's symbol can be left out, and is read as one word (_TOKEN_RE).
Named(text, unit) ==
    \/ text.unit = unit /\ unit \notin Spaced
    \/ text.unit = "left out" /\ unit \in Tokens

\* Texts in the unit itself, with no more decimals than it has.
Fits(text, unit) == Named(text, unit) /\ Len(text.frac) <= Scale(unit)

\* Amount(text), Gas(text), TokenAmount.parse(text, metadata): -1 stands for
\* UnitParseError.
Parse(text, unit) ==
    CASE Smallest(text, unit) -> text.whole
      [] ~Smallest(text, unit) /\ Fits(text, unit) -> Scaled(text.whole, text.frac, Scale(unit))
      [] OTHER -> -1

\* _format_scaled
Format(n, unit) ==
    Text(n \div Power[Scale(unit)],
         Stripped(Digits(n % Power[Scale(unit)], Scale(unit))), unit)

\* __str__: dust is printed in yocto.
Shown(n, unit) ==
    IF unit = "NEAR" /\ 0 < n /\ n < Power[DustScale]
    THEN Text(n, <<>>, "yocto")
    ELSE Format(n, unit)

-------------------------------------------------------------------------------
(* Arithmetic.  The unit of a value is "int" when it is a plain int.           *)

Ops == {"+", "-", "*", "//", "%"}
Value(n, unit) == [n |-> n, unit |-> unit]

Apply(op, a, b) ==
    CASE op = "+" -> a + b
      [] op = "-" -> a - b
      [] op = "*" -> a * b
      [] op = "//" -> a \div b
      [] op = "%" -> a % b

\* Defect: only a token amount on the left looks at the other side.
RejectedFromTokens(left, right) ==
    left.unit \in Tokens /\ right.unit \in Money /\ left.unit # right.unit

\* _reject_mixed, _reject_token_amount: different units on the two sides.
Rejected(left, right) ==
    left.unit \in Money /\ right.unit \in Money /\ left.unit # right.unit

\* Which side's method runs: an amount's on the left; an amount's on the right of a
\* plain int, if it defines the operation; int's own for the rest, gas included.
UnitOf(left, op, right) ==
    IF left.unit \in Money THEN left.unit
    ELSE IF left.unit = "int" /\ right.unit \in Money /\ op \in {"+", "-", "*"} THEN right.unit
    ELSE "int"

\* A plain int divided by an amount, or gas before one: the amount's unit is lost.
UnitLost(left, op, right) == right.unit \in Money /\ UnitOf(left, op, right) = "int"

\* _wrap, _preserve: a negative result is a plain int.
Wrap(n, unit) == Value(n, IF n < 0 THEN "int" ELSE unit)

Combined(left, op, right) ==
    Wrap(Apply(op, left.n, right.n), UnitOf(left, op, right))

VARIABLES
    value,      \* the program's current value
    sources,    \* history: the units of everything that went into it
    hidden      \* history: whether a result on the way was an int without its unit

amountVars == <<value, sources, hidden>>

\* as_amount, as_token_amount: what a method of the client accepts.
Accepts(v, unit) == v.unit = unit

Operands == {Value(n, u) : n \in 0 .. Limit, u \in Units \cup {"int"}}

AmountInit ==
    /\ value \in Operands
    /\ sources = {value.unit} \cap Money
    /\ hidden = FALSE

\* The program combines its value with another, on either side.  The divisor
\* is positive; every number stays within the bound.
Combine(left, op, right) ==
    /\ op \in {"//", "%"} => right.n > 0
    /\ ~Rejected(left, right)
    /\ Apply(op, left.n, right.n) \in -Limit .. Limit
    /\ value' = Combined(left, op, right)
    /\ sources' = sources \cup ({left.unit, right.unit} \cap Money)
    /\ hidden' = (hidden \/ value'.n < 0 \/ UnitLost(left, op, right))

AmountNext == \E v \in Operands, op \in Ops : Combine(value, op, v) \/ Combine(v, op, value)

AmountSpec == AmountInit /\ [][AmountNext]_amountVars

-------------------------------------------------------------------------------
(* Properties.                                                                 *)

\* Whatever amount a program computes, what is printed for it is read back as
\* the same amount, on both sides of the dust limit and with every fraction
\* (units.py:112-116, 183-216, 29-42).  An amount of a token whose symbol is not one
\* word is printed too, but that is refused (tokens.py:23, 88-96), never misread.
ShownReadsBack ==
    value.unit \in Units =>
        Parse(Shown(value.n, value.unit), value.unit)
            = IF value.unit \in Spaced THEN -1 ELSE value.n

\* What a client method takes for an amount or for gas has no amount of another unit
\* in it, unless a result below zero, a plain int divided by an amount, or gas before
\* an amount has hidden a unit on the way: these three are plain ints.  Gas after an
\* amount counts as a plain int, and is not refused (tokens.py:54-56, units.py:245-255).
UnitsKeptApart ==
    ~hidden => \A u \in Units : Accepts(value, u) => sources \subseteq {u}
================================================================================
