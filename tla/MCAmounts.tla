------------------------------- MODULE MCAmounts -------------------------------
(* A small instance of Amounts for TLC.                                        *)
EXTENDS Amounts

CONSTANTS usdt, wnear, coin

SmallDecimals == [t \in Tokens |-> IF t = wnear THEN 4 ELSE 2]
================================================================================
