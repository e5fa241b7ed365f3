------------------------------ MODULE MCDelegates ------------------------------
(* Small instances of Delegates for TLC.                                       *)
EXTENDS Delegates, TLC

SmallArguments == {[nonce |-> None, height |-> None], [nonce |-> 2, height |-> 3]}

RelaySymmetry == Permutations(Signings) \cup Permutations(Calls)
================================================================================
