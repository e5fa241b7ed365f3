---------------------------- MODULE MCTokenTransfer ----------------------------
(* Small instances of TokenTransfer for TLC.                                   *)
EXTENDS TokenTransfer, TLC

CONSTANT bob

\* One transfer as most are made; what differs from it in the others: the method, how
\* long they wait, that they do not register, and an amount with its own metadata.
Usual == [method |-> "ft_transfer", receiver |-> bob, register |-> TRUE, amount |-> None,
          wait |-> "EXECUTED"]
SmallRequests ==
    {Usual, [Usual EXCEPT !.register = FALSE], [Usual EXCEPT !.amount = 0, !.wait = "NONE"],
     [Usual EXCEPT !.method = "ft_transfer_call"],
     [Usual EXCEPT !.method = "ft_transfer_call", !.wait = "INCLUDED"]}

TransferSymmetry == Permutations(Calls)
================================================================================
