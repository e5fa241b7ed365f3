--------------------------- MODULE MCSendTransaction ---------------------------
(* Small instances of SendTransaction for TLC.                                 *)
EXTENDS SendTransaction, TLC

CONSTANTS alice, transfer, other, wallet, clone

\* The access key is fresh, lane 0 has been used by a program that ran before.
StartNonces == [k \in Counters |-> IF k[2] = None THEN 0 ELSE 2]

Default(p) == [client |-> wallet, signer |-> alice, lane |-> None, strict |-> FALSE,
               wait |-> "EXECUTED_OPTIMISTIC", payload |-> p]

\* Ordinary sends of one client.
MonotonicRequests == {Default(transfer)}

\* Strict sends of one client that wait for execution.
StrictRequests == {[r EXCEPT !.strict = TRUE] : r \in {Default(transfer), Default(other)}}

\* Strict sends that do not wait.
StrictNoWaitRequests == {[Default(transfer) EXCEPT !.strict = TRUE, !.wait = "NONE"]}

\* Everything together: two clients, two counters, both modes, both waits.
MixedRequests == {r \in RequestType : r.signer = alice /\ r.payload = transfer}

CallSymmetry == Permutations(Calls)
================================================================================
