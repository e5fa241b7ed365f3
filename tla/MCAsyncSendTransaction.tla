------------------------ MODULE MCAsyncSendTransaction ------------------------
(* Small instances of AsyncSendTransaction for TLC.                            *)
EXTENDS AsyncSendTransaction

CONSTANTS alice, transfer, wallet

StartNonces == [k \in Counters |-> 0]

\* Tasks of one client on one key, in both modes.
BothModes == {r \in RequestType : r.wait = "EXECUTED_OPTIMISTIC"}
===============================================================================
