---------------------------- MODULE ExecutionReport ----------------------------
(* What a send that waits makes of the node's answer (rpc.py): it raises       *)
(* ContractPanicError or returns.  Which failure it reports is ClientCalls'.   *)

\* Defect: only the status of the whole transaction is looked at.
ConcludeByStatus(outcomes, status) == IF status = "failed" THEN "panicked" ELSE "returned"

\* raise_for_execution_failure, of the answer's outcomes, the transaction's and its
\* receipts', and its status.  An answer may come before all receipts have run.
Conclude(outcomes, status) ==
    IF "failed" \in outcomes \cup {status} THEN "panicked" ELSE "returned"
================================================================================
