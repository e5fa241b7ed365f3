-------------------------------- MODULE SendOnce --------------------------------
(* What send_transaction promises its callers, whatever the node, the network  *)
(* and the other calls do: a call's actions are executed at most once; a call  *)
(* that returns or panics after waiting has had them executed; and one that    *)
(* raises InvalidNonceError has not, then or later, so its caller may send     *)
(* again.  Any other error leaves the execution open, for good or for now.     *)

CONSTANT Calls

VARIABLES
    waiting,    \* the calls whose wait_until is not NONE; fixed from the start
    result,     \* "pending", or how the call ended
    executed    \* the calls whose transaction the chain has taken: its nonce is used and
                \* its actions are executed, though receipts may still have to run

vars == <<waiting, result, executed>>

Results == {"returned", "panicked", "invalid_nonce", "error"}

Init ==
    /\ waiting \in SUBSET Calls
    /\ result = [c \in Calls |-> "pending"]
    /\ executed = {}

\* Transactions of clones can be the same bytes: one execution serves them all.
ExecuteFor(S) ==
    /\ S # {} /\ S \cap executed = {}
    /\ \A c \in S : result[c] # "invalid_nonce"
    /\ executed' = executed \cup S
    /\ UNCHANGED <<waiting, result>>

End(c, r) ==
    /\ result[c] = "pending"
    /\ r = "panicked" => c \in waiting
    /\ r \in {"returned", "panicked"} /\ c \in waiting => c \in executed
    /\ r = "invalid_nonce" => c \notin executed
    /\ result' = [result EXCEPT ![c] = r]
    /\ UNCHANGED <<waiting, executed>>

Next == \/ \E S \in SUBSET Calls : ExecuteFor(S)
        \/ \E c \in Calls, r \in Results : End(c, r)

Spec == Init /\ [][Next]_vars
=================================================================================
