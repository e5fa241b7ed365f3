------------------------------ MODULE RpcTransport ------------------------------
(* One call of RpcTransport.call (rpc.py), sync or async: the posts of one     *)
(* request, how each answer is classified, and when the request is posted      *)
(* again.  SendTransaction uses the outcome of this loop for its send_tx.      *)
EXTENDS Integers

CONSTANTS
    None,
    Retries,            \* retries: a request is posted at most Retries + 1 times
    Statuses,           \* HTTP status codes
    Names               \* error and cause names a node may report

ASSUME TransportAssumption ==
    /\ Retries \in Nat
    /\ Statuses \subseteq Nat
    /\ None \notin Names

\* The variants of InvalidTxError the client tells apart, and one it does not.
TxErrors == {"InvalidNonce", "NotEnoughBalance", "NotEnoughGasKeyBalance",
             "Expired", "InvalidSignature"}

\* A JSON-RPC error: the names of its cause and of itself, and the InvalidTxError
\* in its data, directly or inside TxExecutionError (None: no such data).
Errors == [cause : Names \cup {None}, name : Names \cup {None}, tx : TxErrors \cup {None}]

\* What a body is: no JSON at all; JSON that is no object, or an object whose
\* error is no object; a result; or an error.
Answers ==
    [status : Statuses, body : {"not_json", "not_object", "odd_error", "result"}, error : {None}]
        \cup [status : Statuses, body : {"error"}, error : Errors]

RetryableStatus == {408, 429, 503}
RetryableCauses == {"TIMEOUT_ERROR", "NO_SYNCED_BLOCKS", "NOT_SYNCED_YET", "INTERNAL_ERROR"}

-------------------------------------------------------------------------------
(* Classification.                                                             *)

\* cause.get("name") or error.get("name") or "UNKNOWN"
CauseName(error) == IF error.cause # None THEN error.cause
                    ELSE IF error.name # None THEN error.name ELSE "UNKNOWN"

QueryErrors == [UNKNOWN_ACCOUNT |-> "AccountNotFoundError",
                INVALID_ACCOUNT |-> "InvalidAccountIdError",
                UNKNOWN_ACCESS_KEY |-> "AccessKeyNotFoundError",
                UNKNOWN_GAS_KEY |-> "AccessKeyNotFoundError",
                NO_CONTRACT_CODE |-> "ContractNotFoundError",
                NO_GLOBAL_CONTRACT_CODE |-> "ContractNotFoundError"]

InvalidTxErrors == [InvalidNonce |-> "InvalidNonceError",
                    NotEnoughBalance |-> "InsufficientBalanceError",
                    NotEnoughGasKeyBalance |-> "InsufficientBalanceError",
                    Expired |-> "TransactionExpiredError"]

RetryableHttp(status) == status \in RetryableStatus \/ status >= 500

\* An exception, by its class and by the retryable flag of an RpcError.
Rpc(retryable) == IF retryable THEN "RpcError(retryable)" ELSE "RpcError"

NearErrors == {"AccountNotFoundError", "InvalidAccountIdError", "AccessKeyNotFoundError",
               "ContractNotFoundError", "InvalidNonceError", "InsufficientBalanceError",
               "TransactionExpiredError", Rpc(TRUE), Rpc(FALSE)}

\* None is neither an answer nor what one is handled as.
ASSUME OutcomeAssumption ==
    None \notin Answers /\ None \notin NearErrors \cup {"result", "AttributeError"}

\* Defect: the HTTP status is looked at before the error's own details.
StatusFirst(error, status) ==
    LET name == CauseName(error)
    IN  IF RetryableHttp(status) THEN Rpc(TRUE)
        ELSE IF name \in DOMAIN QueryErrors THEN QueryErrors[name]
        ELSE IF name = "INVALID_TRANSACTION" /\ error.tx \in DOMAIN InvalidTxErrors
             THEN InvalidTxErrors[error.tx]
        ELSE Rpc(name \in RetryableCauses)

\* classify_rpc_error: the details decide before the HTTP status does.
Classify(error, status) ==
    LET name == CauseName(error)
    IN  IF name \in DOMAIN QueryErrors THEN QueryErrors[name]
        ELSE IF name = "INVALID_TRANSACTION" /\ error.tx \in DOMAIN InvalidTxErrors
             THEN InvalidTxErrors[error.tx]
        ELSE Rpc(name \in RetryableCauses \/ RetryableHttp(status))

\* _handle: the result, or the exception it raises.
Handle(answer) ==
    CASE answer.body = "not_json" -> Rpc(answer.status >= 500)
      [] answer.body \in {"not_object", "odd_error"} -> "AttributeError"
      [] answer.body = "result" -> "result"
      [] answer.body = "error" -> Classify(answer.error, answer.status)

-------------------------------------------------------------------------------
(* The retry loop.                                                             *)

VARIABLES
    pc,         \* "post", "wait" for the answer, "sleep", or "done"
    attempt,    \* the number of the current post, from 0
    slept,      \* how many initial delays the call has slept
    outcome,    \* what the call returned or raised, None while it runs
    posts,      \* history: how often the request was posted
    last        \* history: the last answer, None if it was lost or has not come

vars == <<pc, attempt, slept, outcome, posts, last>>

Init ==
    /\ pc = "post"
    /\ attempt = 0
    /\ slept = 0
    /\ outcome = None
    /\ posts = 0
    /\ last = None

Post ==
    /\ pc = "post" /\ pc' = "wait"
    /\ posts' = posts + 1
    /\ last' = None
    /\ UNCHANGED <<attempt, slept, outcome>>

End(result) == pc' = "done" /\ outcome' = result /\ UNCHANGED <<attempt, slept>>

\* Defect: every NearError whose class says retryable is posted again.
MayRetryByClass(result) ==
    result \in {Rpc(TRUE), "InvalidNonceError", "TransactionExpiredError"}

\* except RpcError: only a retryable RpcError is tried again.
MayRetry(result) == result = Rpc(TRUE)

\* Defect: one retry too many.
NextTryOneMore(result) ==
    IF attempt <= Retries
    THEN pc' = "sleep" /\ attempt' = attempt + 1 /\ UNCHANGED <<slept, outcome>>
    ELSE End(result)

\* The loop goes round again, or raises the last error when it is through.
NextTry(result) ==
    IF attempt < Retries
    THEN pc' = "sleep" /\ attempt' = attempt + 1 /\ UNCHANGED <<slept, outcome>>
    ELSE End(result)

\* An answer arrives.
Receive(answer) ==
    /\ pc = "wait"
    /\ last' = answer /\ UNCHANGED posts
    /\ IF MayRetry(Handle(answer)) THEN NextTry(Handle(answer)) ELSE End(Handle(answer))

\* Defect: only RpcError is caught.
LoseUncaught ==
    /\ pc = "wait"
    /\ UNCHANGED <<posts, last>>
    /\ End("HTTPError")

\* httpx.HTTPError: no connection, no answer in time, a broken answer.
Lose ==
    /\ pc = "wait"
    /\ UNCHANGED <<posts, last>>
    /\ NextTry(Rpc(TRUE))

\* retry_initial_delay * 2 ** (attempt - 1)
Sleep ==
    /\ pc = "sleep"
    /\ slept' = slept + 2 ^ (attempt - 1)
    /\ pc' = "post"
    /\ UNCHANGED <<attempt, outcome, posts, last>>

Done == pc = "done" /\ UNCHANGED vars

Next == Post \/ Lose \/ Sleep \/ Done \/ \E answer \in Answers : Receive(answer)

Spec == Init /\ [][Next]_vars

-------------------------------------------------------------------------------
(* Properties.                                                                 *)

\* The node has decided about the request: it answered with a result, or with an
\* InvalidTxError the client knows.
Decides(answer) ==
    /\ answer # None
    /\ \/ answer.body = "result"
       \/ /\ answer.body = "error"
          /\ CauseName(answer.error) = "INVALID_TRANSACTION"
          /\ answer.error.tx \in DOMAIN InvalidTxErrors

\* The node's decision is the last thing that happens: it is never answered with
\* another post, although InvalidNonceError is a retryable error for the
\* application, and whatever HTTP status it came with (rpc.py:248-253).
DecisionEndsCall == Decides(last) => pc = "done"

\* A rejected nonce always reaches send_transaction as InvalidNonceError, the one
\* exception it resynchronises on, also behind a 5xx or a 429 (rpc.py:64-68).
RejectedNonceIsReported ==
    Decides(last) /\ last.body = "error" => outcome = InvalidTxErrors[last.error.tx]

\* A call reports a transient failure only when all Retries + 1 posts failed so,
\* after all the sleeps of the exponential backoff (rpc.py:242-254).
TransientOnlyWhenSpent ==
    outcome = Rpc(TRUE) => /\ posts = Retries + 1
                           /\ slept = 2 ^ Retries - 1
                           /\ ~Decides(last)
=================================================================================
