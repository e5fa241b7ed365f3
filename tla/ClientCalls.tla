------------------------------ MODULE ClientCalls ------------------------------
(* One method call of a client, sync or async, on top of its RPC: which block  *)
(* it asks about, and what it makes of the result or of the exception of       *)
(* RpcTransport.  The chain moves on meanwhile.                                *)
EXTENDS RpcTransport, Sequences

CONSTANTS
    Lag,            \* how many blocks the final head may trail
    MaxHeight,      \* bound: of the chain
    MaxReceipts     \* bound: of the receipts of a transaction

ASSUME ClientAssumption == Lag \in Nat /\ MaxHeight \in Nat \ {0} /\ MaxReceipts \in Nat

VARIABLES
    op,         \* the call: its method, target and block
    given,      \* what it returned or raised, None while it runs
    content,    \* history: the result it was given, None if there is none
    head,       \* chain: the optimistic head
    final,      \* chain: the final head
    wrote       \* history: the block of the caller's last transaction

callVars == <<op, given, content>>
chainVars == <<head, final, wrote>>

GlobalReads == {"global_contract", "global_contract_exists"}
DefaultingReads == {"account", "access_keys", "contract_code", "transaction_status"}
KeyReads == {"access_key", "nonce"}             \* _fetch_access_key
GasKeyReads == {"gas_key_nonces", "lane_nonce"} \* _fetch_gas_key_nonces

\* The block= of a call: nothing, a finality, or an earlier block's height or hash.
Blocks == {None, "optimistic", "near-final", "final", "past"}

Ops ==
    [method : GlobalReads, target : {"none", "both", "hash", "short_hash", "account"}, block : Blocks]
        \cup [method : {"contract_code"}, target : {"none", "account"}, block : Blocks]
        \cup [method : DefaultingReads \ {"contract_code"}, target : {"none", "account"}, block : {None}]
        \cup [method : {"account_exists", "access_key", "send"},
              target : {"account"}, block : {None}]
        \cup [method : {"view", "gas_key_nonces"}, target : {"account"}, block : Blocks]
        \cup [method : {"nonce", "lane_nonce"}, target : {"account"}, block : {"optimistic", "final"}]

\* ValueError before anything is posted: no account and no signer, or not exactly
\* one of a code hash of 32 bytes and a publisher.
BadArguments(o) ==
    \/ o.method \in DefaultingReads /\ o.target = "none"
    \/ o.method \in GlobalReads /\ o.target \notin {"hash", "account"}

\* Defect: reads are final unless asked otherwise.
FinalRef(block) == IF block = None THEN "final" ELSE block

\* _block_ref
BlockRef(block) == IF block = None THEN "optimistic" ELSE block

\* The block a query is about.
View(o) == IF o.method = "access_key" THEN "final" ELSE BlockRef(o.block)

\* The heights at which the node may look (external).
Shown(view) == CASE view = "optimistic" -> {head}
                 [] view = "near-final" -> final .. head
                 [] view = "final"      -> {final}
                 [] view = "past"       -> {1}

-------------------------------------------------------------------------------
(* Results.                                                                    *)

\* What has become of a transaction or receipt: nothing wrong; a panic with a
\* message; another failing action; a failure in another form; or an empty one.
Failing == {"panic", "action", "odd"}
Outcomes == Failing \cup {"ok", "empty"}

\* The result of send_tx: the transaction's outcome, its receipts' in the order of
\* the answer, and the status of the whole.
Executions == [tx : Outcomes, receipts : UNION {[1 .. n -> Outcomes] : n \in 0 .. MaxReceipts},
               status : Outcomes]

\* The forms of a successful result; "odd" is one of another shape than asked for.
Forms(method) ==
    CASE method = "view"        -> {"panic", "empty", "json", "bytes", "odd"}
      [] method \in KeyReads    -> {"value", "missing", "error", "odd"}
      [] method = "lane_nonce"  -> {"value", "too_few", "odd"}
      [] OTHER                  -> {"value", "odd"}

\* None is no result.
ASSUME ResultAssumption ==
    None \notin [form : UNION {Forms(o.method) : o \in Ops}, at : Nat, run : Executions \cup {None}]

Results(o) == {r \in [form : Forms(o.method), at : Shown(View(o)), run : Executions \cup {None}] :
                 r.run # None <=> o.method = "send" /\ r.form = "value"}

\* What a method does: it returns something of a block, or raises an exception that
\* names an account, or an outcome (0: the status) with its text.
Returns(what, at) == [kind |-> "returns", what |-> what, at |-> at,
                      account |-> None, failure |-> None]
Raises(class) == [kind |-> "raises", what |-> class, at |-> None,
                  account |-> None, failure |-> None]
RaisesMissingKey == [Raises("AccessKeyNotFoundError") EXCEPT !.account = "asked"]
RaisesPanic(failure) == [Raises("ContractPanicError") EXCEPT !.failure = failure]

\* _extract_panic, or else _summarize_failure
Text(fate) == CASE fate = "panic"  -> "message"
                [] fate = "action" -> "summary"
                [] OTHER           -> "dump"

\* Defect: the receipts come first.
ReceiptsFirst(run) == Append(run.receipts, run.tx)

\* [transaction_outcome, *receipts_outcome]
InOrder(run) == <<run.tx>> \o run.receipts

\* raise_for_execution_failure: the first outcome that failed, else the status.
AfterExecution(run, at) ==
    LET outcomes == InOrder(run)
        failures == {i \in DOMAIN outcomes : outcomes[i] \in Failing}
        first    == CHOOSE i \in failures : \A j \in failures : i <= j
    IN  CASE failures # {} -> RaisesPanic([outcome |-> first, text |-> Text(outcomes[first])])
          [] failures = {} /\ run.status # "ok"
                           -> RaisesPanic([outcome |-> 0, text |-> Text(run.status)])
          [] OTHER         -> Returns("value", at)

\* A result of another shape: pydantic's exception, or what .get and [] raise.
OddResult(method) ==
    CASE method \in GasKeyReads                   -> "RpcError"
      [] method = "nonce"                         -> "TypeError"
      [] method \in {"view", "access_keys", "send"} -> "AttributeError"
      [] OTHER                                    -> "ValidationError"

\* What the method makes of a result.  A missing key may come inside one.
FromResult(o, r) ==
    CASE r.form = "odd"     -> Raises(OddResult(o.method))
      [] r.form = "panic"   -> Raises("ContractPanicError")
      [] r.form = "missing" -> RaisesMissingKey
      [] r.form = "error"   -> Raises("RpcError")
      [] r.form = "too_few" -> Raises("ValueError")
      [] r.form = "value" /\ o.method = "send" -> AfterExecution(r.run, r.at)
      [] OTHER              -> Returns(r.form, r.at)

\* Defect: a missing key goes through as the transport raised it.
PassThrough(o, class) == Raises(class)

\* What it makes of the transport's exception: the account the caller asked about
\* is restored in that of a missing key.
FromException(o, class) ==
    IF class = "AccessKeyNotFoundError" /\ o.method \in KeyReads \cup GasKeyReads
    THEN RaisesMissingKey ELSE Raises(class)

\* Defect: whatever goes wrong means "no".
AnyErrorIsNo(o, g) ==
    IF o.method \in {"account_exists", "global_contract_exists"}
    THEN Returns(IF g.kind = "returns" THEN "TRUE" ELSE "FALSE", g.at)
    ELSE g

\* account_exists and global_contract_exists turn one exception into False.
AsExists(o, g) ==
    CASE o.method = "account_exists" /\ g.what = "AccountNotFoundError" -> Returns("FALSE", None)
      [] o.method = "global_contract_exists" /\ g.what = "ContractNotFoundError"
                                          -> Returns("FALSE", None)
      [] o.method \in {"account_exists", "global_contract_exists"} /\ g.kind = "returns"
                                          -> Returns("TRUE", g.at)
      [] OTHER                            -> g

-------------------------------------------------------------------------------
(* The call.                                                                   *)

CallInit ==
    /\ Init
    /\ op \in Ops /\ given = None /\ content = None
    /\ head \in 1 .. MaxHeight /\ final \in 1 .. head /\ final + Lag >= head
    /\ wrote \in 1 .. head

\* The arguments are refused, or the request is posted.
Refuse ==
    /\ given = None /\ BadArguments(op)
    /\ given' = Raises("ValueError")
    /\ UNCHANGED <<vars, op, content, chainVars>>

Request ==
    /\ given = None /\ ~BadArguments(op)
    /\ Post
    /\ UNCHANGED <<callVars, chainVars>>

\* What the transport raises ends the method.
Failed == given' = IF pc' = "done" THEN AsExists(op, FromException(op, outcome')) ELSE None

\* An answer arrives that the node gave now.
Answered(answer) ==
    /\ Receive(answer)
    /\ IF outcome' = "result"
       THEN \E r \in Results(op) :
              content' = r /\ given' = AsExists(op, FromResult(op, r))
       ELSE Failed /\ UNCHANGED content
    /\ UNCHANGED <<op, chainVars>>

Unanswered == Lose /\ Failed /\ UNCHANGED <<op, content, chainVars>>

Backoff == Sleep /\ UNCHANGED <<callVars, chainVars>>

\* A block: the final head follows, at most Lag blocks behind.
Block ==
    /\ given = None /\ head < MaxHeight
    /\ head' = head + 1
    /\ final' \in {h \in final .. head + 1 : h + Lag >= head + 1}
    /\ UNCHANGED <<vars, callVars, wrote>>

Ended == given # None /\ UNCHANGED <<vars, callVars, chainVars>>

CallNext ==
    \/ Refuse \/ Request \/ Unanswered \/ Backoff \/ Block \/ Ended
    \/ \E answer \in Answers : Answered(answer)

CallSpec == CallInit /\ [][CallNext]_<<vars, callVars, chainVars>>

-------------------------------------------------------------------------------
(* Properties.                                                                 *)

Raised(class) == given # None /\ given.kind = "raises" /\ given.what = class
NodeSays(names) == last # None /\ last.body = "error" /\ CauseName(last.error) \in names

\* "It does not exist" is only said when the node said so, never because a request
\* was lost, refused or badly answered; "it exists" only with the thing at hand
\* (client.py:140-145, 193-204).
ExistsIsTrue ==
    given # None /\ op.method \in {"account_exists", "global_contract_exists"} =>
        /\ given.what = "FALSE" =>
             NodeSays(IF op.method = "account_exists" THEN {"UNKNOWN_ACCOUNT"}
                      ELSE {"NO_CONTRACT_CODE", "NO_GLOBAL_CONTRACT_CODE"})
        /\ given.what = "TRUE" => content # None /\ content.form = "value"

\* A key that is not on chain is always AccessKeyNotFoundError with the account that
\* was asked about, whichever of its two ways the node takes to say so
\* (client.py:542-550, 559-561).
MissingKeyIsNamed ==
    given # None /\ op.method \in KeyReads \cup GasKeyReads =>
        (Raised("AccessKeyNotFoundError")
            <=> \/ NodeSays({"UNKNOWN_ACCESS_KEY", "UNKNOWN_GAS_KEY"})
                \/ content # None /\ content.form = "missing")
        /\ (Raised("AccessKeyNotFoundError") => given.account = "asked")

\* A read that names no block sees the caller's own last transaction, however far
\* the final head trails: "a fresh publish is visible without waiting for finality"
\* (client.py:185); only access_key reads the final head (_core.py:109).
ReadsOwnWrites ==
    given # None /\ given.at # None /\ op.block = None /\ op.method # "access_key"
        => given.at >= wrote

\* A send that waited returns only if nothing in its execution failed, and otherwise
\* names the earliest outcome that did, with that outcome's own text; without one
\* the failed status speaks (rpc.py:153-167).
FirstFailureIsReported ==
    content # None /\ content.run # None =>
        LET done   == <<content.run.tx>> \o content.run.receipts
            failed == {i \in DOMAIN done : done[i] \in Failing}
            told   == given.failure
        IN  IF given.kind = "returns" THEN failed = {} /\ content.run.status = "ok"
            ELSE /\ failed = {} => told.outcome = 0 /\ content.run.status # "ok"
                 /\ failed # {} => /\ told.outcome \in failed
                                   /\ \A i \in failed : told.outcome <= i
                                   /\ told.text = Text(done[told.outcome])

\* rpc.py:5 promises typed errors only; what else a method raises, it raises over an
\* argument, a lane the key does not have, or an answer of another shape than JSON-RPC
\* or the query has.
ForeignErrorsHaveACause ==
    given # None /\ given.kind = "raises"
        /\ given.what \notin NearErrors \cup {"ContractPanicError"} =>
            \/ posts = 0 /\ BadArguments(op)
            \/ last # None /\ last.body \in {"not_object", "odd_error"}
            \/ content # None /\ content.form \in {"odd", "too_few"}
=================================================================================
