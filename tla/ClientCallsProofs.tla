--------------------------- MODULE ClientCallsProofs ---------------------------
(* Theorems about RpcTransport and the methods on top of it in ClientCalls, for *)
(* any number of retries, any HTTP statuses and any names a node may report.    *)
(* Three invariants carry them: what the loop has heard (Heard), how far its    *)
(* backoff is (Counted), and where what a call was told comes from (Told).      *)
EXTENDS ClientCalls, FiniteSetTheorems, TLAPS

-------------------------------------------------------------------------------
(* Arithmetic.                                                                 *)

\* A set of naturals with a member has a least one.
LEMMA LeastOf ==
    ASSUME NEW T, T \subseteq Nat, T # {}
    PROVE  \E x \in T : \A y \in T : x <= y
<1>1. \E x \in T : \A y \in T : <<y, x>> \notin OpToRel(<, Nat)
  BY WFMin, NatLessThanWellFounded
<1>2. \A x, y \in Nat : y < x => <<y, x>> \in OpToRel(<, Nat)
  BY Zenon DEF OpToRel
<1>3. PICK x \in T : \A y \in T : ~ (y < x)
  BY Zenon, <1>1, <1>2
<1>4. QED
  BY <1>3

\* The powers of two double: half of the subsets of 1 .. n + 1 have n + 1 in them.
LEMMA PowersDouble ==
    ASSUME NEW n \in Nat
    PROVE  2 ^ n \in Nat /\ 2 ^ (n + 1) = 2 ^ n + 2 ^ n
<1> DEFINE low == SUBSET (1 .. n)
           high == {A \cup {n + 1} : A \in low}
<1>1. IsFiniteSet(1 .. n) /\ Cardinality(1 .. n) = n
  BY FS_Interval
<1>2. IsFiniteSet(1 .. n + 1) /\ Cardinality(1 .. n + 1) = n + 1
  BY FS_Interval
<1>3. IsFiniteSet(low) /\ Cardinality(low) = 2 ^ n
  BY <1>1, FS_SUBSET
<1>4. Cardinality(SUBSET (1 .. n + 1)) = 2 ^ (n + 1)
  BY <1>2, FS_SUBSET
<1>5. SUBSET (1 .. n + 1) = low \cup high
  <2>1. ASSUME NEW B \in SUBSET (1 .. n + 1) PROVE B \in low \cup high
    <3>1. CASE n + 1 \in B
      <4>1. B \ {n + 1} \in low
        BY <2>1
      <4>2. B = (B \ {n + 1}) \cup {n + 1}
        BY <3>1
      <4>3. QED
        BY <4>1, <4>2
    <3>2. CASE n + 1 \notin B
      BY <2>1, <3>2
    <3>3. QED
      BY <3>1, <3>2
  <2>2. low \subseteq SUBSET (1 .. n + 1)
    OBVIOUS
  <2>3. \A A \in low : A \cup {n + 1} \in SUBSET (1 .. n + 1)
    OBVIOUS
  <2>4. QED
    <3> HIDE DEF low
    <3>1. QED
      BY <2>1, <2>2, <2>3
<1>6. low \cap high = {}
  OBVIOUS
<1>7. IsFiniteSet(high) /\ Cardinality(high) = Cardinality(low)
  <2> DEFINE f == [A \in low |-> A \cup {n + 1}]
  <2>1. \A A, B \in low : f[A] = f[B] => A = B
    <3> SUFFICES ASSUME NEW A \in low, NEW B \in low, A \cup {n + 1} = B \cup {n + 1}
                 PROVE  A = B
      OBVIOUS
    <3>1. n + 1 \notin A /\ n + 1 \notin B
      OBVIOUS
    <3>2. A = (A \cup {n + 1}) \ {n + 1} /\ B = (B \cup {n + 1}) \ {n + 1}
      BY <3>1
    <3>3. QED
      BY <3>2
  <2>2. f \in [low -> high] /\ \A B \in high : \E A \in low : f[A] = B
    OBVIOUS
  <2>3. f \in Bijection(low, high)
    <3> HIDE DEF f, low, high
    <3>1. DOMAIN f = low
      BY <2>2
    <3>2. QED
      BY <2>1, <2>2, <3>1 DEF Bijection, Injection, Surjection, IsInjective
  <2>4. QED
    BY <1>3, <2>3, FS_Bijection DEF ExistsBijection
<1>8. Cardinality(low \cup high) = Cardinality(low) + Cardinality(high)
  <2> HIDE DEF low, high
  <2>1. Cardinality(low \cap high) = 0
    BY <1>6, FS_EmptySet
  <2>2. QED
    BY <1>3, <1>7, <2>1, FS_Union, FS_CardinalityType
<1>9. QED
  <2> HIDE DEF low, high
  <2>1. 2 ^ n \in Nat
    BY <1>3, FS_CardinalityType
  <2>2. QED
    BY <1>3, <1>4, <1>5, <1>7, <1>8, <2>1

-------------------------------------------------------------------------------
(* Classification.                                                             *)

\* A decision of the node is not taken for a transient failure, and a rejected
\* transaction is known by its InvalidTxError.
LEMMA DecisionsAreKept ==
    ASSUME NEW answer \in Answers, Decides(answer)
    PROVE  /\ Handle(answer) # Rpc(TRUE)
           /\ answer.body = "error" => Handle(answer) = InvalidTxErrors[answer.error.tx]
<1>1. CASE answer.body = "result"
  BY <1>1 DEF Handle, Rpc
<1>2. CASE answer.body = "error"
  <2>1. CauseName(answer.error) = "INVALID_TRANSACTION" /\ answer.error.tx \in DOMAIN InvalidTxErrors
    BY <1>2 DEF Decides
  <2>2. CauseName(answer.error) \notin DOMAIN QueryErrors
    BY <2>1 DEF QueryErrors
  <2>3. Handle(answer) = InvalidTxErrors[answer.error.tx]
    BY <1>2, <2>1, <2>2 DEF Handle, Classify
  <2>4. InvalidTxErrors[answer.error.tx] # Rpc(TRUE)
    BY <2>1 DEF InvalidTxErrors, Rpc
  <2>5. QED
    BY <2>3, <2>4
<1>3. QED
  BY <1>1, <1>2 DEF Decides

\* What an error of the node is handled as, by the name of its cause.
LEMMA ErrorHandledAs ==
    ASSUME NEW answer \in Answers, answer.body = "error",
           NEW name, name = CauseName(answer.error)
    PROVE  /\ Handle(answer) \in NearErrors
           /\ Handle(answer) = "AccountNotFoundError" <=> name = "UNKNOWN_ACCOUNT"
           /\ Handle(answer) = "AccessKeyNotFoundError"
                <=> name \in {"UNKNOWN_ACCESS_KEY", "UNKNOWN_GAS_KEY"}
           /\ Handle(answer) = "ContractNotFoundError"
                <=> name \in {"NO_CONTRACT_CODE", "NO_GLOBAL_CONTRACT_CODE"}
<1>1. Handle(answer) = Classify(answer.error, answer.status)
  BY DEF Handle
<1>2. CASE name \in DOMAIN QueryErrors
  <2>1. Handle(answer) = QueryErrors[name]
    BY <1>1, <1>2 DEF Classify
  <2>2. name \in {"UNKNOWN_ACCOUNT", "INVALID_ACCOUNT", "UNKNOWN_ACCESS_KEY",
                 "UNKNOWN_GAS_KEY", "NO_CONTRACT_CODE", "NO_GLOBAL_CONTRACT_CODE"}
    BY <1>2 DEF QueryErrors
  <2>3. /\ QueryErrors["UNKNOWN_ACCOUNT"] = "AccountNotFoundError"
        /\ QueryErrors["INVALID_ACCOUNT"] = "InvalidAccountIdError"
        /\ QueryErrors["UNKNOWN_ACCESS_KEY"] = "AccessKeyNotFoundError"
        /\ QueryErrors["UNKNOWN_GAS_KEY"] = "AccessKeyNotFoundError"
        /\ QueryErrors["NO_CONTRACT_CODE"] = "ContractNotFoundError"
        /\ QueryErrors["NO_GLOBAL_CONTRACT_CODE"] = "ContractNotFoundError"
    BY DEF QueryErrors
  <2>4. QED
    BY <2>1, <2>2, <2>3 DEF NearErrors
<1>3. CASE name \notin DOMAIN QueryErrors
  <2>1. \/ /\ answer.error.tx \in DOMAIN InvalidTxErrors
           /\ Handle(answer) = InvalidTxErrors[answer.error.tx]
        \/ Handle(answer) \in {Rpc(TRUE), Rpc(FALSE)}
    <3>1. \A b \in BOOLEAN : Rpc(b) \in {Rpc(TRUE), Rpc(FALSE)}
      OBVIOUS
    <3>2. (name \in RetryableCauses \/ RetryableHttp(answer.status)) \in BOOLEAN
      BY DEF RetryableHttp
    <3>3. QED
      BY <1>1, <1>3, <3>1, <3>2, Zenon DEF Classify
  <2>2. Handle(answer) \in NearErrors \ {"AccountNotFoundError", "AccessKeyNotFoundError",
                                        "ContractNotFoundError"}
    BY <2>1 DEF InvalidTxErrors, NearErrors, Rpc
  <2>3. name \notin {"UNKNOWN_ACCOUNT", "UNKNOWN_ACCESS_KEY", "UNKNOWN_GAS_KEY",
                    "NO_CONTRACT_CODE", "NO_GLOBAL_CONTRACT_CODE"}
    BY <1>3 DEF QueryErrors
  <2>4. QED
    BY <2>2, <2>3
<1>4. QED
  BY <1>2, <1>3

\* What any answer is handled as.
LEMMA HandledAs ==
    ASSUME NEW answer \in Answers
    PROVE  /\ Handle(answer) \in NearErrors \cup {"result", "AttributeError"}
           /\ Handle(answer) = "result" <=> answer.body = "result"
           /\ Handle(answer) = "AttributeError" <=> answer.body \in {"not_object", "odd_error"}
           /\ Handle(answer) \in {"AccountNotFoundError", "AccessKeyNotFoundError",
                                 "ContractNotFoundError"} => answer.body = "error"
<1>1. answer.body \in {"not_json", "not_object", "odd_error", "result", "error"}
  BY DEF Answers
<1>2. CASE answer.body = "error"
  BY <1>2, ErrorHandledAs DEF NearErrors, Rpc
<1>3. CASE answer.body # "error"
  <2>1. \/ answer.body = "not_json" /\ Handle(answer) \in {Rpc(TRUE), Rpc(FALSE)}
        \/ answer.body \in {"not_object", "odd_error"} /\ Handle(answer) = "AttributeError"
        \/ answer.body = "result" /\ Handle(answer) = "result"
    BY <1>1, <1>3 DEF Handle, Rpc
  <2>2. QED
    BY <2>1 DEF NearErrors, Rpc
<1>4. QED
  BY <1>2, <1>3

-------------------------------------------------------------------------------
(* The retry loop.                                                             *)

\* An answer that has come either ended the call, as what it was handled as, or was
\* a transient failure.
Heard ==
    /\ pc \in {"post", "wait", "sleep", "done"}
    /\ last \in Answers \cup {None}
    /\ pc = "wait" => last = None
    /\ last # None => IF pc = "done" THEN outcome = Handle(last) ELSE Handle(last) = Rpc(TRUE)

\* Every step of the loop keeps it.
LEMMA StepKeepsHeard ==
    ASSUME Heard, Next \/ UNCHANGED vars
    PROVE  Heard'
<1>1. CASE Post
  BY <1>1 DEF Heard, Post
<1>2. CASE Lose
  BY <1>2 DEF Heard, Lose, NextTry, End
<1>3. CASE Sleep
  BY <1>3 DEF Heard, Sleep
<1>4. CASE \E answer \in Answers : Receive(answer)
  <2>1. PICK answer \in Answers : Receive(answer)
    BY <1>4
  <2>2. /\ last' = answer
        /\ \/ pc' = "sleep" /\ Handle(answer) = Rpc(TRUE)
           \/ pc' = "done" /\ outcome' = Handle(answer)
    BY <2>1 DEF Receive, MayRetry, NextTry, End
  <2>3. last' \in Answers /\ pc' \in {"sleep", "done"} /\ (pc' = "done" => outcome' = Handle(last'))
        /\ (pc' = "sleep" => Handle(last') = Rpc(TRUE))
    BY <2>2
  <2>4. QED
    BY <2>3, Zenon DEF Heard
<1>5. CASE UNCHANGED vars
  BY <1>5 DEF Heard, vars
<1>6. QED
  BY <1>1, <1>2, <1>3, <1>4, <1>5 DEF Next, Done

\* A step of a method is a step of its transport, or leaves the transport alone.
LEMMA MethodStepsAreTransportSteps ==
    ASSUME CallNext
    PROVE  Next \/ UNCHANGED vars
BY DEF CallNext, Refuse, Request, Unanswered, Backoff, Block, Ended, Answered, Next

\* What has been heard, in every method call.
THEOREM CallsHear == CallSpec => []Heard
<1>1. CallInit => Heard
  BY DEF CallInit, Init, Heard
<1>2. Heard /\ [CallNext]_<<vars, callVars, chainVars>> => Heard'
  BY StepKeepsHeard, MethodStepsAreTransportSteps
<1>3. QED
  BY <1>1, <1>2, PTL DEF CallSpec

\* The node's decision ends the call.
THEOREM DecisionsEndCalls == CallSpec => []DecisionEndsCall
<1>1. Heard => DecisionEndsCall
  <2> SUFFICES ASSUME Heard, Decides(last) PROVE pc = "done"
    BY DEF DecisionEndsCall
  <2>1. last \in Answers /\ last # None
    BY DEF Heard, Decides
  <2>2. QED
    BY <2>1, DecisionsAreKept DEF Heard
<1>2. QED
  BY <1>1, CallsHear, PTL

\* A rejected nonce is reported as one.
THEOREM RejectedNoncesAreReported == CallSpec => []RejectedNonceIsReported
<1>1. Heard => RejectedNonceIsReported
  <2> SUFFICES ASSUME Heard, Decides(last), last.body = "error"
               PROVE  outcome = InvalidTxErrors[last.error.tx]
    BY DEF RejectedNonceIsReported
  <2>1. last \in Answers /\ last # None
    BY DEF Heard, Decides
  <2>2. QED
    BY <2>1, DecisionsAreKept DEF Heard
<1>2. QED
  BY <1>1, CallsHear, PTL

-------------------------------------------------------------------------------
(* The backoff.                                                                *)

\* At each point of the loop: the posts that were made and the delays slept.
Counted ==
    /\ attempt \in 0 .. Retries
    /\ pc \in {"post", "wait", "sleep", "done"}
    /\ pc # "done" => outcome = None
    /\ pc = "post" => posts = attempt /\ slept = 2 ^ attempt - 1
    /\ pc = "wait" => posts = attempt + 1 /\ slept = 2 ^ attempt - 1
    /\ pc = "sleep" => attempt > 0 /\ posts = attempt /\ slept = 2 ^ (attempt - 1) - 1
    /\ pc = "done" /\ outcome = Rpc(TRUE)
         => posts = Retries + 1 /\ slept = 2 ^ Retries - 1

\* What ends a post ends the call or, if it was transient, makes it sleep.
LEMMA EndOfPostKeepsCounted ==
    ASSUME Counted, pc = "wait", UNCHANGED posts, NEW result,
           IF result = Rpc(TRUE) THEN NextTry(result) ELSE End(result)
    PROVE  Counted'
<1>1. /\ attempt \in 0 .. Retries /\ outcome = None
      /\ posts = attempt + 1 /\ slept = 2 ^ attempt - 1
  BY DEF Counted
<1>2. CASE result = Rpc(TRUE) /\ attempt < Retries
  <2>1. pc' = "sleep" /\ attempt' = attempt + 1 /\ slept' = slept /\ outcome' = outcome
    BY <1>2 DEF NextTry
  <2>2. attempt' \in 0 .. Retries /\ attempt' > 0 /\ posts' = attempt' /\ attempt' - 1 = attempt
    BY <1>1, <1>2, <2>1, TransportAssumption
  <2>3. slept' = 2 ^ (attempt' - 1) - 1
    BY <1>1, <2>1, <2>2
  <2>4. QED
    BY <1>1, <2>1, <2>2, <2>3 DEF Counted
<1>3. CASE ~(result = Rpc(TRUE) /\ attempt < Retries)
  <2>1. pc' = "done" /\ outcome' = result /\ attempt' = attempt /\ slept' = slept
    BY <1>3 DEF NextTry, End
  <2>2. result = Rpc(TRUE) => attempt = Retries
    BY <1>1, <1>3, TransportAssumption
  <2>3. QED
    BY <1>1, <2>1, <2>2 DEF Counted
<1>4. QED
  BY <1>2, <1>3

\* Every step of the loop keeps the count.
LEMMA StepKeepsCounted ==
    ASSUME Counted, Next \/ UNCHANGED vars
    PROVE  Counted'
<1>1. CASE Post
  BY <1>1, TransportAssumption DEF Counted, Post
<1>2. CASE Lose
  BY <1>2, EndOfPostKeepsCounted DEF Lose
<1>3. CASE Sleep
  <2>1. attempt \in Nat /\ attempt > 0 /\ slept = 2 ^ (attempt - 1) - 1
    BY <1>3, TransportAssumption DEF Counted, Sleep
  <2>2. 2 ^ (attempt - 1) \in Nat /\ 2 ^ ((attempt - 1) + 1) = 2 ^ (attempt - 1) + 2 ^ (attempt - 1)
    <3>1. attempt - 1 \in Nat
      BY <2>1
    <3>2. QED
      BY <3>1, PowersDouble
  <2>3. (attempt - 1) + 1 = attempt
    BY <2>1
  <2>4. 2 ^ attempt = 2 ^ (attempt - 1) + 2 ^ (attempt - 1)
    BY <2>2, <2>3
  <2>5. slept' = 2 ^ attempt - 1
    BY <1>3, <2>1, <2>2, <2>4 DEF Sleep
  <2>6. QED
    BY <1>3, <2>5 DEF Counted, Sleep
<1>4. ASSUME NEW answer \in Answers, Receive(answer)
      PROVE  Counted'
  BY <1>4, EndOfPostKeepsCounted DEF Receive, MayRetry
<1>5. CASE UNCHANGED vars
  BY <1>5 DEF Counted, vars
<1>6. QED
  BY <1>1, <1>2, <1>3, <1>4, <1>5 DEF Next, Done

LEMMA CountsAlways == CallSpec => []Counted
<1>1. CallInit => Counted
  <2>1. 2 ^ 0 = 1
    BY SMT
  <2>2. QED
    BY <2>1, TransportAssumption DEF CallInit, Init, Counted
<1>2. Counted /\ [CallNext]_<<vars, callVars, chainVars>> => Counted'
  <2> SUFFICES ASSUME Counted, CallNext \/ UNCHANGED <<vars, callVars, chainVars>>
               PROVE  Counted'
    OBVIOUS
  <2>1. Next \/ UNCHANGED vars
    BY MethodStepsAreTransportSteps
  <2>2. QED
    BY <2>1, StepKeepsCounted
<1>3. QED
  BY <1>1, <1>2, PTL DEF CallSpec

\* A transient failure is reported only when all the posts were made and all the
\* delays slept.
THEOREM TransientWhenSpent == CallSpec => []TransientOnlyWhenSpent
<1>1. Heard /\ Counted => TransientOnlyWhenSpent
  <2> SUFFICES ASSUME Heard, Counted, outcome = Rpc(TRUE)
               PROVE  posts = Retries + 1 /\ slept = 2 ^ Retries - 1 /\ ~Decides(last)
    BY DEF TransientOnlyWhenSpent
  <2>1. pc = "done"
    BY OutcomeAssumption DEF Counted, NearErrors
  <2>2. ASSUME Decides(last) PROVE FALSE
    <3>1. last \in Answers /\ last # None /\ Handle(last) = Rpc(TRUE)
      BY <2>1, <2>2 DEF Heard, Decides
    <3>2. QED
      BY <2>2, <3>1, DecisionsAreKept
  <2>3. QED
    BY <2>1, <2>2 DEF Counted
<1>2. QED
  BY <1>1, CallsHear, CountsAlways, PTL

-------------------------------------------------------------------------------
(* Reads.                                                                      *)

\* What a method makes of a result is of the block the result is of, or of none.
LEMMA FromResultKeepsBlock ==
    ASSUME NEW o, NEW r
    PROVE  FromResult(o, r).at \in {r.at, None}
<1>1. AfterExecution(r.run, r.at).at \in {r.at, None}
  <2> DEFINE outcomes == InOrder(r.run)
             failures == {i \in DOMAIN outcomes : outcomes[i] \in Failing}
             first == CHOOSE i \in failures : \A j \in failures : i <= j
  <2>1. /\ RaisesPanic([outcome |-> first, text |-> Text(outcomes[first])]).at = None
        /\ RaisesPanic([outcome |-> 0, text |-> Text(r.run.status)]).at = None
        /\ Returns("value", r.at).at = r.at
    BY DEF RaisesPanic, Raises, Returns
  <2> HIDE DEF failures, first
  <2>2. QED
    BY <2>1 DEF AfterExecution, failures, first
<1>2. QED
  BY <1>1 DEF FromResult, Raises, RaisesMissingKey, Returns

\* Asking for existence keeps that.
LEMMA AsExistsKeepsBlock ==
    ASSUME NEW o, NEW g
    PROVE  AsExists(o, g).at \in {g.at, None}
BY DEF AsExists, Returns

\* The chain, and what a call without a block has been given.
Fresh ==
    /\ head \in Nat /\ wrote \in Nat /\ wrote <= head
    /\ ReadsOwnWrites

\* Every step keeps it: the chain only moves while the call runs.
LEMMA StepKeepsFresh ==
    ASSUME Fresh, CallNext \/ UNCHANGED <<vars, callVars, chainVars>>
    PROVE  Fresh'
<1>1. CASE Refuse
  BY <1>1 DEF Fresh, Refuse, chainVars, ReadsOwnWrites, Raises
<1>2. CASE Request \/ Backoff \/ Ended \/ UNCHANGED <<vars, callVars, chainVars>>
  BY <1>2 DEF Fresh, Request, Backoff, Ended, callVars, chainVars, ReadsOwnWrites
<1>3. CASE Block
  BY <1>3, ClientAssumption DEF Fresh, Block, callVars, ReadsOwnWrites
<1>4. ASSUME Failed PROVE given' # None => given'.at = None
  <2>1. FromException(op, outcome').at = None
    BY DEF FromException, RaisesMissingKey, Raises
  <2>2. QED
    BY <1>4, <2>1, AsExistsKeepsBlock DEF Failed
<1>5. CASE Unanswered
  BY <1>4, <1>5 DEF Fresh, Unanswered, chainVars, ReadsOwnWrites
<1>6. ASSUME NEW answer \in Answers, Answered(answer) PROVE Fresh'
  <2>1. CASE outcome' = "result"
    <3>1. PICK r \in Results(op) : given' = AsExists(op, FromResult(op, r))
      BY <1>6, <2>1 DEF Answered
    <3>2. given'.at \in {r.at, None}
      BY <3>1, FromResultKeepsBlock, AsExistsKeepsBlock
    <3>3. op.block = None /\ op.method # "access_key" => r.at = head
      <4>1. r.at \in Shown(View(op))
        BY DEF Results
      <4>2. QED
        BY <4>1 DEF View, BlockRef, Shown
    <3>4. QED
      BY <1>6, <3>2, <3>3 DEF Fresh, Answered, chainVars, ReadsOwnWrites
  <2>2. CASE outcome' # "result"
    BY <1>4, <1>6, <2>2 DEF Fresh, Answered, chainVars, ReadsOwnWrites
  <2>3. QED
    BY <2>1, <2>2
<1>7. QED
  BY <1>1, <1>2, <1>3, <1>5, <1>6 DEF CallNext

\* A read that names no block sees the caller's own last transaction.
THEOREM ReadsSeeOwnWrites == CallSpec => []ReadsOwnWrites
<1>1. CallInit => Fresh
  BY ClientAssumption DEF CallInit, Fresh, ReadsOwnWrites
<1>2. Fresh /\ [CallNext]_<<vars, callVars, chainVars>> => Fresh'
  BY StepKeepsFresh
<1>3. Fresh => ReadsOwnWrites
  BY DEF Fresh
<1>4. QED
  BY <1>1, <1>2, <1>3, PTL DEF CallSpec

-------------------------------------------------------------------------------
(* Results and exceptions.                                                     *)

\* What a call has been told: nothing while it runs; that its arguments are bad,
\* before anything was posted; what its method makes of the result, or of the
\* exception, that ended its transport.
Told ==
    /\ op \in Ops /\ head \in Nat /\ final \in Nat
    /\ pc # "done" => content = None
    /\ BadArguments(op) => pc = "post" /\ posts = 0 /\ last = None
    /\ pc = "done" /\ last = None => outcome = Rpc(TRUE)
    /\ content # None =>
         /\ pc = "done" /\ last # None /\ last.body = "result"
         /\ content.form \in Forms(op.method)
         /\ content.run # None => /\ op.method = "send" /\ content.form = "value"
                                  /\ content.run \in Executions
         /\ given = AsExists(op, FromResult(op, content))
    /\ given # None /\ content = None =>
         \/ BadArguments(op) /\ given = Raises("ValueError")
         \/ /\ pc = "done" /\ outcome # "result"
            /\ given = AsExists(op, FromException(op, outcome))

\* A result is something, and one of a run is that of a send.
LEMMA ResultsAreGiven ==
    ASSUME Told, NEW r \in Results(op)
    PROVE  /\ r # None /\ r.form \in Forms(op.method)
           /\ r.run # None => op.method = "send" /\ r.form = "value" /\ r.run \in Executions
<1>1. /\ r \in [form : Forms(op.method), at : Shown(View(op)), run : Executions \cup {None}]
      /\ r.run # None <=> op.method = "send" /\ r.form = "value"
  BY DEF Results
<1>2. View(op) \in {"optimistic", "near-final", "final", "past"}
  <2>1. op.block \in Blocks
    BY DEF Told, Ops, Blocks
  <2>2. QED
    BY <2>1 DEF Blocks, View, BlockRef
<1>3. Shown(View(op)) \subseteq Nat
  BY <1>2 DEF Shown, Told
<1>4. r.form \in UNION {Forms(o.method) : o \in Ops}
  BY <1>1 DEF Told
<1>5. r \in [form : UNION {Forms(o.method) : o \in Ops}, at : Nat, run : Executions \cup {None}]
  BY <1>1, <1>3, <1>4
<1>6. QED
  BY <1>1, <1>5, ResultAssumption

\* Every step keeps it.
LEMMA StepKeepsTold ==
    ASSUME Counted, Told, CallNext \/ UNCHANGED <<vars, callVars, chainVars>>
    PROVE  Told'
<1>1. CASE Refuse
  BY <1>1 DEF Told, Refuse, vars, chainVars
<1>2. CASE Request
  BY <1>2 DEF Told, Request, Post, callVars, chainVars
<1>3. CASE Backoff
  BY <1>3 DEF Told, Backoff, Sleep, callVars, chainVars
<1>4. CASE Block
  <2>1. head' \in Nat /\ final' \in Nat
    BY <1>4, ClientAssumption DEF Told, Block
  <2>2. QED
    BY <1>4, <2>1 DEF Told, Block, vars, callVars
<1>5. CASE Ended \/ UNCHANGED <<vars, callVars, chainVars>>
  BY <1>5 DEF Told, Ended, vars, callVars, chainVars
<1>6. CASE Unanswered
  <2>1. /\ pc = "wait" /\ outcome = None /\ content' = None /\ last' = last
        /\ ~BadArguments(op) /\ op' = op /\ UNCHANGED chainVars
    BY <1>6 DEF Told, Counted, Unanswered, Lose
  <2>2. \/ pc' = "sleep" /\ given' = None
        \/ /\ pc' = "done" /\ outcome' = Rpc(TRUE)
           /\ given' = AsExists(op, FromException(op, outcome'))
    BY <1>6 DEF Unanswered, Lose, NextTry, End, Failed
  <2>3. outcome' = Rpc(TRUE) => outcome' # "result"
    BY DEF Rpc
  <2>4. QED
    BY <2>1, <2>2, <2>3 DEF Told, chainVars
<1>7. ASSUME NEW answer \in Answers, Answered(answer) PROVE Told'
  <2>1. /\ pc = "wait" /\ outcome = None /\ content = None /\ last' = answer
        /\ ~BadArguments(op) /\ op' = op /\ UNCHANGED chainVars
    BY <1>7 DEF Told, Counted, Answered, Receive
  <2>2. \/ pc' = "sleep" /\ outcome' = None
        \/ pc' = "done" /\ outcome' = Handle(answer)
    BY <1>7, <2>1 DEF Answered, Receive, MayRetry, NextTry, End
  <2>3. answer # None
    BY OutcomeAssumption
  <2>4. CASE outcome' = "result"
    <3>1. PICK r \in Results(op) :
            content' = r /\ given' = AsExists(op, FromResult(op, r))
      BY <1>7, <2>4 DEF Answered
    <3>2. pc' = "done" /\ Handle(answer) = "result"
      BY <2>2, <2>4, OutcomeAssumption
    <3>3. answer.body = "result"
      BY <3>2, HandledAs
    <3>4. QED
      BY <2>1, <2>3, <3>1, <3>2, <3>3, ResultsAreGiven DEF Told, chainVars
  <2>5. CASE outcome' # "result"
    <3>1. /\ content' = None
          /\ given' = IF pc' = "done" THEN AsExists(op, FromException(op, outcome')) ELSE None
      BY <1>7, <2>1, <2>5 DEF Answered, Failed
    <3>2. QED
      BY <2>1, <2>2, <2>3, <2>5, <3>1 DEF Told, chainVars
  <2>6. QED
    BY <2>4, <2>5
<1>8. QED
  BY <1>1, <1>2, <1>3, <1>4, <1>5, <1>6, <1>7 DEF CallNext

LEMMA TellsAlways == CallSpec => []Told
<1>1. CallInit => Told
  BY ClientAssumption DEF CallInit, Init, Told
<1>2. Counted /\ Told /\ [CallNext]_<<vars, callVars, chainVars>> => Told'
  BY StepKeepsTold
<1>3. QED
  BY <1>1, <1>2, CountsAlways, PTL DEF CallSpec

\* An exception that ends a call without a result, by what the node answered last.
LEMMA ExceptionHasCause ==
    ASSUME Heard, Told, pc = "done", outcome # "result"
    PROVE  \/ last = None /\ outcome = Rpc(TRUE)
           \/ last \in Answers /\ last # None /\ last.body # "result" /\ outcome = Handle(last)
BY HandledAs DEF Heard, Told

-------------------------------------------------------------------------------
(* Existence.                                                                  *)

\* What a method that asks for existence makes of a result.
LEMMA ExistenceOfResult ==
    ASSUME NEW o, NEW r, o.method \in {"account_exists", "global_contract_exists"},
           r.form \in Forms(o.method)
    PROVE  /\ AsExists(o, FromResult(o, r)).what # "FALSE"
           /\ AsExists(o, FromResult(o, r)).what = "TRUE" => r.form = "value"
<1>1. r.form \in {"value", "odd"}
  BY DEF Forms, KeyReads
<1>2. CASE r.form = "value"
  <2>1. FromResult(o, r) = Returns("value", r.at)
    BY <1>2 DEF FromResult
  <2>2. AsExists(o, Returns("value", r.at)) = Returns("TRUE", r.at)
    BY DEF AsExists, Returns
  <2>3. QED
    BY <1>2, <2>1, <2>2 DEF Returns
<1>3. CASE r.form = "odd"
  <2>1. FromResult(o, r) = Raises("ValidationError")
    BY <1>3 DEF FromResult, OddResult, GasKeyReads
  <2>2. AsExists(o, Raises("ValidationError")) = Raises("ValidationError")
    BY DEF AsExists, Raises
  <2>3. QED
    BY <2>1, <2>2 DEF Raises
<1>4. QED
  BY <1>1, <1>2, <1>3

\* And what it makes of an exception.
LEMMA ExistenceOfException ==
    ASSUME NEW o, NEW class, o.method \in {"account_exists", "global_contract_exists"},
           class \in NearErrors \cup {"AttributeError"}
    PROVE  LET g == AsExists(o, FromException(o, class))
           IN  /\ g.what # "TRUE"
               /\ g.what = "FALSE" =>
                    class = IF o.method = "account_exists" THEN "AccountNotFoundError"
                            ELSE "ContractNotFoundError"
<1>1. FromException(o, class) = Raises(class)
  BY DEF FromException, KeyReads, GasKeyReads
<1>2. class \notin {"TRUE", "FALSE"}
  BY DEF NearErrors, Rpc
<1>3. AsExists(o, Raises(class)) =
        IF class = IF o.method = "account_exists" THEN "AccountNotFoundError"
                   ELSE "ContractNotFoundError"
        THEN Returns("FALSE", None) ELSE Raises(class)
  BY DEF AsExists, Raises
<1>4. QED
  BY <1>1, <1>2, <1>3 DEF Returns, Raises

\* "It does not exist" is only said when the node said so.
THEOREM ExistenceIsTrue == CallSpec => []ExistsIsTrue
<1>1. Heard /\ Told => ExistsIsTrue
  <2> SUFFICES ASSUME Heard, Told, given # None,
                      op.method \in {"account_exists", "global_contract_exists"}
               PROVE  /\ given.what = "FALSE" =>
                           NodeSays(IF op.method = "account_exists" THEN {"UNKNOWN_ACCOUNT"}
                                    ELSE {"NO_CONTRACT_CODE", "NO_GLOBAL_CONTRACT_CODE"})
                      /\ given.what = "TRUE" => content # None /\ content.form = "value"
    BY DEF ExistsIsTrue
  <2>1. CASE content # None
    BY <2>1, ExistenceOfResult DEF Told
  <2>2. CASE content = None /\ given = Raises("ValueError")
    BY <2>2 DEF Raises
  <2>3. CASE content = None /\ given # Raises("ValueError")
    <3>1. pc = "done" /\ outcome # "result" /\ given = AsExists(op, FromException(op, outcome))
      BY <2>3 DEF Told
    <3>2. outcome \in NearErrors \cup {"AttributeError"}
      BY <3>1, ExceptionHasCause, HandledAs DEF NearErrors
    <3>3. /\ given.what # "TRUE"
          /\ given.what = "FALSE" =>
               outcome = IF op.method = "account_exists" THEN "AccountNotFoundError"
                         ELSE "ContractNotFoundError"
      BY <3>1, <3>2, ExistenceOfException
    <3>4. outcome \in {"AccountNotFoundError", "ContractNotFoundError"} =>
            last \in Answers /\ last # None /\ last.body = "error" /\ outcome = Handle(last)
      BY <3>1, ExceptionHasCause, HandledAs DEF Rpc
    <3>5. QED
      BY <3>3, <3>4, ErrorHandledAs DEF NodeSays
  <2>4. QED
    BY <2>1, <2>2, <2>3
<1>2. QED
  BY <1>1, CallsHear, TellsAlways, PTL

-------------------------------------------------------------------------------
(* Missing keys.                                                               *)

\* The methods that read keys do not ask for existence.
LEMMA KeyReadsKeep ==
    ASSUME NEW o, NEW g, o.method \in KeyReads \cup GasKeyReads
    PROVE  AsExists(o, g) = g
BY DEF AsExists, KeyReads, GasKeyReads

\* A result names a missing key exactly if it is one.
LEMMA MissingKeyOfResult ==
    ASSUME NEW o, NEW r, o.method \in KeyReads \cup GasKeyReads, r.form \in Forms(o.method)
    PROVE  IF r.form = "missing" THEN FromResult(o, r) = RaisesMissingKey
           ELSE FromResult(o, r).what # "AccessKeyNotFoundError"
<1>1. r.form \in {"value", "missing", "error", "too_few", "odd"}
  BY DEF Forms, KeyReads, GasKeyReads
<1>2. CASE r.form = "value"
  BY <1>2 DEF FromResult, Returns, KeyReads, GasKeyReads
<1>3. CASE r.form = "missing"
  BY <1>3 DEF FromResult
<1>4. CASE r.form = "error"
  BY <1>4 DEF FromResult, Raises
<1>5. CASE r.form = "too_few"
  BY <1>5 DEF FromResult, Raises
<1>6. CASE r.form = "odd"
  <2>1. FromResult(o, r) = Raises(OddResult(o.method))
    BY <1>6 DEF FromResult
  <2>2. OddResult(o.method) # "AccessKeyNotFoundError"
    BY DEF OddResult
  <2>3. QED
    BY <1>6, <2>1, <2>2 DEF Raises
<1>7. QED
  BY <1>1, <1>2, <1>3, <1>4, <1>5, <1>6

\* A missing key is AccessKeyNotFoundError with the account that was asked about.
THEOREM MissingKeysAreNamed == CallSpec => []MissingKeyIsNamed
<1>1. Heard /\ Told => MissingKeyIsNamed
  <2> DEFINE Missing == \/ NodeSays({"UNKNOWN_ACCESS_KEY", "UNKNOWN_GAS_KEY"})
                        \/ content # None /\ content.form = "missing"
  <2> SUFFICES ASSUME Heard, Told, given # None, op.method \in KeyReads \cup GasKeyReads
               PROVE  IF Missing THEN given = RaisesMissingKey
                      ELSE given.what # "AccessKeyNotFoundError"
    BY DEF MissingKeyIsNamed, Raised, RaisesMissingKey, Raises
  <2>1. CASE content # None
    <3>1. given = FromResult(op, content)
      BY <2>1, KeyReadsKeep DEF Told
    <3>2. ~NodeSays({"UNKNOWN_ACCESS_KEY", "UNKNOWN_GAS_KEY"})
      BY <2>1 DEF Told, NodeSays
    <3>3. QED
      BY <2>1, <3>1, <3>2, MissingKeyOfResult DEF Told
  <2>2. CASE content = None /\ BadArguments(op)
    <3>1. ~Missing
      BY <2>2 DEF Told, NodeSays
    <3>2. given = Raises("ValueError")
      BY <2>2 DEF BadArguments, DefaultingReads, GlobalReads, KeyReads, GasKeyReads
    <3>3. QED
      BY <3>1, <3>2 DEF Raises
  <2>3. CASE content = None /\ ~BadArguments(op)
    <3>1. pc = "done" /\ outcome # "result" /\ given = AsExists(op, FromException(op, outcome))
      BY <2>3 DEF Told
    <3>2. given = IF outcome = "AccessKeyNotFoundError" THEN RaisesMissingKey ELSE Raises(outcome)
      BY <3>1, KeyReadsKeep DEF FromException
    <3>3. outcome = "AccessKeyNotFoundError"
            <=> NodeSays({"UNKNOWN_ACCESS_KEY", "UNKNOWN_GAS_KEY"})
      <4>1. CASE last = None
        BY <3>1, <4>1, ExceptionHasCause DEF NodeSays, Rpc
      <4>2. CASE last # None
        <5>1. last \in Answers /\ outcome = Handle(last)
          BY <3>1, <4>2, ExceptionHasCause
        <5>2. outcome = "AccessKeyNotFoundError" => last.body = "error"
          BY <5>1, HandledAs
        <5>3. QED
          BY <4>2, <5>1, <5>2, ErrorHandledAs DEF NodeSays
      <4>3. QED
        BY <4>1, <4>2
    <3>4. QED
      BY <2>3, <3>2, <3>3 DEF Raises
  <2>4. QED
    BY <2>1, <2>2, <2>3
<1>2. QED
  BY <1>1, CallsHear, TellsAlways, PTL

-------------------------------------------------------------------------------
(* Foreign exceptions.                                                         *)

\* A run that failed raises ContractPanicError.
LEMMA RunRaisesPanics ==
    ASSUME NEW run, NEW at
    PROVE  LET g == AfterExecution(run, at)
           IN  g.kind = "returns" \/ g.what = "ContractPanicError"
<1> DEFINE outcomes == InOrder(run)
           failures == {i \in DOMAIN outcomes : outcomes[i] \in Failing}
           first == CHOOSE i \in failures : \A j \in failures : i <= j
<1>1. /\ RaisesPanic([outcome |-> first, text |-> Text(outcomes[first])]).what = "ContractPanicError"
      /\ RaisesPanic([outcome |-> 0, text |-> Text(run.status)]).what = "ContractPanicError"
      /\ Returns("value", at).kind = "returns"
  BY DEF RaisesPanic, Raises, Returns
<1> HIDE DEF failures, first
<1>2. QED
  BY <1>1 DEF AfterExecution, failures, first

\* A result of the right shape, with enough lanes, raises no foreign exception.
LEMMA ForeignErrorOfResult ==
    ASSUME NEW o, NEW r, r.form \notin {"odd", "too_few"}
    PROVE  LET g == FromResult(o, r)
           IN  g.kind = "returns" \/ g.what \in NearErrors \cup {"ContractPanicError"}
<1>1. CASE r.form = "panic"
  BY <1>1 DEF FromResult, Raises
<1>2. CASE r.form = "missing"
  BY <1>2 DEF FromResult, RaisesMissingKey, Raises, NearErrors
<1>3. CASE r.form = "error"
  BY <1>3 DEF FromResult, Raises, NearErrors, Rpc
<1>4. CASE r.form = "value" /\ o.method = "send"
  <2>1. FromResult(o, r) = AfterExecution(r.run, r.at)
    BY <1>4 DEF FromResult
  <2>2. QED
    BY <2>1, RunRaisesPanics
<1>5. CASE r.form \notin {"panic", "missing", "error"} /\ ~(r.form = "value" /\ o.method = "send")
  BY <1>5 DEF FromResult, Returns
<1>6. QED
  BY <1>1, <1>2, <1>3, <1>4, <1>5

\* What asks for existence only turns exceptions into results.
LEMMA ExistenceIsNoError ==
    ASSUME NEW o, NEW g
    PROVE  AsExists(o, g) = g \/ AsExists(o, g).kind = "returns"
BY DEF AsExists, Returns

\* An exception that is not one of the client's own has a cause.
THEOREM ForeignErrorsHaveCauses == CallSpec => []ForeignErrorsHaveACause
<1>1. Heard /\ Told => ForeignErrorsHaveACause
  <2> SUFFICES ASSUME Heard, Told, given # None, given.kind = "raises",
                      given.what \notin NearErrors \cup {"ContractPanicError"}
               PROVE  \/ posts = 0 /\ BadArguments(op)
                      \/ last # None /\ last.body \in {"not_object", "odd_error"}
                      \/ content # None /\ content.form \in {"odd", "too_few"}
    BY DEF ForeignErrorsHaveACause
  <2>1. CASE content # None
    <3>1. given = FromResult(op, content)
      BY <2>1, ExistenceIsNoError DEF Told
    <3>2. QED
      BY <2>1, <3>1, ForeignErrorOfResult
  <2>2. CASE content = None /\ BadArguments(op)
    BY <2>2 DEF Told
  <2>3. CASE content = None /\ ~BadArguments(op)
    <3>1. pc = "done" /\ outcome # "result" /\ given = FromException(op, outcome)
      BY <2>3, ExistenceIsNoError DEF Told
    <3>2. given.what = outcome
      BY <3>1 DEF FromException, RaisesMissingKey, Raises
    <3>3. outcome # Rpc(TRUE)
      BY <3>2 DEF NearErrors
    <3>4. last \in Answers /\ last # None /\ outcome = Handle(last)
      BY <3>1, <3>3, ExceptionHasCause
    <3>5. outcome = "AttributeError"
      BY <3>1, <3>2, <3>4, HandledAs
    <3>6. QED
      BY <3>4, <3>5, HandledAs
  <2>4. QED
    BY <2>1, <2>2, <2>3
<1>2. QED
  BY <1>1, CallsHear, TellsAlways, PTL

-------------------------------------------------------------------------------
(* Failures.                                                                   *)

\* The outcomes of a run, in order, are a sequence: they have a first failure.
LEMMA FirstFailure ==
    ASSUME NEW run \in Executions
    PROVE  LET outcomes == InOrder(run)
               failures == {i \in DOMAIN outcomes : outcomes[i] \in Failing}
               first    == CHOOSE i \in failures : \A j \in failures : i <= j
           IN  failures # {} => first \in failures /\ \A j \in failures : first <= j
<1> DEFINE outcomes == InOrder(run)
           failures == {i \in DOMAIN outcomes : outcomes[i] \in Failing}
<1>1. PICK n \in 0 .. MaxReceipts : run.receipts \in [1 .. n -> Outcomes]
  BY DEF Executions
<1>2. run.receipts \in Seq(Outcomes) /\ run.tx \in Outcomes
  <2>1. n \in Nat
    BY <1>1, ClientAssumption
  <2>2. QED
    BY <1>1, <2>1 DEF Executions
<1>3. outcomes \in Seq(Outcomes)
  BY <1>2 DEF InOrder
<1>4. failures \subseteq Nat
  <2> HIDE DEF outcomes
  <2>1. QED
    BY <1>3
<1> HIDE DEF outcomes, failures
<1>5. failures # {} => \E i \in failures : \A j \in failures : i <= j
  BY <1>4, LeastOf
<1>6. QED
  BY <1>5 DEF failures, outcomes

\* A send that waited names the earliest outcome that failed.
THEOREM FirstFailuresAreReported == CallSpec => []FirstFailureIsReported
<1>1. Told => FirstFailureIsReported
  <2> DEFINE done == InOrder(content.run)
             failed == {i \in DOMAIN done : done[i] \in Failing}
             first == CHOOSE i \in failed : \A j \in failed : i <= j
             told == given.failure
  <2> SUFFICES ASSUME Told, content # None, content.run # None
               PROVE  IF given.kind = "returns" THEN failed = {} /\ content.run.status = "ok"
                      ELSE /\ failed = {} => told.outcome = 0 /\ content.run.status # "ok"
                           /\ failed # {} => /\ told.outcome \in failed
                                             /\ \A i \in failed : told.outcome <= i
                                             /\ told.text = Text(done[told.outcome])
    BY DEF FirstFailureIsReported, InOrder
  <2>1. given = AfterExecution(content.run, content.at)
    <3>1. op.method = "send" /\ content.form = "value"
      BY DEF Told
    <3>2. FromResult(op, content) = AfterExecution(content.run, content.at)
      BY <3>1 DEF FromResult
    <3>3. AsExists(op, FromResult(op, content)) = FromResult(op, content)
      BY <3>1 DEF AsExists
    <3>4. QED
      BY <3>2, <3>3 DEF Told
  <2>2. failed # {} => first \in failed /\ \A j \in failed : first <= j
    BY FirstFailure DEF Told
  <2>3. /\ failed # {} => given = RaisesPanic([outcome |-> first, text |-> Text(done[first])])
        /\ failed = {} /\ content.run.status # "ok"
             => given = RaisesPanic([outcome |-> 0, text |-> Text(content.run.status)])
        /\ failed = {} /\ content.run.status = "ok" => given = Returns("value", content.at)
    BY <2>1 DEF AfterExecution
  <2> HIDE DEF done, failed, first
  <2>4. \A failure : /\ RaisesPanic(failure).kind = "raises"
                     /\ RaisesPanic(failure).failure = failure
    BY DEF RaisesPanic, Raises
  <2>5. Returns("value", content.at).kind = "returns"
    BY DEF Returns
  <2>6. QED
    BY <2>2, <2>3, <2>4, <2>5
<1>2. QED
  BY <1>1, TellsAlways, PTL
================================================================================
