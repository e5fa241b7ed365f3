----------------------- MODULE AsyncSendTransactionProofs -----------------------
(* The results about SendTransaction for the tasks of AsyncSendTransaction.    *)
(* Most steps of a task are steps of a call, about which they are proved       *)
(* already; what is left is to start with a warm cache and to be cancelled.    *)
EXTENDS AsyncSendTransaction, SendTransactionProofs

\* A task takes a step of a call, starts, or is cancelled.
LEMMA TaskCases ==
    ASSUME [AsyncNext]_vars
    PROVE  [Next]_vars \/ \E c \in Calls : StartMonotonic(c) \/ Cancel(c)
BY DEF AsyncNext, TaskStep, Resumed, Next, Step, ClientStep

\* A monotonic task with a cold cache starts as a call does; with a warm one it
\* reserves in the same step.
StartWarm(c) ==
    /\ pc[c] = "start" /\ ~req[c].strict
    /\ pc' = [pc EXCEPT ![c] = "block"]
    /\ SetEntry(c, NextNonce(Entry(c), None))
    /\ nonce' = [nonce EXCEPT ![c] = NextNonce(Entry(c), None)]
    /\ UNCHANGED <<req, attempt, told, tries, signed, lock, nodeVars, faults>>

LEMMA StartCases ==
    ASSUME NEW c \in Calls, StartMonotonic(c)
    PROVE  [Next]_vars \/ StartWarm(c)
<1>1. CASE Has(Entry(c))
  BY <1>1 DEF StartMonotonic, StartWarm, Goto
<1>2. CASE ~Has(Entry(c))
  <2>1. CheckCache(c)
    BY <1>2 DEF StartMonotonic, CheckCache, Goto, clientVars
  <2>2. QED
    BY <2>1 DEF Next, Step, ClientStep
<1>3. QED
  BY <1>1, <1>2

\* What a warm start reserves is a nonce above its entry.
LEMMA WarmNonce ==
    ASSUME TypeOK, NEW c \in Calls
    PROVE  /\ NextNonce(Entry(c), None) \in Nat
           /\ NextNonce(Entry(c), None) >= Base(Entry(c))
<1>1. Entry(c) \in Nat \cup {None} /\ Base(Entry(c)) \in Nat
  BY EntryType, BaseIsNat
<1>2. /\ NextNonce(Entry(c), None) \in Nat
      /\ NextNonce(Entry(c), None) > Base(Entry(c))
  BY <1>1, ReserveIsFresh
<1>3. QED
  BY <1>1, <1>2

-------------------------------------------------------------------------------
(* Type correctness.                                                           *)

LEMMA StartWarmType ==
    ASSUME TypeOK, NEW c \in Calls, StartWarm(c)
    PROVE  TypeOK'
<1>1. cache' \in [Clients -> [Counters -> Nat \cup {None}]]
  BY WarmNonce, EntrySet DEF StartWarm
<1>2. QED
  BY <1>1, WarmNonce DEF TypeOK, StartWarm, PCs, nodeVars

LEMMA CancelType ==
    ASSUME TypeOK, NEW c \in Calls, Cancel(c)
    PROVE  TypeOK'
<1>1. lock' \in [Clients -> [Counters -> Calls \cup {None}]]
  BY UnlockType DEF TypeOK, Cancel, ReleaseIfHeld
<1>2. CurrentTx(c) \in TxType
  BY TxOf DEF TypeOK, CurrentTx
<1>3. QED
  BY <1>1, <1>2 DEF TypeOK, Cancel, Goto, PCs, Ended

\* Every reachable state of the tasks and the node is well typed.
THEOREM AsyncTypeCorrect == AsyncSpec => []TypeOK
<1>1. Init => TypeOK
  BY SendAssumption DEF Init, TypeOK, PCs, Attempts, Counters
<1>2. ASSUME TypeOK, [Next]_vars
      PROVE  TypeOK'
  <2>1. ASSUME NEW c \in Calls, Step(c)
        PROVE  TypeOK'
    BY <1>2, <2>1, ClientStepType, NodeStepType DEF Step
  <2>2. ASSUME NEW t \in pool, Include(t)
        PROVE  TypeOK'
    BY <1>2, <2>2, IncludeType
  <2>3. CASE UNCHANGED vars
    BY <1>2, <2>3 DEF TypeOK, vars, callVars, clientVars, nodeVars
  <2>4. QED
    BY <1>2, <2>1, <2>2, <2>3 DEF Next, Done
<1>3. TypeOK /\ [AsyncNext]_vars => TypeOK'
  BY <1>2, TaskCases, StartCases, StartWarmType, CancelType
<1>4. QED
  BY <1>1, <1>3, PTL DEF AsyncSpec

-------------------------------------------------------------------------------
(* Nonces.  A task that is cancelled keeps its claim: its nonce is not given   *)
(* to another.                                                                 *)

LEMMA AsyncClaimStep ==
    ASSUME TypeOK, TypeOK', ClaimInv, [AsyncNext]_vars
    PROVE  ClaimInv'
<1>1. CASE [Next]_vars
  BY <1>1, ClaimStep
<1>2. ASSUME NEW c \in Calls, StartWarm(c)
      PROVE  ClaimInv'
  <2>1. CacheGrows
    BY <1>2, WarmNonce, SettingGrows DEF StartWarm
  <2>2. EntriesGrow
    BY <1>2, <2>1, GrowingEntries DEF StartWarm
  <2>3. PICK n \in Nat : Claims(c, n)
    BY <1>2, ReservingClaims DEF StartWarm
  <2>4. QED
    BY <2>2, <2>3, FreshClaimKeeps
<1>3. ASSUME NEW c \in Calls, Cancel(c)
      PROVE  ClaimInv'
  <2>1. CacheGrows
    BY <1>3, KeepingGrows DEF Cancel
  <2>2. EntriesGrow
    BY <1>3, <2>1, GrowingEntries DEF Cancel
  <2>3. \A d \in Calls : Claimed(d)' \subseteq Claimed(d)
    BY <1>3 DEF TypeOK, Cancel, Goto, Claimed
  <2>4. QED
    BY <2>2, <2>3, NoClaimKeeps
<1>4. QED
  BY <1>1, <1>2, <1>3, TaskCases, StartCases

\* No two monotonic tasks of one client sign the same nonce of a key, cancelled
\* ones included.
THEOREM AsyncNoncesNeverReused == AsyncSpec => []NoNonceReuse
<1>1. Init => ClaimInv
  BY DEF Init, ClaimInv, ClaimsBelowEntry, ClaimsDisjoint, Claimed
<1>2. TypeOK /\ TypeOK' /\ ClaimInv /\ [AsyncNext]_vars => ClaimInv'
  BY AsyncClaimStep
<1>3. ClaimInv => NoNonceReuse
  BY DEF ClaimInv, ClaimsDisjoint, NoNonceReuse, Claimed
<1>4. QED
  BY <1>1, <1>2, <1>3, AsyncTypeCorrect, PTL DEF AsyncSpec

-------------------------------------------------------------------------------
(* The strict locks.                                                           *)

LEMMA AsyncGuardStep ==
    ASSUME TypeOK, HolderInv, [AsyncNext]_vars, NEW d \in Calls, InGuard(d)'
    PROVE  LockOf(d)' = d
<1>1. CASE [Next]_vars
  BY <1>1, GuardStep
<1>2. ASSUME NEW c \in Calls, UNCHANGED <<req, lock>>, ~InGuard(c)',
             pc' = [pc EXCEPT ![c] = pc'[c]]
      PROVE  LockOf(d)' = d
  <2>1. InGuard(d)
    BY <1>2 DEF TypeOK, InGuard
  <2>2. QED
    BY <1>2, <2>1 DEF HolderInv, LockOf, Key
<1>3. ASSUME NEW c \in Calls, StartWarm(c)
      PROVE  LockOf(d)' = d
  BY <1>2, <1>3 DEF StartWarm, InGuard
<1>4. ASSUME NEW c \in Calls, Cancel(c)
      PROVE  LockOf(d)' = d
  <2>1. req' = req /\ pc' = [pc EXCEPT ![c] = pc'[c]] /\ pc'[c] = "error"
        /\ pc[c] \notin Ended
    BY <1>4 DEF TypeOK, Cancel, Awaits, Goto, Ended
  <2>2. CASE pc[c] = "start"
    BY <1>2, <1>4, <2>1, <2>2 DEF Cancel, ReleaseIfHeld, InGuard, Ended
  <2>3. CASE pc[c] # "start"
    <3>1. Unlock(c) /\ (InGuard(c) \/ ~req[c].strict)
      BY <1>4, <2>1, <2>3, RequestOf DEF Cancel, ReleaseIfHeld, InGuard
    <3>2. QED
      BY <2>1, <3>1, LeavingKeepsHolders DEF Ended
  <2>4. QED
    BY <2>2, <2>3
<1>5. QED
  BY <1>1, <1>3, <1>4, TaskCases, StartCases

\* Two strict tasks of one client are never both past one key's lock, wherever
\* others are cancelled.
THEOREM AsyncStrictCallsExclude == AsyncSpec => []StrictExclusion
<1>1. Init => HolderInv
  BY DEF Init, HolderInv, InGuard
<1>2. TypeOK /\ HolderInv /\ [AsyncNext]_vars => HolderInv'
  BY AsyncGuardStep DEF HolderInv
<1>3. HolderInv => StrictExclusion
  BY DEF HolderInv, StrictExclusion, SameEntry, LockOf
<1>4. QED
  BY <1>1, <1>2, <1>3, AsyncTypeCorrect, PTL DEF AsyncSpec

-------------------------------------------------------------------------------
(* At most once, and the promise.                                              *)

\* The two steps leave the chain and everyone else alone; the task that takes
\* one has signed nothing that could still be executed, unless it is cancelled
\* in the middle of its post.
LEMMA TaskOwnStep ==
    ASSUME TypeOK, NEW c \in Calls, StartWarm(c) \/ Cancel(c)
    PROVE  /\ ChainStep /\ UNCHANGED <<req, told, signed, ak, landed>>
           /\ pc[c] \notin Ended /\ pc' = [pc EXCEPT ![c] = pc'[c]]
           /\ \/ pc[c] = "start" /\ pc'[c] = "block" /\ ~req[c].strict
              \/ pc'[c] = "error" /\ UNCHANGED nonce
           /\ \A d \in Calls \ {c} : pc'[d] = pc[d] /\ nonce'[d] = nonce[d]
<1>1. CASE StartWarm(c)
  BY <1>1 DEF TypeOK, StartWarm, ChainStep, Ended, nodeVars
<1>2. CASE Cancel(c)
  BY <1>2 DEF TypeOK, Cancel, Awaits, ChainStep, Goto, Ended
<1>3. QED
  BY <1>1, <1>2

LEMMA AsyncOnceStep ==
    ASSUME TypeOK, RecognisesResend, OnceInv, [AsyncNext]_vars
    PROVE  OnceInv'
<1>1. CASE [Next]_vars
  BY <1>1, OnceStep
<1>2. ASSUME NEW c \in Calls, StartWarm(c) \/ Cancel(c)
      PROVE  OnceInv'
  <2> SUFFICES ASSUME NEW d \in Calls
               PROVE  OnceOf(d)'
    BY DEF OnceInv
  <2>0. OnceOf(d)
    BY DEF OnceInv
  <2>1. CASE c # d
    BY <1>2, <2>0, <2>1, TaskOwnStep, BystanderKeeps
  <2>2. CASE c = d
    <3>1. \A n \in signed[c] : Live(c, n) \/ Dead(c, n)
      BY <2>0, <2>2 DEF OnceOf, OthersDead
    <3>2. \A n \in signed[c] : Live(c, n)' \/ Dead(c, n)'
      <4>1. \A n \in signed[c] : Dead(c, n) => Dead(c, n)'
        BY <1>2, TaskOwnStep DEF Dead, Tx, Counter
      <4>2. \A n \in signed[c] : Live(c, n) => Live(c, n)'
        BY <1>2, TaskOwnStep DEF Live
      <4>3. QED
        BY <3>1, <4>1, <4>2
    <3>3. OthersDead(c)'
      BY <1>2, <3>2, TaskOwnStep DEF OthersDead
    <3>4. StrictBase(c)' /\ AcceptedLanded(c)'
      BY <1>2, TaskOwnStep DEF StrictBase, AcceptedLanded
    <3>5. QED
      BY <2>2, <3>3, <3>4 DEF OnceOf
  <2>3. QED
    BY <2>1, <2>2
<1>3. QED
  BY <1>1, <1>2, TaskCases, StartCases

LEMMA AsyncStepRefines ==
    ASSUME TypeOK, OnceInv, [AsyncNext]_vars
    PROVE  [Promise!Next]_(Promise!vars)
<1>1. CASE [Next]_vars
  BY <1>1, StepRefines
<1>2. ASSUME NEW c \in Calls, StartWarm(c)
      PROVE  [Promise!Next]_(Promise!vars)
  <2>1. Outcome' = Outcome
    BY <1>2 DEF TypeOK, StartWarm, Outcome, Ended
  <2>2. QED
    BY <1>2, <2>1, TaskOwnStep, ExecutionRefines
<1>3. ASSUME NEW c \in Calls, Cancel(c)
      PROVE  [Promise!Next]_(Promise!vars)
  <2>1. pc'[c] = "error"
    BY <1>3 DEF TypeOK, Cancel, Goto
  <2>2. QED
    BY <1>3, <2>1, TaskOwnStep, EndingRefines DEF Ended
<1>4. QED
  BY <1>1, <1>2, <1>3, TaskCases, StartCases

\* The tasks keep the promise SendOnce makes to their callers; a cancelled one
\* promises nothing but that it is executed at most once.
THEOREM AsyncImplementsSendOnce ==
    ASSUME RecognisesResend
    PROVE  AsyncSpec => KeepsPromise
<1>1. Init => Promise!Init /\ OnceInv
  BY DEF Init, Promise!Init, WaitingCalls, Outcome, ExecutedCalls, LandedBy, Ended,
         OnceInv, OnceOf, OthersDead, StrictBase, AcceptedLanded
<1>2. TypeOK /\ OnceInv /\ [AsyncNext]_vars => OnceInv'
  BY AsyncOnceStep
<1>3. TypeOK /\ OnceInv /\ [AsyncNext]_vars => [Promise!Next]_(Promise!vars)
  BY AsyncStepRefines
<1>4. QED
  BY <1>1, <1>2, <1>3, AsyncTypeCorrect, PTL DEF AsyncSpec, KeepsPromise, Promise!Spec

-------------------------------------------------------------------------------
(* Charges, successes and turns.                                               *)

\* The two steps keep the cache going up; one leaves a monotonic task that has
\* lost nothing with a nonce, the other ends the task.
LEMMA TaskOwnEntries ==
    ASSUME TypeOK, TypeOK', NEW c \in Calls, StartWarm(c) \/ Cancel(c)
    PROVE  EntriesGrow /\ attempt' = attempt
<1>1. CASE StartWarm(c)
  <2>1. CacheGrows
    BY <1>1, WarmNonce, SettingGrows DEF StartWarm
  <2>2. QED
    BY <1>1, <2>1, GrowingEntries DEF StartWarm
<1>2. CASE Cancel(c)
  <2>1. CacheGrows
    BY <1>2, KeepingGrows DEF Cancel
  <2>2. QED
    BY <1>2, <2>1, GrowingEntries DEF Cancel
<1>3. QED
  BY <1>1, <1>2

LEMMA AsyncLedgerStep ==
    ASSUME TypeOK, LedgerInv, [AsyncNext]_vars
    PROVE  LedgerInv'
BY LedgerStep, NextIsChainStep, TaskCases, StartCases, TaskOwnStep

\* A warm start has lost nothing yet, and a cancelled task loses nothing more.
LEMMA TaskOwnCharged ==
    ASSUME TypeOK, TypeOK', LedgerInv, LedgerInv', NEW c \in Calls, Charged(c), Informed(c),
           StartWarm(c) \/ Cancel(c)
    PROVE  Charged(c)' /\ Informed(c)'
<1>0. /\ ChainStep /\ UNCHANGED <<req, signed, ak, attempt>>
      /\ pc' = [pc EXCEPT ![c] = pc'[c]]
  BY TaskOwnStep, TaskOwnEntries
<1>a. pc \in [Calls -> PCs] /\ attempt \in [Calls -> 0 .. Attempts]
  BY DEF TypeOK
<1>b. attempt[c] \in Nat
  BY <1>a DEF Attempts
<1>c. ak[Counter(req[c])] \in Nat /\ Spent(c) \in Nat
  BY ChargeTypes
<1>1. CASE StartWarm(c)
  <2>1. /\ pc[c] = "start" /\ pc'[c] = "block" /\ ~req[c].strict /\ attempt'[c] = 0
    BY <1>0, <1>a, <1>b, <1>c, <1>1 DEF StartWarm, Informed
  <2>2. Spent(c)' = 0 /\ Free(c)' = 1
    BY <1>0, <1>a, <1>b, <1>c, <2>1, NextHorizon DEF Free
  <2>3. Charge(c)' \in Nat
    <3>1. Charge(c)' = Cardinality(Others(landed', Counter(req[c])', OwnTxs(c)', Horizon(c)'))
      BY DEF Charge
    <3>2. Others(landed', Counter(req[c])', OwnTxs(c)', Horizon(c)') \in SUBSET landed'
      BY DEF Others
    <3>3. QED
      BY <3>1, <3>2, FS_Subset, FS_CardinalityType DEF LedgerInv
  <2>4. QED
    BY <2>1, <2>2, <2>3 DEF Charged, Informed
<1>2. CASE Cancel(c)
  <2>1. pc'[c] = "error"
    BY <1>0, <1>a, <1>b, <1>c, <1>2 DEF Cancel, Goto
  <2>2. /\ Horizon(c)' = ak[Counter(req[c])] /\ Spent(c)' = attempt[c]
    BY <1>0, <1>a, <1>b, <1>c, <2>1, NextHorizon DEF Ended
  <2>3. Spent(c)' \in Nat /\ Spent(c)' <= Spent(c)
    BY <1>0, <1>a, <1>b, <1>c, <2>2 DEF Spent
  <2>4. Charged(c)'
    BY <1>0, <1>a, <1>b, <1>c, <2>2, <2>3, ChargeKept
  <2>5. QED
    BY <2>1, <2>4 DEF Informed
<1>3. QED
  BY <1>1, <1>2

LEMMA AsyncChargeStep ==
    ASSUME TypeOK, TypeOK', RecognisesResend, LedgerInv, LedgerInv', OnceInv, ChargeInv,
           [AsyncNext]_vars
    PROVE  ChargeInv'
<1>1. CASE [Next]_vars
  BY <1>1, ChargeStep
<1>2. ASSUME NEW c \in Calls, StartWarm(c) \/ Cancel(c)
      PROVE  ChargeInv'
  <2>0. req' = req /\ ChainStep /\ EntriesGrow /\ UNCHANGED <<signed, told, attempt>>
    BY <1>2, TaskOwnStep, TaskOwnEntries
  <2> SUFFICES ASSUME NEW d \in Calls, Silent => req[d].strict
               PROVE  Charged(d)' /\ Informed(d)'
    BY <2>0 DEF ChargeInv
  <2>1. Charged(d) /\ Informed(d)
    BY DEF ChargeInv
  <2>2. CASE c = d
    BY <1>2, <2>1, <2>2, TaskOwnCharged
  <2>3. CASE c # d
    BY <1>2, <2>0, <2>1, <2>3, TaskOwnStep, BystanderCharged
  <2>4. QED
    BY <2>2, <2>3
<1>3. QED
  BY <1>1, <1>2, TaskCases, StartCases

\* Every rejection of a task's attempt is charged to another transaction, also when
\* tasks are cancelled in between.
THEOREM AsyncRejectionsCharged ==
    ASSUME RecognisesResend
    PROVE  AsyncSpec => []RejectionsAreCharged
<1>1. Init => OnceInv
  BY DEF Init, OnceInv, OnceOf, OthersDead, StrictBase, AcceptedLanded
<1>2. TypeOK /\ OnceInv /\ [AsyncNext]_vars => OnceInv'
  BY AsyncOnceStep
<1>3. TypeOK /\ LedgerInv /\ [AsyncNext]_vars => LedgerInv'
  BY AsyncLedgerStep
<1>4. Init /\ LedgerInv => ChargeInv
  BY ChargeInit
<1>5. TypeOK /\ TypeOK' /\ LedgerInv /\ LedgerInv' /\ OnceInv /\ ChargeInv /\ [AsyncNext]_vars
        => ChargeInv'
  BY AsyncChargeStep
<1>6. TypeOK /\ LedgerInv /\ ChargeInv => RejectionsAreCharged
  BY ChargesCount
<1>7. QED
  BY <1>1, <1>2, <1>3, <1>4, <1>5, <1>6, LedgerInit, AsyncTypeCorrect, PTL DEF AsyncSpec

LEMMA AsyncDistinctStep ==
    ASSUME TypeOK, LedgerInv, HolderInv, DistinctInv, [AsyncNext]_vars
    PROVE  DistinctInv'
<1>1. CASE [Next]_vars
  BY <1>1, DistinctStep
<1>2. ASSUME NEW e \in Calls, StartWarm(e) \/ Cancel(e)
      PROVE  DistinctInv'
  <2>0. /\ ChainStep /\ UNCHANGED <<req, told, signed, landed>>
        /\ \/ pc[e] = "start" /\ pc'[e] = "block" /\ ~req[e].strict
           \/ pc'[e] = "error" /\ UNCHANGED nonce
        /\ \A d \in Calls \ {e} : pc'[d] = pc[d] /\ nonce'[d] = nonce[d]
        /\ pc[e] \notin Ended
    BY <1>2, TaskOwnStep
  <2>1. ASSUME NEW c \in Calls
        PROVE  DoneOf(c)'
    <3>1. CASE c = e
      BY <2>0, <3>1 DEF DoneOf, Succeeded
    <3>2. CASE c # e
      BY <2>0, <3>2, BystanderDone DEF DistinctInv
    <3>3. QED
      BY <3>1, <3>2
  <2>2. ASSUME NEW c \in Calls, NEW d \in Calls, StrictPair(c, d), Succeeded(c)'
        PROVE  Past(c, d)'
    <3>1. c # e /\ Succeeded(c)
      BY <2>0, <2>2 DEF Succeeded
    <3>2. Past(c, d)
      BY <2>2, <3>1 DEF DistinctInv, PastInv
    <3>3. CASE d = e
      BY <2>0, <2>2, <3>3 DEF Past, StrictPair, Succeeded
    <3>4. CASE d # e
      BY <2>0, <3>1, <3>2, <3>4 DEF Past, Succeeded
    <3>5. QED
      BY <3>3, <3>4
  <2>3. PastInv'
    BY <2>0, <2>2 DEF PastInv, StrictPair, SameEntry, Key, Waits
  <2>4. QED
    BY <2>1, <2>3 DEF DistinctInv
<1>3. QED
  BY <1>1, <1>2, TaskCases, StartCases

\* Tasks of one client that waited and succeeded stand for as many transactions.
THEOREM AsyncSuccessesDistinct == AsyncSpec => []SuccessesAreDistinct
<1>1. Init => ClaimInv /\ HolderInv
  BY DEF Init, ClaimInv, ClaimsBelowEntry, ClaimsDisjoint, Claimed, HolderInv, InGuard
<1>2. TypeOK /\ TypeOK' /\ ClaimInv /\ [AsyncNext]_vars => ClaimInv'
  BY AsyncClaimStep
<1>3. TypeOK /\ HolderInv /\ [AsyncNext]_vars => HolderInv'
  BY AsyncGuardStep DEF HolderInv
<1>4. TypeOK /\ LedgerInv /\ [AsyncNext]_vars => LedgerInv'
  BY AsyncLedgerStep
<1>5. TypeOK /\ LedgerInv /\ HolderInv /\ DistinctInv /\ [AsyncNext]_vars => DistinctInv'
  BY AsyncDistinctStep
<1>6. TypeOK /\ ClaimInv /\ DistinctInv => SuccessesAreDistinct
  BY DistinctSuccesses
<1>7. QED
  BY <1>1, <1>2, <1>3, <1>4, <1>5, <1>6, LedgerInit, DistinctInit, AsyncTypeCorrect, PTL
     DEF AsyncSpec

LEMMA AsyncTurnStep ==
    ASSUME TypeOK, RecognisesResend, LedgerInv, HolderInv, DistinctInv, TurnInv,
           [AsyncNext]_vars
    PROVE  TurnInv'
<1>1. CASE [Next]_vars
  BY <1>1, TurnStep
<1>2. ASSUME NEW e \in Calls, StartWarm(e) \/ Cancel(e)
      PROVE  TurnInv'
  <2>0. /\ UNCHANGED <<req, ak, landed>>
        /\ \/ pc[e] = "start" /\ pc'[e] = "block" /\ ~req[e].strict
           \/ pc'[e] = "error"
        /\ \A d \in Calls \ {e} : pc'[d] = pc[d] /\ nonce'[d] = nonce[d]
        /\ pc[e] \notin Ended /\ attempt' = attempt
    BY <1>2, TaskOwnStep DEF StartWarm, Cancel
  <2> SUFFICES ASSUME NEW c \in Calls, Peaceful(c)'
               PROVE  TurnOf(c)'
    BY DEF TurnInv
  <2>1. Peaceful(c) /\ Counter(req[e]) # Counter(req[c])
    <3>1. \A d \in Calls : pc[d] = "error" => pc'[d] = "error"
      BY <2>0 DEF Ended
    <3>2. Peaceful(c)
      BY <2>0, <3>1, PeaceIsOld
    <3>3. Counter(req[e]) # Counter(req[c])
      BY <2>0 DEF Peaceful, Counter
    <3>4. QED
      BY <3>2, <3>3
  <2>2. TurnOf(c) /\ c # e
    BY <2>1 DEF TurnInv
  <2>3. /\ pool' \subseteq pool \cup {CurrentTx(e)}
        /\ CurrentTx(e).counter # Counter(req[c])
        /\ Counter(req[c])' = Counter(req[c])
        /\ \A d \in Calls \ {e} : CurrentTx(d)' = CurrentTx(d)
    <3>1. pool' \subseteq pool \cup {CurrentTx(e)}
      BY <1>2 DEF StartWarm, Cancel, nodeVars
    <3>2. CurrentTx(e).counter # Counter(req[c])
      BY <2>1, TxOf DEF TypeOK, CurrentTx
    <3>3. Counter(req[c])' = Counter(req[c]) /\ \A d \in Calls \ {e} : CurrentTx(d)' = CurrentTx(d)
      BY <2>0 DEF CurrentTx, Tx, Counter
    <3>4. QED
      BY <3>1, <3>2, <3>3
  <2>4. OnTop(c)'
    BY <2>0, <2>2, <2>3 DEF TurnOf, OnTop
  <2>5. PoolSpent(c)'
    <3> SUFFICES ASSUME NEW t \in pool', t.counter = Counter(req[c])
                 PROVE  t.nonce <= ak[Counter(req[c])] \/ OnItsWay(t)'
      BY <2>0, <2>3 DEF PoolSpent
    <3>1. t \in pool /\ (t.nonce <= ak[Counter(req[c])] \/ OnItsWay(t))
      BY <2>2, <2>3 DEF TurnOf, PoolSpent
    <3>2. OnItsWay(t) => OnItsWay(t)'
      BY <2>0, <2>3 DEF OnItsWay
    <3>3. QED
      BY <3>1, <3>2
  <2>6. QED
    BY <2>4, <2>5 DEF TurnOf
<1>3. QED
  BY <1>1, <1>2, TaskCases, StartCases

\* While all tasks on a counter are strict, wait and belong to one client, none is
\* ever rejected, unless one has been cancelled or has ended in another error.
THEOREM AsyncStrictCallsTakeTurns ==
    ASSUME RecognisesResend
    PROVE  AsyncSpec => []StrictTakesTurns
<1>1. Init => HolderInv
  BY DEF Init, HolderInv, InGuard
<1>2. TypeOK /\ HolderInv /\ [AsyncNext]_vars => HolderInv'
  BY AsyncGuardStep DEF HolderInv
<1>3. TypeOK /\ LedgerInv /\ [AsyncNext]_vars => LedgerInv'
  BY AsyncLedgerStep
<1>4. TypeOK /\ LedgerInv /\ HolderInv /\ DistinctInv /\ [AsyncNext]_vars => DistinctInv'
  BY AsyncDistinctStep
<1>5. TypeOK /\ LedgerInv /\ HolderInv /\ DistinctInv /\ TurnInv /\ [AsyncNext]_vars => TurnInv'
  BY AsyncTurnStep
<1>6. TurnInv => StrictTakesTurns
  BY DEF TurnInv, Peaceful, TurnOf, OnTop, StrictTakesTurns
<1>7. QED
  BY <1>1, <1>2, <1>3, <1>4, <1>5, <1>6, LedgerInit, DistinctInit, TurnInit,
     AsyncTypeCorrect, PTL DEF AsyncSpec
=================================================================================
