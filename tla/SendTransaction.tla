---------------------------- MODULE SendTransaction ----------------------------
(* Near.send_transaction (client.py): concurrent calls on threads, the nonce   *)
(* cache and the strict-mode locks they share inside a client, and the node    *)
(* they talk to.  One step is one access to something shared: the cache (under *)
(* its own lock), a strict lock, or one RPC.  What a call computes in between  *)
(* is local and belongs to the step before it.                                 *)
(*                                                                             *)
(* A call's arguments are checked (require_signer, validate_gas_key_index)     *)
(* before it touches any state: Requests are the arguments that pass.          *)
EXTENDS Integers, FiniteSets, NonceCache

CONSTANTS
    Calls,              \* calls of send_transaction, each on a thread of its own
    Clients,            \* Near objects; a with_signer clone is another client
    Signers,            \* (account, key pair)
    Lanes,              \* None for the access key itself, or a gas-key lane
    Payloads,           \* (receiver, actions)
    Panicking,          \* the payloads whose execution fails on chain
    Requests,           \* the requests the calls may make
    InitNonce,          \* the nonce of each counter when the calls begin
    FinalityLag,        \* how far the "final" view may trail the optimistic one
    Retries,            \* RpcTransport.retries
    MaxFaults,          \* bound: failed posts and other errors in a behaviour
    Silent,             \* the node may report InvalidNonce without its ak_nonce
    RecognisesResend    \* the node answers a repost of an executed transaction

Counters == Signers \X Lanes
RequestType == [client : Clients, signer : Signers, lane : Lanes,
                strict : BOOLEAN, wait : {"NONE", "EXECUTED_OPTIMISTIC"},
                payload : Payloads]

ASSUME SendAssumption ==
    /\ Requests \subseteq RequestType
    /\ InitNonce \in [Counters -> Nat]
    /\ FinalityLag \in Nat
    /\ Retries \in Nat
    /\ MaxFaults \in Nat
    /\ Silent \in BOOLEAN
    /\ RecognisesResend \in BOOLEAN
    /\ None \notin Calls

Attempts == 3                                   \* for attempt in range(3)

VARIABLES
    req,        \* each call's request
    pc,         \* where each call is
    attempt,    \* how many of its attempts the node has rejected
    told,       \* the nonce the node last told the call, None if it gave none
    nonce,      \* the nonce of the current attempt
    tries,      \* how many posts of the current transaction have failed
    signed,     \* history: the nonces the call has signed
    cache,      \* each client's NonceCache
    lock,       \* who holds each client's strict lock of each key
    ak,         \* node: the current nonce of each counter
    landed,     \* node: the executed transactions
    pool,       \* node: transactions accepted but not yet executed
    faults      \* how many faults have happened

callVars == <<pc, attempt, told, nonce, tries, signed>>
clientVars == <<cache, lock>>
nodeVars == <<ak, landed, pool>>
vars == <<req, callVars, clientVars, nodeVars, faults>>

Ended == {"returned", "panicked", "invalid_nonce", "error"}
PCs == {"start", "fetch", "reserve", "block", "send", "accepted", "rejected"}
         \cup Ended

\* The cache entry and the strict lock a request uses (NonceCache.key).
Key(r) == <<r.signer, r.lane>>

\* The counter it uses on chain: the access key's nonce, or one lane's.
Counter(r) == <<r.signer, r.lane>>

\* The part of the signed bytes that tells two transactions apart.  All calls
\* see the same final block, so equal nonces and payloads give equal bytes.
Tx(r, n) == [counter |-> Counter(r), nonce |-> n,
             strict |-> r.strict, payload |-> r.payload]

TxType == [counter : Counters, nonce : Nat, strict : BOOLEAN, payload : Payloads]

CurrentTx(c) == Tx(req[c], nonce[c])
Entry(c) == cache[req[c].client][Key(req[c])]

SetEntry(c, n) == cache' = [cache EXCEPT ![req[c].client][Key(req[c])] = n]

Goto(c, label) == pc' = [pc EXCEPT ![c] = label]

\* Defect: an exception leaves the lock taken.
UnlockOnSuccessOnly(c) == lock' = IF req[c].strict /\ pc[c] = "accepted"
                                  THEN [lock EXCEPT ![req[c].client][Key(req[c])] = None]
                                  ELSE lock

\* Leaving the `with guard` block, on every way out of it.
Unlock(c) == lock' = IF req[c].strict
                     THEN [lock EXCEPT ![req[c].client][Key(req[c])] = None]
                     ELSE lock

Init ==
    /\ req \in [Calls -> Requests]
    /\ pc = [c \in Calls |-> "start"]
    /\ attempt = [c \in Calls |-> 0]
    /\ told = [c \in Calls |-> None]
    /\ nonce = [c \in Calls |-> 0]
    /\ tries = [c \in Calls |-> 0]
    /\ signed = [c \in Calls |-> {}]
    /\ cache = [x \in Clients |-> [k \in Counters |-> None]]
    /\ lock = [x \in Clients |-> [k \in Counters |-> None]]
    /\ ak = InitNonce
    /\ landed = {}
    /\ pool = {}
    /\ faults = 0

-------------------------------------------------------------------------------
(* The call.                                                                   *)

\* A strict send waits for its key's lock and holds it until it ends.
AcquireLock(c) ==
    /\ pc[c] = "start" /\ req[c].strict
    /\ lock[req[c].client][Key(req[c])] = None
    /\ lock' = [lock EXCEPT ![req[c].client][Key(req[c])] = c]
    /\ Goto(c, "fetch")
    /\ UNCHANGED <<req, attempt, told, nonce, tries, signed, cache, nodeVars, faults>>

\* The first attempt of a monotonic send fetches only when the cache is cold.
CheckCache(c) ==
    /\ pc[c] = "start" /\ ~req[c].strict
    /\ Goto(c, IF Has(Entry(c)) THEN "reserve" ELSE "fetch")
    /\ UNCHANGED <<req, attempt, told, nonce, tries, signed, clientVars, nodeVars, faults>>

\* _fetch_nonce: what a view says of the counter.  The "optimistic" view is the
\* latest; the "final" one may be what the counter was some blocks ago, before the
\* last transactions of a program that has been restarted since.
Fetched(r, view) ==
    {n \in 0 .. ak[Counter(r)] :
        n + (IF view = "final" THEN FinalityLag ELSE 0) >= ak[Counter(r)]}

\* Defect: the strict path fetches the lagging "final" view.
FetchFinalForStrict(c) ==
    /\ pc[c] = "fetch" /\ req[c].strict
    /\ \E n \in Fetched(req[c], "final") :
         /\ told' = [told EXCEPT ![c] = n]
         /\ nonce' = [nonce EXCEPT ![c] = n + 1]
    /\ Goto(c, "block")
    /\ UNCHANGED <<req, attempt, tries, signed, clientVars, nodeVars, faults>>

\* A strict send fixes its nonce by what it fetched, without the cache.
FetchOptimistic(c) ==
    /\ pc[c] = "fetch" /\ req[c].strict
    /\ \E n \in Fetched(req[c], "optimistic") :
         /\ told' = [told EXCEPT ![c] = n]
         /\ nonce' = [nonce EXCEPT ![c] = n + 1]
    /\ Goto(c, "block")
    /\ UNCHANGED <<req, attempt, tries, signed, clientVars, nodeVars, faults>>

\* A monotonic send brings what it fetched to the cache.
FetchFinal(c) ==
    /\ pc[c] = "fetch" /\ ~req[c].strict
    /\ \E n \in Fetched(req[c], "final") : told' = [told EXCEPT ![c] = n]
    /\ Goto(c, "reserve")
    /\ UNCHANGED <<req, attempt, nonce, tries, signed, clientVars, nodeVars, faults>>

\* The next nonce is taken from the cache, together with what was fetched.
Reserve(c) ==
    /\ pc[c] = "reserve"
    /\ LET n == NextNonce(Entry(c), told[c])
       IN /\ SetEntry(c, n)
          /\ nonce' = [nonce EXCEPT ![c] = n]
    /\ Goto(c, "block")
    /\ UNCHANGED <<req, attempt, told, tries, signed, lock, nodeVars, faults>>

\* The final block is fetched; the transaction is built, signed and ready to post.
FetchBlock(c) ==
    /\ pc[c] = "block"
    /\ signed' = [signed EXCEPT ![c] = @ \cup {nonce[c]}]
    /\ tries' = [tries EXCEPT ![c] = 0]
    /\ Goto(c, "send")
    /\ UNCHANGED <<req, attempt, told, nonce, clientVars, nodeVars, faults>>

\* The send_tx reply is a result.
Return(c) ==
    /\ pc[c] = "accepted"
    /\ SetEntry(c, SyncTo(Entry(c), nonce[c]))
    /\ Goto(c, IF req[c].wait # "NONE" /\ req[c].payload \in Panicking
               THEN "panicked" ELSE "returned")
    /\ Unlock(c)
    /\ UNCHANGED <<req, attempt, told, nonce, tries, signed, nodeVars, faults>>

\* What `except InvalidNonceError` does to the cache.
Resync(c) == IF told[c] # None THEN SetEntry(c, SyncTo(Entry(c), told[c]))
                               ELSE UNCHANGED cache

\* Defect: a call that was told no nonce, or is monotonic, sends its own again.
ResumeWithoutRefetch(c) ==
    /\ Goto(c, "block")
    /\ nonce' = IF req[c].strict /\ told[c] # None
                THEN [nonce EXCEPT ![c] = told[c] + 1] ELSE nonce

\* Strict resumes from the ak_nonce it was told, if any; monotonic fetches again.
Resume(c) ==
    IF req[c].strict /\ told[c] # None
    THEN Goto(c, "block") /\ nonce' = [nonce EXCEPT ![c] = told[c] + 1]
    ELSE Goto(c, "fetch") /\ UNCHANGED nonce

\* InvalidNonce with attempts left.
Retry(c) ==
    /\ pc[c] = "rejected" /\ attempt[c] + 1 < Attempts
    /\ attempt' = [attempt EXCEPT ![c] = @ + 1]
    /\ Resync(c)
    /\ Resume(c)
    /\ UNCHANGED <<req, told, tries, signed, lock, nodeVars, faults>>

\* InvalidNonce on the last attempt: raise last_error.
GiveUp(c) ==
    /\ pc[c] = "rejected" /\ attempt[c] + 1 = Attempts
    /\ attempt' = [attempt EXCEPT ![c] = @ + 1]
    /\ Resync(c)
    /\ Goto(c, "invalid_nonce")
    /\ Unlock(c)
    /\ UNCHANGED <<req, told, nonce, tries, signed, nodeVars, faults>>

\* Defect: an unrelated error is reported as the last InvalidNonceError.
FailAsInvalidNonce(c) ==
    /\ pc[c] \in {"fetch", "block", "send"} /\ faults < MaxFaults
    /\ faults' = faults + 1
    /\ Goto(c, "invalid_nonce")
    /\ Unlock(c)
    /\ UNCHANGED <<req, attempt, told, nonce, tries, signed, cache, nodeVars>>

\* Any other exception of an RPC leaves the loop at once.
Fail(c) ==
    /\ pc[c] \in {"fetch", "block", "send"} /\ faults < MaxFaults
    /\ faults' = faults + 1
    /\ Goto(c, "error")
    /\ Unlock(c)
    /\ UNCHANGED <<req, attempt, told, nonce, tries, signed, cache, nodeVars>>

\* Defect: one post too many.
RepostsOneMore(c) == tries[c] <= Retries

MayRepost(c) == tries[c] < Retries

\* Defect: running out of posts is taken for a rejection, and signed again.
ExhaustedIsRejected(c) == Goto(c, "rejected") /\ UNCHANGED lock

\* No post left: the last RpcError reaches the caller.
Exhausted(c) == Goto(c, "error") /\ Unlock(c)

\* RpcTransport.call("send_tx"): a post fails transiently (no answer in time, a
\* 503, TIMEOUT_ERROR) after or before the node took the transaction in.  The
\* same bytes are posted again, until the transport has no retry left.
LosePost(c) ==
    /\ pc[c] = "send" /\ faults < MaxFaults
    /\ faults' = faults + 1
    /\ \/ pool' = pool \cup {CurrentTx(c)}
       \/ UNCHANGED pool
    /\ IF MayRepost(c)
       THEN tries' = [tries EXCEPT ![c] = @ + 1] /\ UNCHANGED <<pc, lock>>
       ELSE Exhausted(c) /\ UNCHANGED tries
    /\ UNCHANGED <<req, attempt, told, nonce, signed, cache, ak, landed>>

-------------------------------------------------------------------------------
(* The node (external): how it answers send_tx, and what it does later.        *)

Acceptable(t) == IF t.strict THEN t.nonce = ak[t.counter] + 1
                             ELSE t.nonce > ak[t.counter]

Known(t) == RecognisesResend /\ t \in landed

Execute(t) == /\ landed' = landed \cup {t}
              /\ ak' = [ak EXCEPT ![t.counter] = t.nonce]

\* wait_until NONE: the node answers at once and looks at the transaction later.
NodeQueues(c) ==
    /\ pc[c] = "send" /\ req[c].wait = "NONE"
    /\ pool' = pool \cup {CurrentTx(c)}
    /\ Goto(c, "accepted")
    /\ UNCHANGED <<req, attempt, told, nonce, tries, signed, clientVars, ak, landed, faults>>

\* A transaction the node has already executed: it answers with its outcome.
NodeRecognises(c) ==
    /\ pc[c] = "send" /\ req[c].wait # "NONE"
    /\ Known(CurrentTx(c))
    /\ Goto(c, "accepted")
    /\ UNCHANGED <<req, attempt, told, nonce, tries, signed, clientVars, nodeVars, faults>>

NodeExecutes(c) ==
    /\ pc[c] = "send" /\ req[c].wait # "NONE"
    /\ ~Known(CurrentTx(c)) /\ Acceptable(CurrentTx(c))
    /\ Execute(CurrentTx(c))
    /\ Goto(c, "accepted")
    /\ UNCHANGED <<req, attempt, told, nonce, tries, signed, clientVars, pool, faults>>

\* InvalidNonce, with the counter's value or, if the node is Silent, without it.
NodeRejects(c) ==
    /\ pc[c] = "send" /\ req[c].wait # "NONE"
    /\ ~Known(CurrentTx(c)) /\ ~Acceptable(CurrentTx(c))
    /\ \/ told' = [told EXCEPT ![c] = ak[Counter(req[c])]]
       \/ Silent /\ told' = [told EXCEPT ![c] = None]
    /\ Goto(c, "rejected")
    /\ UNCHANGED <<req, attempt, nonce, tries, signed, clientVars, nodeVars, faults>>

\* A transaction taken in earlier is executed, or dropped when it cannot be.
Include(t) ==
    /\ t \in pool
    /\ pool' = pool \ {t}
    /\ IF t \notin landed /\ Acceptable(t) THEN Execute(t)
                                          ELSE UNCHANGED <<ak, landed>>
    /\ UNCHANGED <<req, callVars, clientVars, faults>>

-------------------------------------------------------------------------------
ClientStep(c) ==
    \/ AcquireLock(c) \/ CheckCache(c) \/ FetchOptimistic(c) \/ FetchFinal(c)
    \/ Reserve(c) \/ FetchBlock(c) \/ Return(c) \/ Retry(c) \/ GiveUp(c)
    \/ Fail(c) \/ LosePost(c)

NodeStep(c) ==
    NodeQueues(c) \/ NodeRecognises(c) \/ NodeExecutes(c) \/ NodeRejects(c)

Step(c) == ClientStep(c) \/ NodeStep(c)

\* Every call has ended and the node has nothing left to do.
Done == (\A c \in Calls : pc[c] \in Ended) /\ pool = {} /\ UNCHANGED vars

Next == (\E c \in Calls : Step(c)) \/ (\E t \in pool : Include(t)) \/ Done

Spec == Init /\ [][Next]_vars

\* A thread that can run runs, and a request is answered or times out.
Fairness == \A c \in Calls : WF_vars(Step(c))
FairSpec == Spec /\ Fairness

-------------------------------------------------------------------------------
(* Properties.                                                                 *)

Waits(c) == req[c].wait # "NONE"
Succeeded(c) == pc[c] \in {"returned", "panicked"}

\* The transactions the call has signed that were executed.
LandedBy(c) == {n \in signed[c] : Tx(req[c], n) \in landed}

SameEntry(c, d) == req[c].client = req[d].client /\ Key(req[c]) = Key(req[d])

\* The strict calls that are inside their key's `with guard` block.
InGuard(c) == req[c].strict /\ pc[c] \notin {"start"} \cup Ended

\* Every variable has its type.
TypeOK ==
    /\ req \in [Calls -> Requests]
    /\ pc \in [Calls -> PCs]
    /\ attempt \in [Calls -> 0 .. Attempts]
    /\ told \in [Calls -> Nat \cup {None}]
    /\ nonce \in [Calls -> Nat]
    /\ tries \in [Calls -> 0 .. Retries]
    /\ signed \in [Calls -> SUBSET Nat]
    /\ cache \in [Clients -> [Counters -> Nat \cup {None}]]
    /\ lock \in [Clients -> [Counters -> Calls \cup {None}]]
    /\ ak \in [Counters -> Nat]
    /\ landed \subseteq TxType
    /\ pool \subseteq TxType
    /\ faults \in 0 .. MaxFaults

\* Two monotonic calls of one client never sign the same nonce of one key, in
\* whatever order their cache checks, fetches, reservations and replies come
\* (client.py:300-303, the NonceCache docstring).
NoNonceReuse ==
    \A c, d \in Calls :
        c # d /\ SameEntry(c, d) /\ ~req[c].strict /\ ~req[d].strict
            => signed[c] \cap signed[d] = {}

\* A call's actions are executed at most once, although it may sign up to three
\* transactions and the transport posts each of them several times
\* (client.py:292-331, rpc.py:242-254).
AtMostOnce ==
    \A c \in Calls : \A m, n \in LandedBy(c) : m = n

\* InvalidNonceError means that nothing of the call was or will be executed, a
\* transaction of an earlier attempt included (client.py:324-337).
InvalidNonceNeverLands ==
    \A c \in Calls : pc[c] = "invalid_nonce" => LandedBy(c) = {}

\* Calls of one client that waited for execution and succeeded stand for as many
\* executed transactions: none took another's outcome for its own.
SuccessesAreDistinct ==
    \A c \in Calls : Succeeded(c) /\ Waits(c) =>
        /\ CurrentTx(c) \in landed
        /\ \A d \in Calls \ {c} :
             Succeeded(d) /\ Waits(d) /\ req[c].client = req[d].client
                 => CurrentTx(c) # CurrentTx(d)

\* The node rejects an attempt only because another transaction of the counter
\* was executed meanwhile, a different one each time, except that a monotonic call
\* may lose one attempt to a final view that trails what happened before it: no
\* call loses its three attempts to a nonce it fails to correct.  A Silent node
\* may leave a monotonic call with that view (client.py:300-303, 324-331).
RejectionsAreCharged ==
    \A c \in Calls :
        (Silent => req[c].strict) =>
            attempt[c] <= Cardinality({t \in landed : t.counter = Counter(req[c])}
                                        \ {Tx(req[c], n) : n \in signed[c]})
                          + (IF req[c].strict THEN 0 ELSE 1)

\* While every call on a counter is strict, waits, and belongs to one client, the
\* calls take turns: none is ever rejected unless an earlier one ended in an
\* error with its transaction still on the way (client.py:286-291).
StrictTakesTurns ==
    \A c \in Calls :
        (\A d \in Calls : Counter(req[d]) = Counter(req[c]) =>
            req[d].strict /\ Waits(d) /\ SameEntry(c, d) /\ pc[d] # "error")
        => attempt[c] = 0 /\ pc[c] # "rejected"

\* Two strict calls of one client on one key are never both past the lock.
StrictExclusion ==
    \A c, d \in Calls :
        c # d /\ SameEntry(c, d) => ~(InGuard(c) /\ InGuard(d))

\* README.md:126: "Concurrent transactions from one account just work - the
\* client manages nonces and retries collisions automatically."
CollisionsNeverSurface == \A c \in Calls : pc[c] # "invalid_nonce"

\* README.md:269: "Concurrent strict sends on one key (or lane) take turns inside
\* the client, so all of them land".
StrictSendsAllLand ==
    (\A c \in Calls : pc[c] = "returned" /\ req[c].strict) /\ pool = {}
        => Cardinality(landed) = Cardinality(Calls)

\* A reply that arrives late, or after a newer one, never moves a cache entry
\* back (NonceCache.sync_to).
CacheNeverGoesBack ==
    [][\A x \in Clients, k \in Counters : Base(cache'[x][k]) >= Base(cache[x][k])]_vars

\* Every call ends: no thread waits for a strict lock that nobody will release,
\* and no sequence of rejections and lost posts keeps a call going.
EveryCallEnds == \A c \in Calls : <>(pc[c] \in Ended)

WaitingCalls == {c \in Calls : Waits(c)}
Outcome == [c \in Calls |-> IF pc[c] \in Ended THEN pc[c] ELSE "pending"]
ExecutedCalls == {c \in Calls : LandedBy(c) # {}}

\* The promise to the callers, in the terms of SendOnce.
Promise == INSTANCE SendOnce WITH
    waiting <- WaitingCalls, result <- Outcome, executed <- ExecutedCalls

\* Every behaviour of the calls keeps that promise.
KeepsPromise == Promise!Spec
===============================================================================
