------------------------- MODULE SendTransactionProofs -------------------------
(* Theorems about SendTransaction, for any number of calls, clients, keys,     *)
(* lanes and payloads, any retry budget and any number of faults.  First what  *)
(* the nonce cache and the lock promise; then, of a node that recognises a     *)
(* repost of a transaction it has executed, that every call is executed at     *)
(* most once and that send_transaction implements SendOnce; then what the      *)
(* ledger holds: the rejections of a call are charged to different             *)
(* transactions of others, successes of one client stand for different         *)
(* transactions, and strict calls of one client do not reject each other.      *)
EXTENDS SendTransaction, FiniteSetTheorems, TLAPS

-------------------------------------------------------------------------------
(* The operators of the nonce cache.                                           *)

\* reserve hands out a nonce above the entry and above what was fetched.
LEMMA ReserveIsFresh ==
    ASSUME NEW stored \in Nat \cup {None}, NEW onChain \in Nat \cup {None}
    PROVE  /\ NextNonce(stored, onChain) \in Nat
           /\ NextNonce(stored, onChain) > Base(stored)
           /\ onChain # None => NextNonce(stored, onChain) > onChain
BY NoneAssumption DEF NextNonce, Base, Larger

\* sync_to leaves the entry at or above what it was and what was reported.
LEMMA SyncIsUpperBound ==
    ASSUME NEW stored \in Nat \cup {None}, NEW akNonce \in Nat
    PROVE  /\ SyncTo(stored, akNonce) \in Nat
           /\ SyncTo(stored, akNonce) >= Base(stored)
           /\ SyncTo(stored, akNonce) >= akNonce
BY NoneAssumption DEF SyncTo, Base, Larger

\* The base of an entry is a number, and of a number it is the number.
LEMMA BaseIsNat ==
    ASSUME NEW stored \in Nat \cup {None}
    PROVE  Base(stored) \in Nat /\ (stored \in Nat => Base(stored) = stored)
BY NoneAssumption DEF Base

-------------------------------------------------------------------------------
(* Requests, counters, entries and locks.                                      *)

\* A call's request names a client and a counter of the model.
LEMMA RequestOf ==
    ASSUME TypeOK, NEW c \in Calls
    PROVE  /\ req[c] \in RequestType
           /\ req[c].client \in Clients
           /\ req[c].strict \in BOOLEAN
           /\ Key(req[c]) \in Counters
           /\ Counter(req[c]) \in Counters
           /\ Counter(req[c]) = Key(req[c])
<1>1. req[c] \in RequestType
  BY SendAssumption DEF TypeOK
<1>2. QED
  BY <1>1 DEF RequestType, Key, Counter, Counters

\* The transaction of a call with a nonce is a transaction.
LEMMA TxOf ==
    ASSUME TypeOK, NEW c \in Calls, NEW n \in Nat
    PROVE  /\ Tx(req[c], n) \in TxType
           /\ Tx(req[c], n).counter = Counter(req[c])
           /\ Tx(req[c], n).nonce = n
           /\ Tx(req[c], n).strict = req[c].strict
<1>1. req[c] \in RequestType /\ Counter(req[c]) \in Counters
  BY RequestOf
<1>2. QED
  BY <1>1 DEF RequestType, Tx, TxType

\* SetEntry changes one entry and nothing else.
LEMMA EntrySet ==
    ASSUME TypeOK, NEW c \in Calls, NEW n \in Nat, SetEntry(c, n)
    PROVE  /\ cache' \in [Clients -> [Counters -> Nat \cup {None}]]
           /\ \A x \in Clients, k \in Counters :
                cache'[x][k] = IF x = req[c].client /\ k = Key(req[c])
                               THEN n ELSE cache[x][k]
<1>1. req[c].client \in Clients /\ Key(req[c]) \in Counters
  BY RequestOf
<1>2. QED
  BY <1>1 DEF TypeOK, SetEntry

\* Releasing a call's lock keeps the type of the locks.
LEMMA UnlockType ==
    ASSUME TypeOK, NEW c \in Calls, Unlock(c)
    PROVE  lock' \in [Clients -> [Counters -> Calls \cup {None}]]
<1>1. req[c].client \in Clients /\ Key(req[c]) \in Counters
  BY RequestOf
<1>2. QED
  BY <1>1 DEF TypeOK, Unlock

\* A call's cache entry is None or a nonce.
LEMMA EntryType ==
    ASSUME TypeOK, NEW c \in Calls
    PROVE  Entry(c) \in Nat \cup {None}
BY RequestOf DEF TypeOK, Entry

\* The node's counter of a call is a nonce.
LEMMA CounterType ==
    ASSUME TypeOK, NEW c \in Calls
    PROVE  ak[Counter(req[c])] \in Nat
BY RequestOf DEF TypeOK

\* What a fetch returns is a nonce, in the "optimistic" view the current one.
LEMMA FetchedNonce ==
    ASSUME TypeOK, NEW c \in Calls, NEW view, NEW n \in Fetched(req[c], view)
    PROVE  n \in Nat /\ (view = "optimistic" => n = ak[Counter(req[c])])
BY CounterType, SendAssumption DEF Fetched

-------------------------------------------------------------------------------
(* Type correctness.                                                           *)

\* What the call itself does keeps the types.
LEMMA ClientStepType ==
    ASSUME TypeOK, NEW c \in Calls, ClientStep(c)
    PROVE  TypeOK'
<1> USE DEF TypeOK, Goto, PCs, Ended
<1>k. req[c].client \in Clients /\ Key(req[c]) \in Counters
  BY RequestOf
<1>a. \A view : \A n \in Fetched(req[c], view) : n \in Nat
  BY FetchedNonce
<1>e. Entry(c) \in Nat \cup {None}
  BY EntryType
<1>1. CASE AcquireLock(c)
  BY <1>1, <1>k DEF AcquireLock, nodeVars
<1>2. CASE CheckCache(c)
  BY <1>2 DEF CheckCache, clientVars, nodeVars
<1>3. CASE FetchOptimistic(c)
  BY <1>3, <1>a DEF FetchOptimistic, clientVars, nodeVars
<1>4. CASE FetchFinal(c)
  BY <1>4, <1>a DEF FetchFinal, clientVars, nodeVars
<1>5. CASE Reserve(c)
  <2>1. NextNonce(Entry(c), told[c]) \in Nat
    BY <1>e, ReserveIsFresh
  <2>2. cache' \in [Clients -> [Counters -> Nat \cup {None}]]
    BY <1>5, <2>1, EntrySet DEF Reserve
  <2>3. QED
    BY <1>5, <2>1, <2>2 DEF Reserve, nodeVars
<1>6. CASE FetchBlock(c)
  BY <1>6, SendAssumption DEF FetchBlock, clientVars, nodeVars
<1>7. CASE Return(c)
  <2>1. SyncTo(Entry(c), nonce[c]) \in Nat
    BY <1>e, SyncIsUpperBound
  <2>2. cache' \in [Clients -> [Counters -> Nat \cup {None}]]
    BY <1>7, <2>1, EntrySet DEF Return
  <2>3. lock' \in [Clients -> [Counters -> Calls \cup {None}]]
    BY <1>7, UnlockType DEF Return
  <2>4. QED
    BY <1>7, <2>2, <2>3 DEF Return, nodeVars
<1>r. Resync(c) => cache' \in [Clients -> [Counters -> Nat \cup {None}]]
  <2>1. told[c] # None => SyncTo(Entry(c), told[c]) \in Nat
    BY <1>e, SyncIsUpperBound
  <2>2. QED
    BY <2>1, EntrySet DEF Resync
<1>8. CASE Retry(c)
  <2>1. cache' \in [Clients -> [Counters -> Nat \cup {None}]]
    BY <1>8, <1>r DEF Retry
  <2>2. attempt' \in [Calls -> 0 .. Attempts]
    BY <1>8 DEF Retry, Attempts
  <2>3. CASE req[c].strict /\ told[c] # None
    <3>1. told[c] + 1 \in Nat
      BY <2>3
    <3>2. pc' = [pc EXCEPT ![c] = "block"] /\ nonce' = [nonce EXCEPT ![c] = told[c] + 1]
      BY <1>8, <2>3 DEF Retry, Resume
    <3>3. QED
      BY <1>8, <2>1, <2>2, <3>1, <3>2 DEF Retry, nodeVars
  <2>4. CASE ~(req[c].strict /\ told[c] # None)
    <3>1. pc' = [pc EXCEPT ![c] = "fetch"] /\ nonce' = nonce
      BY <1>8, <2>4 DEF Retry, Resume
    <3>2. QED
      BY <1>8, <2>1, <2>2, <3>1 DEF Retry, nodeVars
  <2>5. QED
    BY <2>3, <2>4
<1>9. CASE GiveUp(c)
  <2>1. cache' \in [Clients -> [Counters -> Nat \cup {None}]]
    BY <1>9, <1>r DEF GiveUp
  <2>2. lock' \in [Clients -> [Counters -> Calls \cup {None}]]
    BY <1>9, UnlockType DEF GiveUp
  <2>3. attempt' \in [Calls -> 0 .. Attempts]
    BY <1>9 DEF GiveUp, Attempts
  <2>4. QED
    BY <1>9, <2>1, <2>2, <2>3 DEF GiveUp, nodeVars
<1>10. CASE Fail(c)
  <2>1. lock' \in [Clients -> [Counters -> Calls \cup {None}]]
    BY <1>10, UnlockType DEF Fail
  <2>2. faults' \in 0 .. MaxFaults
    BY <1>10, SendAssumption DEF Fail
  <2>3. QED
    BY <1>10, <2>1, <2>2 DEF Fail, nodeVars
<1>11. CASE LosePost(c)
  <2>1. lock' \in [Clients -> [Counters -> Calls \cup {None}]]
    BY <1>11, UnlockType DEF LosePost, Exhausted
  <2>2. faults' \in 0 .. MaxFaults
    BY <1>11, SendAssumption DEF LosePost
  <2>3. tries' \in [Calls -> 0 .. Retries]
    <3>1. MayRepost(c) => tries[c] + 1 \in 0 .. Retries
      BY SendAssumption DEF MayRepost
    <3>2. QED
      BY <1>11, <3>1 DEF LosePost
  <2>7. pc' \in [Calls -> PCs]
    BY <1>11 DEF LosePost, Exhausted
  <2>4. CurrentTx(c) \in TxType
    BY TxOf DEF CurrentTx
  <2>5. pool' \subseteq TxType
    BY <1>11, <2>4 DEF LosePost
  <2>6. QED
    BY <1>11, <2>1, <2>2, <2>3, <2>5, <2>7 DEF LosePost
<1>12. QED
  BY <1>1, <1>2, <1>3, <1>4, <1>5, <1>6, <1>7, <1>8, <1>9, <1>10, <1>11 DEF ClientStep

\* What the node does with a call's post keeps the types.
LEMMA NodeStepType ==
    ASSUME TypeOK, NEW c \in Calls, NodeStep(c)
    PROVE  TypeOK'
<1> USE DEF TypeOK, Goto, PCs, Ended
<1>t. CurrentTx(c) \in TxType /\ CurrentTx(c).counter \in Counters
                           /\ CurrentTx(c).nonce \in Nat
  BY TxOf, RequestOf DEF CurrentTx
<1>1. CASE NodeQueues(c)
  BY <1>1, <1>t DEF NodeQueues, clientVars
<1>2. CASE NodeRecognises(c)
  BY <1>2 DEF NodeRecognises, clientVars, nodeVars
<1>3. CASE NodeExecutes(c)
  BY <1>3, <1>t DEF NodeExecutes, Execute, clientVars
<1>4. CASE NodeRejects(c)
  BY <1>4, CounterType DEF NodeRejects, clientVars, nodeVars
<1>5. QED
  BY <1>1, <1>2, <1>3, <1>4 DEF NodeStep

\* The later execution, or the dropping, of a pooled transaction does too.
LEMMA IncludeType ==
    ASSUME TypeOK, NEW t \in pool, Include(t)
    PROVE  TypeOK'
<1>1. t \in TxType
  BY DEF TypeOK
<1>2. t.counter \in Counters /\ t.nonce \in Nat
  BY <1>1 DEF TxType
<1>3. QED
  BY <1>1, <1>2 DEF TypeOK, Include, Execute, callVars, clientVars

\* Every reachable state of the calls and the node is well typed.
THEOREM TypeCorrect == Spec => []TypeOK
<1>1. Init => TypeOK
  BY SendAssumption DEF Init, TypeOK, PCs, Attempts, Counters
<1>2. ASSUME TypeOK, [Next]_vars
      PROVE  TypeOK'
  <2>1. ASSUME NEW c \in Calls, Step(c)
        PROVE  TypeOK'
    BY <1>2, <2>1, ClientStepType, NodeStepType DEF Step
  <2>2. ASSUME NEW t \in pool, Include(t)
        PROVE  TypeOK'
    BY <1>2, <2>2, IncludeType
  <2>3. CASE UNCHANGED vars
    BY <1>2, <2>3 DEF TypeOK, vars, callVars, clientVars, nodeVars
  <2>4. QED
    BY <1>2, <2>1, <2>2, <2>3 DEF Next, Done
<1>3. QED
  BY <1>1, <1>2, PTL DEF Spec

-------------------------------------------------------------------------------
(* The cache never goes back, and what a monotonic call claims is below it.    *)

CacheGrows == \A x \in Clients, k \in Counters : Base(cache'[x][k]) >= Base(cache[x][k])

\* An entry set to at least its base has not gone back.
LEMMA SettingGrows ==
    ASSUME TypeOK, NEW c \in Calls, NEW n \in Nat, SetEntry(c, n), n >= Base(Entry(c))
    PROVE  CacheGrows
<1>1. SUFFICES ASSUME NEW x \in Clients, NEW k \in Counters
               PROVE  Base(cache'[x][k]) >= Base(cache[x][k])
  BY DEF CacheGrows
<1>2. cache[x][k] \in Nat \cup {None} /\ Base(cache[x][k]) \in Nat
  BY BaseIsNat DEF TypeOK
<1>3. CASE x = req[c].client /\ k = Key(req[c])
  <2>1. cache'[x][k] = n
    BY <1>3, EntrySet
  <2>2. Base(cache'[x][k]) = n
    BY <2>1, BaseIsNat
  <2>3. QED
    BY <1>3, <2>2 DEF Entry
<1>4. CASE ~(x = req[c].client /\ k = Key(req[c]))
  <2>1. cache'[x][k] = cache[x][k]
    BY <1>4, EntrySet
  <2>2. QED
    BY <1>2, <2>1
<1>5. QED
  BY <1>3, <1>4

\* A cache left alone has not gone back.
LEMMA KeepingGrows ==
    ASSUME TypeOK, UNCHANGED cache
    PROVE  CacheGrows
<1>1. \A x \in Clients, k \in Counters : Base(cache[x][k]) \in Nat
  BY BaseIsNat DEF TypeOK
<1>2. QED
  BY <1>1 DEF CacheGrows

\* No step moves a cache entry back.
LEMMA StepGrows ==
    ASSUME TypeOK, [Next]_vars
    PROVE  CacheGrows
<1>1. ASSUME NEW c \in Calls, Reserve(c)
      PROVE  CacheGrows
  <2>1. Entry(c) \in Nat \cup {None} /\ told[c] \in Nat \cup {None}
    BY EntryType DEF TypeOK
  <2> DEFINE n == NextNonce(Entry(c), told[c])
  <2>2. n \in Nat /\ n > Base(Entry(c)) /\ Base(Entry(c)) \in Nat
    BY <2>1, ReserveIsFresh, BaseIsNat
  <2>3. SetEntry(c, n)
    BY <1>1 DEF Reserve
  <2> HIDE DEF n
  <2>4. n >= Base(Entry(c))
    BY <2>2
  <2>5. QED
    BY <2>2, <2>3, <2>4, SettingGrows
<1>2. ASSUME NEW c \in Calls, NEW m \in Nat, SetEntry(c, SyncTo(Entry(c), m))
      PROVE  CacheGrows
  <2>1. Entry(c) \in Nat \cup {None}
    BY EntryType
  <2>2. SyncTo(Entry(c), m) \in Nat /\ SyncTo(Entry(c), m) >= Base(Entry(c))
    BY <2>1, SyncIsUpperBound
  <2>3. QED
    BY <1>2, <2>2, SettingGrows
<1>3. ASSUME NEW c \in Calls, Resync(c)
      PROVE  CacheGrows
  BY <1>2, <1>3, KeepingGrows DEF Resync, TypeOK
<1>4. ASSUME NEW c \in Calls, Return(c)
      PROVE  CacheGrows
  BY <1>2, <1>4 DEF Return, TypeOK
<1>5. ASSUME NEW c \in Calls, ClientStep(c)
      PROVE  CacheGrows
  <2>1. Reserve(c) \/ Return(c) \/ Resync(c) \/ UNCHANGED cache
    BY <1>5 DEF ClientStep, AcquireLock, CheckCache, FetchOptimistic, FetchFinal,
                FetchBlock, Retry, GiveUp, Fail, LosePost, clientVars
  <2>2. QED
    BY <1>1, <1>3, <1>4, <2>1, KeepingGrows
<1>6. ASSUME NEW c \in Calls, NodeStep(c)
      PROVE  CacheGrows
  <2>1. UNCHANGED cache
    BY <1>6 DEF NodeStep, NodeQueues, NodeRecognises, NodeExecutes, NodeRejects, clientVars
  <2>2. QED
    BY <2>1, KeepingGrows
<1>7. ASSUME NEW t \in pool, Include(t)
      PROVE  CacheGrows
  BY <1>7, KeepingGrows DEF Include, clientVars
<1>8. CASE UNCHANGED vars
  BY <1>8, KeepingGrows DEF vars, clientVars
<1>9. QED
  BY <1>5, <1>6, <1>7, <1>8 DEF Next, Step, Done

\* Replies may be applied in any order: no entry ever moves back.
THEOREM CacheMonotone == Spec => CacheNeverGoesBack
<1>1. TypeOK /\ [Next]_vars => [CacheGrows]_vars
  BY StepGrows
<1>2. QED
  BY <1>1, TypeCorrect, PTL DEF Spec, CacheNeverGoesBack, CacheGrows

-------------------------------------------------------------------------------
(* Monotonic calls of one client never share a nonce.  What makes this         *)
(* inductive is that a nonce is claimed when it is reserved, before it is      *)
(* signed, and that everything claimed stays at or below the cache entry.      *)

Claimed(c) == signed[c] \cup (IF pc[c] = "block" THEN {nonce[c]} ELSE {})

ClaimsBelowEntry ==
    \A c \in Calls : ~req[c].strict => \A n \in Claimed(c) : n <= Base(Entry(c))

ClaimsDisjoint ==
    \A c, d \in Calls :
        c # d /\ SameEntry(c, d) /\ ~req[c].strict /\ ~req[d].strict
            => Claimed(c) \cap Claimed(d) = {}

ClaimInv == ClaimsBelowEntry /\ ClaimsDisjoint

\* Claims are nonces.
LEMMA ClaimType ==
    ASSUME TypeOK, NEW c \in Calls
    PROVE  Claimed(c) \subseteq Nat
BY DEF TypeOK, Claimed

\* No step but a reservation adds to what a monotonic call claims.
LEMMA OnlyReserveClaims ==
    ASSUME TypeOK, [Next]_vars, \A c \in Calls : ~Reserve(c)
    PROVE  \A d \in Calls : ~req[d].strict => Claimed(d)' \subseteq Claimed(d)
<1> USE DEF Claimed
<1> SUFFICES ASSUME NEW d \in Calls, ~req[d].strict
             PROVE  Claimed(d)' \subseteq Claimed(d)
  OBVIOUS
<1> USE DEF TypeOK, Goto
<1>1. ASSUME NEW c \in Calls, ClientStep(c)
      PROVE  Claimed(d)' \subseteq Claimed(d)
  <2>1. CASE FetchBlock(c)
    BY <2>1 DEF FetchBlock
  <2>2. CASE FetchOptimistic(c)
    <3>1. c # d
      BY <2>2 DEF FetchOptimistic
    <3>2. QED
      BY <2>2, <3>1 DEF FetchOptimistic
  <2>3. CASE Retry(c)
    <3>1. CASE c = d
      BY <2>3, <3>1 DEF Retry, Resume
    <3>2. CASE c # d
      BY <2>3, <3>2 DEF Retry, Resume
    <3>3. QED
      BY <3>1, <3>2
  <2>4. CASE LosePost(c)
    BY <2>4 DEF LosePost, Exhausted
  <2>5. CASE AcquireLock(c) \/ CheckCache(c) \/ FetchFinal(c)
    BY <2>5 DEF AcquireLock, CheckCache, FetchFinal
  <2>6. CASE Return(c) \/ GiveUp(c) \/ Fail(c)
    BY <2>6 DEF Return, GiveUp, Fail
  <2>7. QED
    BY <1>1, <2>1, <2>2, <2>3, <2>4, <2>5, <2>6 DEF ClientStep
<1>2. ASSUME NEW c \in Calls, NodeStep(c)
      PROVE  Claimed(d)' \subseteq Claimed(d)
  BY <1>2 DEF NodeStep, NodeQueues, NodeRecognises, NodeExecutes, NodeRejects
<1>3. ASSUME NEW t \in pool, Include(t)
      PROVE  Claimed(d)' \subseteq Claimed(d)
  BY <1>3 DEF Include, callVars
<1>4. CASE UNCHANGED vars
  BY <1>4 DEF vars, callVars
<1>5. QED
  BY <1>1, <1>2, <1>3, <1>4 DEF Next, Step, Done

\* A call keeps its request.
LEMMA RequestsFixed ==
    ASSUME [Next]_vars
    PROVE  req' = req
<1>1. ASSUME NEW c \in Calls, ClientStep(c)
      PROVE  req' = req
  BY <1>1 DEF ClientStep, AcquireLock, CheckCache, FetchOptimistic, FetchFinal, Reserve,
              FetchBlock, Return, Retry, GiveUp, Fail, LosePost
<1>2. ASSUME NEW c \in Calls, NodeStep(c)
      PROVE  req' = req
  BY <1>2 DEF NodeStep, NodeQueues, NodeRecognises, NodeExecutes, NodeRejects
<1>3. QED
  BY <1>1, <1>2 DEF Next, Step, Include, Done, vars

\* What a call claims when it reserves n.
Claims(c, n) ==
    /\ n > Base(Entry(c))
    /\ Base(Entry(c))' = n
    /\ Claimed(c)' = Claimed(c) \cup {n}
    /\ \A d \in Calls \ {c} : Claimed(d)' = Claimed(d)

\* A reservation, also of a call that had nothing to fetch, claims one nonce.
LEMMA ReservingClaims ==
    ASSUME TypeOK, NEW c \in Calls, NEW onChain \in Nat \cup {None},
           pc[c] # "block", pc' = [pc EXCEPT ![c] = "block"], UNCHANGED <<req, signed>>,
           SetEntry(c, NextNonce(Entry(c), onChain)),
           nonce' = [nonce EXCEPT ![c] = NextNonce(Entry(c), onChain)]
    PROVE  \E n \in Nat : Claims(c, n)
<1>1. Entry(c) \in Nat \cup {None}
  BY EntryType
<1> DEFINE n == NextNonce(Entry(c), onChain)
<1>2. n \in Nat /\ n > Base(Entry(c))
  BY <1>1, ReserveIsFresh
<1>3. SetEntry(c, n) /\ nonce' = [nonce EXCEPT ![c] = n]
  OBVIOUS
<1> HIDE DEF n
<1>4. req[c].client \in Clients /\ Key(req[c]) \in Counters
  BY RequestOf
<1>5. cache'[req[c].client][Key(req[c])] = n
  BY <1>2, <1>3, <1>4, EntrySet
<1>6. Base(Entry(c))' = n
  BY <1>2, <1>5, NoneAssumption DEF Entry, Base, Key
<1>7. Claimed(c)' = Claimed(c) \cup {n}
  BY <1>3 DEF TypeOK, Claimed
<1>8. \A d \in Calls \ {c} : Claimed(d)' = Claimed(d)
  BY <1>3 DEF TypeOK, Claimed
<1>9. QED
  BY <1>2, <1>6, <1>7, <1>8 DEF Claims

\* Entries that do not go back, and what makes two of them comparable.
EntriesGrow ==
    /\ req' = req
    /\ \A c \in Calls : /\ Claimed(c) \subseteq Nat
                        /\ Base(Entry(c)) \in Nat /\ Base(Entry(c))' \in Nat
                        /\ Base(Entry(c))' >= Base(Entry(c))

LEMMA GrowingEntries ==
    ASSUME TypeOK, TypeOK', req' = req, CacheGrows
    PROVE  EntriesGrow
<1>1. \A c \in Calls : Entry(c) \in Nat \cup {None} /\ Entry(c)' \in Nat \cup {None}
  BY RequestOf DEF TypeOK, Entry, Key
<1>2. \A c \in Calls : Base(Entry(c)) \in Nat /\ Base(Entry(c))' \in Nat
  BY <1>1, BaseIsNat DEF Base
<1>3. \A c \in Calls : Base(Entry(c))' >= Base(Entry(c))
  BY RequestOf DEF CacheGrows, Entry, Base, Key
<1>4. QED
  BY <1>2, <1>3, ClaimType DEF EntriesGrow

\* A step after which nobody claims more keeps the claims in order.
LEMMA NoClaimKeeps ==
    ASSUME ClaimInv, EntriesGrow,
           \A c \in Calls : ~req[c].strict => Claimed(c)' \subseteq Claimed(c)
    PROVE  ClaimInv'
<1>1. ClaimsBelowEntry'
  <2> SUFFICES ASSUME NEW c \in Calls, ~req[c].strict, NEW n \in Claimed(c)'
               PROVE  n <= Base(Entry(c))'
    BY DEF EntriesGrow, ClaimsBelowEntry
  <2>1. n \in Claimed(c) /\ n <= Base(Entry(c))
    BY DEF ClaimInv, ClaimsBelowEntry
  <2>2. n \in Nat /\ Base(Entry(c)) \in Nat /\ Base(Entry(c))' \in Nat
        /\ Base(Entry(c))' >= Base(Entry(c))
    BY <2>1 DEF EntriesGrow
  <2>3. QED
    BY <2>1, <2>2
<1>2. ClaimsDisjoint'
  BY DEF EntriesGrow, ClaimInv, ClaimsDisjoint, SameEntry, Key
<1>3. QED
  BY <1>1, <1>2 DEF ClaimInv

\* A step that claims a nonce above the entry keeps the claims in order.
LEMMA FreshClaimKeeps ==
    ASSUME ClaimInv, EntriesGrow, NEW c \in Calls, NEW n \in Nat, Claims(c, n)
    PROVE  ClaimInv'
<1> USE DEF ClaimInv, Claims
<1>1. ClaimsBelowEntry'
  <2> SUFFICES ASSUME NEW d \in Calls, ~req[d].strict, NEW m \in Claimed(d)'
               PROVE  m <= Base(Entry(d))'
    BY DEF EntriesGrow, ClaimsBelowEntry
  <2>1. CASE d = c /\ m = n
    BY <2>1
  <2>2. CASE m \in Claimed(d)
    <3>1. m <= Base(Entry(d))
      BY <2>2 DEF ClaimsBelowEntry
    <3>2. m \in Nat /\ Base(Entry(d)) \in Nat /\ Base(Entry(d))' \in Nat
          /\ Base(Entry(d))' >= Base(Entry(d))
      BY <2>2 DEF EntriesGrow
    <3>3. QED
      BY <3>1, <3>2
  <2>3. QED
    BY <2>1, <2>2
<1>2. \A d \in Calls : SameEntry(c, d) /\ ~req[d].strict => n \notin Claimed(d)
  <2> SUFFICES ASSUME NEW d \in Calls, SameEntry(c, d), ~req[d].strict, n \in Claimed(d)
               PROVE  FALSE
    OBVIOUS
  <2>1. n <= Base(Entry(d)) /\ Entry(d) = Entry(c)
    BY DEF ClaimsBelowEntry, SameEntry, Entry
  <2>2. n \in Nat /\ Base(Entry(c)) \in Nat
    BY DEF EntriesGrow
  <2>3. QED
    BY <2>1, <2>2
<1>3. ClaimsDisjoint'
  BY <1>2 DEF EntriesGrow, ClaimsDisjoint, SameEntry, Key
<1>4. QED
  BY <1>1, <1>3

\* The claims stay below the cache entry and apart from each other.
LEMMA ClaimStep ==
    ASSUME TypeOK, TypeOK', ClaimInv, [Next]_vars
    PROVE  ClaimInv'
<1>1. EntriesGrow
  BY RequestsFixed, StepGrows, GrowingEntries
<1>2. CASE \A c \in Calls : ~Reserve(c)
  BY <1>1, <1>2, OnlyReserveClaims, NoClaimKeeps
<1>3. ASSUME NEW c \in Calls, Reserve(c)
      PROVE  ClaimInv'
  <2>1. PICK n \in Nat : Claims(c, n)
    <3>1. told[c] \in Nat \cup {None}
      BY DEF TypeOK
    <3>2. QED
      BY <1>3, <3>1, ReservingClaims DEF Reserve, Goto
  <2>2. QED
    BY <1>1, <2>1, FreshClaimKeeps
<1>4. QED
  BY <1>2, <1>3

\* The claims are in order in every reachable state.
LEMMA ClaimsAlways == Spec => []ClaimInv
<1>1. Init => ClaimInv
  BY DEF Init, ClaimInv, ClaimsBelowEntry, ClaimsDisjoint, Claimed
<1>2. TypeOK /\ TypeOK' /\ ClaimInv /\ [Next]_vars => ClaimInv'
  BY ClaimStep
<1>3. QED
  BY <1>1, <1>2, TypeCorrect, PTL DEF Spec

\* No two monotonic calls of one client ever sign the same nonce of a key.
THEOREM NoncesNeverReused == Spec => []NoNonceReuse
<1>1. ClaimInv => NoNonceReuse
  BY DEF ClaimInv, ClaimsDisjoint, NoNonceReuse, Claimed
<1>2. QED
  BY <1>1, ClaimsAlways, PTL

-------------------------------------------------------------------------------
(* Strict calls of one client on one key take turns: inside the `with guard`   *)
(* block a call is the recorded holder of its key's lock.                      *)

LockOf(c) == lock[req[c].client][Key(req[c])]

HolderInv == \A c \in Calls : InGuard(c) => LockOf(c) = c

\* A call that leaves its `with guard` block frees no lock but its own.
LEMMA LeavingKeepsHolders ==
    ASSUME TypeOK, HolderInv, req' = req,
           NEW c \in Calls, InGuard(c) \/ ~req[c].strict, Unlock(c),
           pc' = [pc EXCEPT ![c] = pc'[c]], pc'[c] \in Ended,
           NEW d \in Calls, InGuard(d)'
    PROVE  LockOf(d)' = d
<1> USE DEF TypeOK, InGuard
<1>1. c # d
  OBVIOUS
<1>2. LockOf(d) = d
  BY <1>1 DEF HolderInv
<1>3. CASE ~req[c].strict
  BY <1>2, <1>3 DEF Unlock, LockOf, Key
<1>4. CASE req[c].strict
  <2>1. LockOf(c) = c
    BY <1>4 DEF HolderInv
  <2>2. ~(req[c].client = req[d].client /\ Key(req[c]) = Key(req[d]))
    BY <1>1, <1>2, <2>1 DEF LockOf
  <2>3. /\ req[c].client \in Clients /\ Key(req[c]) \in Counters
        /\ req[d].client \in Clients /\ Key(req[d]) \in Counters
    BY RequestOf
  <2>4. lock'[req[d].client][Key(req[d])] = lock[req[d].client][Key(req[d])]
    BY <1>4, <2>2, <2>3 DEF Unlock
  <2>5. QED
    BY <1>2, <2>4 DEF LockOf, Key
<1>5. QED
  BY <1>3, <1>4

\* The steps that take or release a lock, or move a call without doing so.
LEMMA GuardStep ==
    ASSUME TypeOK, HolderInv, [Next]_vars, NEW d \in Calls, InGuard(d)'
    PROVE  LockOf(d)' = d
<1> USE DEF TypeOK, InGuard, Goto, Ended
<1>0. /\ req' = req
      /\ req[d].client \in Clients /\ Key(req[d]) \in Counters
  BY RequestsFixed, RequestOf
<1>1. ASSUME UNCHANGED lock, InGuard(d)
      PROVE  LockOf(d)' = d
  BY <1>0, <1>1 DEF HolderInv, LockOf, Key
<1>2. ASSUME NEW c \in Calls, Unlock(c), pc' = [pc EXCEPT ![c] = pc'[c]], pc'[c] \in Ended,
             pc[c] \notin {"start"} \cup Ended
      PROVE  LockOf(d)' = d
  BY <1>0, <1>2, LeavingKeepsHolders
<1>3. ASSUME NEW c \in Calls, AcquireLock(c)
      PROVE  LockOf(d)' = d
  <2>1. req[c].client \in Clients /\ Key(req[c]) \in Counters
    BY RequestOf
  <2>2. CASE c = d
    BY <1>0, <1>3, <2>1, <2>2 DEF AcquireLock, LockOf, Key
  <2>3. CASE c # d
    <3>1. LockOf(d) = d
      BY <1>0, <1>3, <2>3 DEF AcquireLock, HolderInv
    <3>2. LockOf(c) = None /\ d # None
      BY <1>3, SendAssumption DEF AcquireLock, LockOf
    <3>3. ~(req[c].client = req[d].client /\ Key(req[c]) = Key(req[d]))
      BY <3>1, <3>2 DEF LockOf
    <3>4. lock'[req[d].client][Key(req[d])] = lock[req[d].client][Key(req[d])]
      BY <1>0, <1>3, <2>1, <3>3 DEF AcquireLock
    <3>5. QED
      BY <1>0, <3>1, <3>4 DEF LockOf, Key
  <2>4. QED
    BY <2>2, <2>3
<1>4. ASSUME NEW c \in Calls, Return(c) \/ GiveUp(c) \/ Fail(c)
      PROVE  LockOf(d)' = d
  <2>1. Unlock(c) /\ pc' = [pc EXCEPT ![c] = pc'[c]] /\ pc'[c] \in Ended
        /\ pc[c] \notin {"start"} \cup Ended
    BY <1>4 DEF Return, GiveUp, Fail
  <2>2. QED
    BY <1>2, <2>1
<1>5. ASSUME NEW c \in Calls, LosePost(c)
      PROVE  LockOf(d)' = d
  <2>1. CASE MayRepost(c)
    BY <1>0, <1>1, <1>5, <2>1 DEF LosePost
  <2>2. CASE ~MayRepost(c)
    <3>1. Unlock(c) /\ pc' = [pc EXCEPT ![c] = pc'[c]] /\ pc'[c] \in Ended
          /\ pc[c] \notin {"start"} \cup Ended
      BY <1>5, <2>2 DEF LosePost, Exhausted
    <3>2. QED
      BY <1>2, <3>1
  <2>3. QED
    BY <2>1, <2>2
<1>6. ASSUME NEW c \in Calls,
             CheckCache(c) \/ FetchOptimistic(c) \/ FetchFinal(c) \/ Reserve(c)
                \/ FetchBlock(c) \/ Retry(c)
      PROVE  LockOf(d)' = d
  <2>1. UNCHANGED lock
    BY <1>6 DEF CheckCache, FetchOptimistic, FetchFinal, Reserve, FetchBlock, Retry, clientVars
  <2>2. (pc[c] = "start" => ~req[c].strict) /\ pc[c] \notin Ended
        /\ pc' = [pc EXCEPT ![c] = pc'[c]]
    BY <1>6 DEF CheckCache, FetchOptimistic, FetchFinal, Reserve, FetchBlock, Retry, Resume
  <2>3. InGuard(d)
    BY <1>0, <2>2
  <2>4. QED
    BY <1>1, <2>1, <2>3
<1>7. ASSUME NEW c \in Calls, NodeStep(c)
      PROVE  LockOf(d)' = d
  <2>1. UNCHANGED lock
    BY <1>7 DEF NodeStep, NodeQueues, NodeRecognises, NodeExecutes, NodeRejects, clientVars
  <2>2. InGuard(d)
    BY <1>0, <1>7 DEF NodeStep, NodeQueues, NodeRecognises, NodeExecutes, NodeRejects
  <2>3. QED
    BY <1>1, <2>1, <2>2
<1>8. ASSUME NEW t \in pool, Include(t)
      PROVE  LockOf(d)' = d
  BY <1>0, <1>1, <1>8 DEF Include, callVars, clientVars
<1>9. CASE UNCHANGED vars
  BY <1>0, <1>1, <1>9 DEF vars, callVars, clientVars
<1>10. QED
  BY <1>3, <1>4, <1>5, <1>6, <1>7, <1>8, <1>9 DEF Next, Step, ClientStep, Done

\* The lock is recorded in every reachable state.
LEMMA HoldersAlways == Spec => []HolderInv
<1>1. Init => HolderInv
  BY DEF Init, HolderInv, InGuard
<1>2. TypeOK /\ HolderInv /\ [Next]_vars => HolderInv'
  BY GuardStep DEF HolderInv
<1>3. QED
  BY <1>1, <1>2, TypeCorrect, PTL DEF Spec

\* Two strict calls of one client are never both past one key's lock.
THEOREM StrictCallsExclude == Spec => []StrictExclusion
<1>1. HolderInv => StrictExclusion
  BY DEF HolderInv, StrictExclusion, SameEntry, LockOf
<1>2. QED
  BY <1>1, HoldersAlways, PTL

-------------------------------------------------------------------------------
(* At most once.                                                               *)

\* The signed nonces that can no longer be executed.
Dead(c, n) == n <= ak[Counter(req[c])] /\ Tx(req[c], n) \notin landed

\* The one signed nonce that may have been, or may still be, executed.
Live(c, n) == n = nonce[c] /\ pc[c] \in {"send", "accepted", "returned", "panicked", "error"}

OthersDead(c) == \A n \in signed[c] : Live(c, n) \/ Dead(c, n)

\* A strict call never uses the cache, and what it bases its nonce on never runs
\* ahead of the node.
StrictBase(c) ==
    /\ pc[c] = "reserve" => ~req[c].strict
    /\ req[c].strict /\ pc[c] \in {"block", "send"}
         => nonce[c] <= ak[Counter(req[c])] + 1
    /\ pc[c] = "rejected" /\ told[c] # None => told[c] <= ak[Counter(req[c])]

\* An accepted post was signed and, if the call waits, executed.
AcceptedLanded(c) ==
    /\ pc[c] \in {"send", "accepted"} => nonce[c] \in signed[c]
    /\ pc[c] = "accepted" /\ Waits(c) => CurrentTx(c) \in landed

OnceOf(c) == OthersDead(c) /\ StrictBase(c) /\ AcceptedLanded(c)

OnceInv == \A c \in Calls : OnceOf(c)

-------------------------------------------------------------------------------
(* The node only ever moves a counter up, to the nonce of what it executes.    *)

Executes(t) ==
    /\ t \in TxType /\ Acceptable(t)
    /\ landed' = landed \cup {t}
    /\ ak' = [ak EXCEPT ![t.counter] = t.nonce]

ChainStep == UNCHANGED <<ak, landed>> \/ \E t \in TxType : Executes(t)

LEMMA NextIsChainStep ==
    ASSUME TypeOK, [Next]_vars
    PROVE  ChainStep
<1>1. ASSUME NEW c \in Calls, ClientStep(c)
      PROVE  ChainStep
  BY <1>1 DEF ChainStep, ClientStep, AcquireLock, CheckCache, FetchOptimistic, FetchFinal,
       Reserve, FetchBlock, Return, Retry, GiveUp, Fail, LosePost, nodeVars
<1>2. ASSUME NEW c \in Calls, NodeStep(c)
      PROVE  ChainStep
  <2>1. CurrentTx(c) \in TxType
    BY TxOf DEF TypeOK, CurrentTx
  <2>2. QED
    BY <1>2, <2>1 DEF ChainStep, Executes, NodeStep, NodeQueues, NodeRecognises,
         NodeExecutes, NodeRejects, Execute, nodeVars
<1>3. ASSUME NEW t \in pool, Include(t)
      PROVE  ChainStep
  BY <1>3 DEF TypeOK, ChainStep, Executes, Include, Execute
<1>4. QED
  BY <1>1, <1>2, <1>3 DEF Next, Step, Done, ChainStep, vars, nodeVars

\* Counters only grow, what is executed stays executed, what is dead stays dead.
LEMMA ChainStepKeeps ==
    ASSUME TypeOK, ChainStep, req' = req, NEW c \in Calls
    PROVE  /\ ak[Counter(req[c])] \in Nat /\ ak'[Counter(req[c])] \in Nat
           /\ ak'[Counter(req[c])] >= ak[Counter(req[c])]
           /\ landed \subseteq landed'
           /\ \A n \in Nat : Dead(c, n) => Dead(c, n)'
<1>1. ak[Counter(req[c])] \in Nat /\ Counter(req[c]) \in Counters
  BY CounterType, RequestOf
<1>2. CASE UNCHANGED <<ak, landed>>
  BY <1>1, <1>2 DEF Dead, Tx, Counter
<1>3. ASSUME NEW t \in TxType, Executes(t)
      PROVE  /\ ak'[Counter(req[c])] \in Nat
             /\ ak'[Counter(req[c])] >= ak[Counter(req[c])]
             /\ landed \subseteq landed'
             /\ \A n \in Nat : Dead(c, n) => Dead(c, n)'
  <2>1. t.nonce \in Nat /\ t.counter \in Counters /\ t.nonce > ak[t.counter]
        /\ ak[t.counter] \in Nat
    BY <1>3 DEF Executes, TxType, Acceptable, TypeOK
  <2>2. ak'[Counter(req[c])] = IF Counter(req[c]) = t.counter THEN t.nonce
                                                            ELSE ak[Counter(req[c])]
    BY <1>1, <1>3 DEF Executes, TypeOK
  <2>3. ASSUME NEW n \in Nat, Dead(c, n)
        PROVE  Dead(c, n)'
    <3>1. Tx(req[c], n).counter = Counter(req[c]) /\ Tx(req[c], n).nonce = n
      BY TxOf
    <3>2. Tx(req[c], n) # t
      BY <1>1, <2>1, <2>3, <3>1 DEF Dead
    <3>3. Tx(req[c], n) \notin landed'
      BY <1>3, <2>3, <3>2 DEF Dead, Executes
    <3>4. n <= ak'[Counter(req[c])]
      BY <1>1, <2>1, <2>2, <2>3 DEF Dead
    <3>5. QED
      BY <3>3, <3>4 DEF Dead, Tx, Counter
  <2>4. QED
    BY <1>1, <1>3, <2>1, <2>2, <2>3 DEF Executes
<1>4. QED
  BY <1>1, <1>2, <1>3 DEF ChainStep

-------------------------------------------------------------------------------
(* The invariant OnceInv, call by call.                                        *)

\* A call that does not move keeps its part, whatever the others do.
LEMMA BystanderKeeps ==
    ASSUME TypeOK, ChainStep, req' = req, NEW d \in Calls, OnceOf(d),
           pc'[d] = pc[d], nonce'[d] = nonce[d], signed'[d] = signed[d], told'[d] = told[d]
    PROVE  OnceOf(d)'
<1>1. /\ ak[Counter(req[d])] \in Nat /\ ak'[Counter(req[d])] \in Nat
      /\ ak'[Counter(req[d])] >= ak[Counter(req[d])]
      /\ landed \subseteq landed'
      /\ \A n \in Nat : Dead(d, n) => Dead(d, n)'
  BY ChainStepKeeps
<1>2. nonce[d] \in Nat /\ told[d] \in Nat \cup {None} /\ signed[d] \subseteq Nat
  BY DEF TypeOK
<1>3. OthersDead(d)'
  BY <1>1, <1>2 DEF OnceOf, OthersDead, Live
<1>4. StrictBase(d)'
  BY <1>1, <1>2 DEF OnceOf, StrictBase, Counter
<1>5. AcceptedLanded(d)'
  BY <1>1 DEF OnceOf, AcceptedLanded, Waits, CurrentTx, Tx, Counter
<1>6. QED
  BY <1>3, <1>4, <1>5 DEF OnceOf

\* The steps of the call itself leave its part true.
LEMMA ClientStepKeeps ==
    ASSUME TypeOK, NEW c \in Calls, OnceOf(c), ClientStep(c)
    PROVE  OnceOf(c)'
<1> USE DEF OnceOf, Goto
<1>0. /\ ak[Counter(req[c])] \in Nat
      /\ nonce[c] \in Nat /\ told[c] \in Nat \cup {None} /\ signed[c] \subseteq Nat
      /\ pc \in [Calls -> PCs] /\ nonce \in [Calls -> Nat]
      /\ told \in [Calls -> Nat \cup {None}] /\ signed \in [Calls -> SUBSET Nat]
  BY CounterType DEF TypeOK
<1>d. ASSUME UNCHANGED <<req, ak, landed, signed>>,
             pc[c] \notin {"send", "accepted"}
      PROVE  OthersDead(c)'
  <2>1. \A n \in signed[c] : Dead(c, n) \/ pc[c] \in Ended
    BY <1>d DEF OthersDead, Live, Ended
  <2>2. CASE pc[c] \in Ended
    BY <2>2, <1>0 DEF Ended, ClientStep, AcquireLock, CheckCache, FetchOptimistic, FetchFinal,
       Reserve, FetchBlock, Return, Retry, GiveUp, Fail, LosePost
  <2>3. CASE pc[c] \notin Ended
    <3>1. \A n \in signed[c] : Dead(c, n)'
      BY <1>d, <2>1, <2>3 DEF Dead, Tx, Counter
    <3>2. QED
      BY <1>d, <3>1 DEF OthersDead
  <2>4. QED
    BY <2>2, <2>3
<1>l. ASSUME UNCHANGED <<req, ak, landed, signed, nonce>>,
             pc[c] \in {"send", "accepted"},
             pc'[c] \in {"send", "accepted", "returned", "panicked", "error"}
      PROVE  OthersDead(c)'
  BY <1>l DEF OthersDead, Live, Dead, Tx, Counter
<1>1. CASE AcquireLock(c) \/ CheckCache(c)
  <2>1. UNCHANGED <<req, ak, landed, signed, nonce, told>> /\ pc[c] = "start"
        /\ pc'[c] \in {"fetch", "reserve"} /\ (pc'[c] = "reserve" => ~req[c].strict)
    BY <1>1, <1>0 DEF AcquireLock, CheckCache, nodeVars
  <2>2. OthersDead(c)'
    BY <1>d, <2>1
  <2>3. QED
    BY <2>1, <2>2 DEF StrictBase, AcceptedLanded
<1>2. CASE FetchOptimistic(c)
  <2>0. PICK n \in Fetched(req[c], "optimistic") : nonce' = [nonce EXCEPT ![c] = n + 1]
    BY <1>2 DEF FetchOptimistic
  <2>1. UNCHANGED <<req, ak, landed, signed>> /\ pc[c] = "fetch" /\ pc'[c] = "block"
        /\ nonce'[c] = ak[Counter(req[c])] + 1
    <3>1. nonce'[c] = n + 1 /\ n = ak[Counter(req[c])]
      BY <1>0, <2>0, FetchedNonce
    <3>2. QED
      BY <1>2, <1>0, <3>1 DEF FetchOptimistic, nodeVars
  <2>2. OthersDead(c)'
    BY <1>d, <2>1
  <2>3. QED
    BY <1>0, <2>1, <2>2 DEF StrictBase, AcceptedLanded, Counter
<1>3. CASE FetchFinal(c) \/ Reserve(c)
  <2>1. UNCHANGED <<req, ak, landed, signed>> /\ pc[c] \in {"fetch", "reserve"}
        /\ pc'[c] \in {"block", "reserve"}
    BY <1>3, <1>0 DEF FetchFinal, Reserve, nodeVars
  <2>2. OthersDead(c)'
    BY <1>d, <2>1
  <2>3. ~req[c].strict
    BY <1>3 DEF FetchFinal, Reserve, StrictBase
  <2>4. QED
    BY <2>1, <2>2, <2>3 DEF StrictBase, AcceptedLanded
<1>4. CASE FetchBlock(c)
  <2>1. /\ UNCHANGED <<req, ak, landed, nonce, told>> /\ pc[c] = "block" /\ pc'[c] = "send"
        /\ signed'[c] = signed[c] \cup {nonce[c]}
    BY <1>4, <1>0 DEF FetchBlock, nodeVars
  <2>2. OthersDead(c)'
    BY <2>1 DEF OthersDead, Live, Dead, Tx, Counter
  <2>3. QED
    BY <2>1, <2>2 DEF StrictBase, AcceptedLanded, Counter
<1>5. CASE Return(c)
  <2>1. UNCHANGED <<req, ak, landed, signed, nonce>> /\ pc[c] = "accepted"
        /\ pc'[c] \in {"returned", "panicked"}
    BY <1>5, <1>0 DEF Return, nodeVars
  <2>2. OthersDead(c)'
    BY <1>l, <2>1
  <2>3. QED
    BY <2>1, <2>2 DEF StrictBase, AcceptedLanded
<1>6. CASE Retry(c)
  <2>1. UNCHANGED <<req, ak, landed, signed>> /\ pc[c] = "rejected"
    BY <1>6 DEF Retry, nodeVars
  <2>2. OthersDead(c)'
    BY <1>d, <2>1
  <2>3. CASE req[c].strict /\ told[c] # None
    <3>1. pc'[c] = "block" /\ nonce'[c] = told[c] + 1 /\ told[c] \in Nat
      BY <1>0, <1>6, <2>3 DEF Retry, Resume
    <3>2. told[c] <= ak[Counter(req[c])]
      BY <2>1, <2>3 DEF StrictBase
    <3>3. QED
      BY <1>0, <2>1, <2>2, <3>1, <3>2 DEF StrictBase, AcceptedLanded, Counter
  <2>4. CASE ~(req[c].strict /\ told[c] # None)
    <3>1. pc'[c] = "fetch"
      BY <1>0, <1>6, <2>4 DEF Retry, Resume
    <3>2. QED
      BY <2>2, <3>1 DEF StrictBase, AcceptedLanded
  <2>5. QED
    BY <2>3, <2>4
<1>7. CASE GiveUp(c)
  <2>1. UNCHANGED <<req, ak, landed, signed>> /\ pc[c] = "rejected"
        /\ pc'[c] = "invalid_nonce"
    BY <1>0, <1>7 DEF GiveUp, nodeVars
  <2>2. OthersDead(c)'
    BY <1>d, <2>1
  <2>3. QED
    BY <2>1, <2>2 DEF StrictBase, AcceptedLanded
<1>8. CASE Fail(c)
  <2>1. UNCHANGED <<req, ak, landed, signed, nonce>> /\ pc[c] \in {"fetch", "block", "send"}
        /\ pc'[c] = "error"
    BY <1>0, <1>8 DEF Fail, nodeVars
  <2>2. OthersDead(c)'
    BY <1>d, <1>l, <2>1
  <2>3. QED
    BY <2>1, <2>2 DEF StrictBase, AcceptedLanded
<1>9. CASE LosePost(c)
  <2>1. UNCHANGED <<req, ak, landed, signed, nonce, told>> /\ pc[c] = "send"
        /\ pc'[c] \in {"send", "error"}
    BY <1>0, <1>9 DEF LosePost, Exhausted
  <2>2. OthersDead(c)'
    BY <1>l, <2>1
  <2>3. QED
    BY <2>1, <2>2 DEF StrictBase, AcceptedLanded, Counter
<1>10. QED
  BY <1>1, <1>2, <1>3, <1>4, <1>5, <1>6, <1>7, <1>8, <1>9 DEF ClientStep

\* So do the node's answers to its posts, if the node recognises a repost.
LEMMA NodeStepKeeps ==
    ASSUME TypeOK, RecognisesResend, NEW c \in Calls, OnceOf(c), NodeStep(c)
    PROVE  OnceOf(c)'
<1> USE DEF OnceOf, Goto
<1>0. /\ ak[Counter(req[c])] \in Nat /\ Counter(req[c]) \in Counters
      /\ nonce[c] \in Nat /\ signed[c] \subseteq Nat
      /\ pc \in [Calls -> PCs] /\ told \in [Calls -> Nat \cup {None}]
      /\ pc[c] = "send"
      /\ UNCHANGED <<req, nonce, signed>>
  BY CounterType, RequestOf DEF TypeOK, NodeStep, NodeQueues, NodeRecognises, NodeExecutes, NodeRejects
<1>t. /\ CurrentTx(c).counter = Counter(req[c])
      /\ CurrentTx(c).nonce = nonce[c]
      /\ CurrentTx(c).strict = req[c].strict
      /\ CurrentTx(c) = Tx(req[c], nonce[c])
  BY <1>0, TxOf DEF CurrentTx
<1>1. CASE NodeQueues(c) \/ NodeRecognises(c)
  <2>1. UNCHANGED <<ak, landed>> /\ pc'[c] = "accepted"
        /\ (Waits(c) => CurrentTx(c) \in landed)
    BY <1>0, <1>1 DEF NodeQueues, NodeRecognises, Known, nodeVars, Waits
  <2>2. QED
    BY <1>0, <2>1 DEF OthersDead, StrictBase, AcceptedLanded, Live, Dead, Waits, CurrentTx, Tx, Counter
<1>2. CASE NodeExecutes(c)
  <2>1. ChainStep
    BY <1>2, NextIsChainStep DEF Next, Step
  <2>2. \A n \in Nat : Dead(c, n) => Dead(c, n)'
    BY <1>0, <2>1, ChainStepKeeps
  <2>3. pc'[c] = "accepted" /\ CurrentTx(c) \in landed'
    BY <1>0, <1>2 DEF NodeExecutes, Execute
  <2>4. OthersDead(c)'
    BY <1>0, <2>2, <2>3 DEF OthersDead, Live
  <2>5. QED
    BY <1>0, <2>3, <2>4 DEF StrictBase, AcceptedLanded, CurrentTx, Tx, Counter
<1>3. CASE NodeRejects(c)
  <2>1. /\ UNCHANGED <<ak, landed>> /\ pc'[c] = "rejected"
        /\ told'[c] \in {ak[Counter(req[c])], None}
    BY <1>0, <1>3 DEF NodeRejects, nodeVars
  <2>2. CurrentTx(c) \notin landed /\ ~Acceptable(CurrentTx(c))
    BY <1>3 DEF NodeRejects, Known
  <2>3. nonce[c] <= ak[Counter(req[c])]
    <3>1. CASE req[c].strict
      BY <1>0, <1>t, <2>2, <3>1 DEF Acceptable, StrictBase
    <3>2. CASE ~req[c].strict
      BY <1>0, <1>t, <2>2, <3>2 DEF Acceptable
    <3>3. QED
      BY <3>1, <3>2
  <2>4. Dead(c, nonce[c])
    BY <1>t, <2>2, <2>3 DEF Dead
  <2>5. \A n \in signed[c] : Dead(c, n)
    BY <2>4 DEF OthersDead, Live
  <2>6. OthersDead(c)'
    BY <1>0, <2>1, <2>5 DEF OthersDead, Dead, Tx, Counter
  <2>7. QED
    BY <1>0, <2>1, <2>6 DEF StrictBase, AcceptedLanded, Counter
<1>4. QED
  BY <1>1, <1>2, <1>3 DEF NodeStep

\* A step of one call leaves the local state of the others alone.
LEMMA OthersStandStill ==
    ASSUME TypeOK, NEW c \in Calls, NEW d \in Calls \ {c}, Step(c)
    PROVE  /\ pc'[d] = pc[d] /\ nonce'[d] = nonce[d] /\ signed'[d] = signed[d]
           /\ told'[d] = told[d] /\ attempt'[d] = attempt[d]
<1> USE DEF TypeOK, Goto
<1>1. CASE NodeStep(c)
  BY <1>1 DEF NodeStep, NodeQueues, NodeRecognises, NodeExecutes, NodeRejects
<1>2. CASE AcquireLock(c) \/ CheckCache(c) \/ FetchOptimistic(c) \/ FetchFinal(c) \/ FetchBlock(c)
  BY <1>2 DEF AcquireLock, CheckCache, FetchOptimistic, FetchFinal, FetchBlock
<1>3. CASE Reserve(c) \/ Return(c) \/ GiveUp(c) \/ Fail(c)
  BY <1>3 DEF Reserve, Return, GiveUp, Fail
<1>4. CASE Retry(c)
  BY <1>4 DEF Retry, Resume
<1>5. CASE LosePost(c)
  BY <1>5 DEF LosePost, Exhausted
<1>6. QED
  BY <1>1, <1>2, <1>3, <1>4, <1>5 DEF Step, ClientStep

LEMMA OnceStep ==
    ASSUME TypeOK, RecognisesResend, OnceInv, [Next]_vars
    PROVE  OnceInv'
<1>0. req' = req /\ ChainStep
  BY RequestsFixed, NextIsChainStep
<1> SUFFICES ASSUME NEW d \in Calls
             PROVE  OnceOf(d)'
  BY DEF OnceInv
<1>1. OnceOf(d)
  BY DEF OnceInv
<1>2. ASSUME NEW c \in Calls, Step(c)
      PROVE  OnceOf(d)'
  <2>1. CASE c = d
    BY <1>1, <1>2, <2>1, ClientStepKeeps, NodeStepKeeps DEF Step
  <2>2. CASE c # d
    BY <1>0, <1>1, <1>2, <2>2, OthersStandStill, BystanderKeeps
  <2>3. QED
    BY <2>1, <2>2
<1>3. ASSUME NEW t \in pool, Include(t)
      PROVE  OnceOf(d)'
  BY <1>0, <1>1, <1>3, BystanderKeeps DEF Include, callVars
<1>4. CASE UNCHANGED vars
  BY <1>0, <1>1, <1>4, BystanderKeeps DEF vars, callVars
<1>5. QED
  BY <1>2, <1>3, <1>4 DEF Next, Done

\* OnceInv holds in every reachable state.
LEMMA OnceAlways ==
    ASSUME RecognisesResend
    PROVE  Spec => []OnceInv
<1>1. Init => OnceInv
  BY DEF Init, OnceInv, OnceOf, OthersDead, StrictBase, AcceptedLanded
<1>2. TypeOK /\ OnceInv /\ [Next]_vars => OnceInv'
  BY OnceStep
<1>3. QED
  BY <1>1, <1>2, TypeCorrect, PTL DEF Spec

\* At most one of the transactions a call signs is ever executed.
THEOREM ExecutedAtMostOnce ==
    ASSUME RecognisesResend
    PROVE  Spec => []AtMostOnce
<1>1. OnceInv => AtMostOnce
  BY DEF OnceInv, OnceOf, OthersDead, Live, Dead, AtMostOnce, LandedBy
<1>2. QED
  BY <1>1, OnceAlways, PTL

\* A call that raises InvalidNonceError has had nothing executed, and never will.
THEOREM InvalidNonceIsFinal ==
    ASSUME RecognisesResend
    PROVE  Spec => []InvalidNonceNeverLands
<1>1. OnceInv => InvalidNonceNeverLands
  BY DEF OnceInv, OnceOf, OthersDead, Live, Dead, InvalidNonceNeverLands, LandedBy
<1>2. QED
  BY <1>1, OnceAlways, PTL

-------------------------------------------------------------------------------
(* send_transaction implements SendOnce.                                       *)

\* The node's own step executes a transaction for every call that signed it, or
\* for none; a call that ended with InvalidNonceError is never among them.
LEMMA ExecutionRefines ==
    ASSUME TypeOK, OnceInv, ChainStep, UNCHANGED <<req, signed>>, Outcome' = Outcome
    PROVE  [Promise!Next]_(Promise!vars)
<1>1. WaitingCalls' = WaitingCalls
  BY DEF WaitingCalls, Waits
<1>2. \A c \in Calls : /\ landed \subseteq landed'
                       /\ \A n \in Nat : Dead(c, n) => Dead(c, n)'
  BY ChainStepKeeps
<1>3. ExecutedCalls \subseteq ExecutedCalls'
  BY <1>2 DEF ExecutedCalls, LandedBy, Tx, Counter
<1> DEFINE S == ExecutedCalls' \ ExecutedCalls
<1>4. S \subseteq Calls
  BY DEF ExecutedCalls
<1>5. \A c \in S : Outcome[c] # "invalid_nonce"
  <2> SUFFICES ASSUME NEW c \in S, Outcome[c] = "invalid_nonce"
               PROVE  FALSE
    OBVIOUS
  <2>1. c \in Calls /\ pc[c] = "invalid_nonce"
    BY <1>4 DEF Outcome
  <2>2. \A n \in signed[c] : n \in Nat /\ Dead(c, n)
    BY <2>1 DEF OnceInv, OnceOf, OthersDead, Live, TypeOK
  <2>3. \A n \in signed[c] : Tx(req[c], n) \notin landed'
    BY <1>2, <2>1, <2>2 DEF Dead, Tx, Counter
  <2>4. PICK n \in signed[c] : Tx(req[c], n) \in landed'
    BY DEF ExecutedCalls, LandedBy, Tx, Counter
  <2>5. QED
    BY <2>3, <2>4
<1>6. CASE S = {}
  BY <1>1, <1>3, <1>6 DEF Promise!vars
<1>7. CASE S # {}
  <2>1. Promise!ExecuteFor(S)
    BY <1>1, <1>3, <1>5, <1>7 DEF Promise!ExecuteFor
  <2>2. QED
    BY <1>4, <2>1 DEF Promise!Next
<1>8. QED
  BY <1>6, <1>7

\* Signing bytes that are executed already counts as the call's execution.
LEMMA SigningRefines ==
    ASSUME TypeOK, NEW c \in Calls, FetchBlock(c)
    PROVE  [Promise!Next]_(Promise!vars)
<1>1. /\ UNCHANGED <<req, landed>> /\ pc[c] = "block"
      /\ pc' = [pc EXCEPT ![c] = "send"]
      /\ signed' = [signed EXCEPT ![c] = @ \cup {nonce[c]}]
  BY DEF FetchBlock, Goto, nodeVars
<1>2. WaitingCalls' = WaitingCalls
  BY <1>1 DEF WaitingCalls, Waits
<1>3. Outcome' = Outcome /\ Outcome[c] = "pending"
  BY <1>1 DEF Outcome, Ended, TypeOK
<1>4. ExecutedCalls' = IF Tx(req[c], nonce[c]) \in landed
                       THEN ExecutedCalls \cup {c} ELSE ExecutedCalls
  <2>1. \A d \in Calls \ {c} : LandedBy(d)' = LandedBy(d)
    BY <1>1 DEF LandedBy, TypeOK, Tx, Counter
  <2>2. LandedBy(c)' = IF Tx(req[c], nonce[c]) \in landed
                       THEN LandedBy(c) \cup {nonce[c]} ELSE LandedBy(c)
    BY <1>1 DEF LandedBy, TypeOK, Tx, Counter
  <2>3. QED
    BY <2>1, <2>2 DEF ExecutedCalls
<1>5. CASE ExecutedCalls' = ExecutedCalls
  BY <1>2, <1>3, <1>5 DEF Promise!vars
<1>6. CASE ExecutedCalls' # ExecutedCalls
  <2>1. ExecutedCalls' = ExecutedCalls \cup {c} /\ c \notin ExecutedCalls
    BY <1>4, <1>6
  <2>2. Promise!ExecuteFor({c})
    BY <1>2, <1>3, <2>1 DEF Promise!ExecuteFor
  <2>3. QED
    BY <2>2 DEF Promise!Next
<1>7. QED
  BY <1>5, <1>6

\* The end of a call is an End step with the result the call ended with.
LEMMA EndingRefines ==
    ASSUME TypeOK, NEW c \in Calls, NEW r \in Ended,
           pc[c] \notin Ended, pc' = [pc EXCEPT ![c] = r],
           UNCHANGED <<req, signed, landed>>,
           r = "panicked" => Waits(c),
           r \in {"returned", "panicked"} /\ Waits(c) => LandedBy(c) # {},
           r = "invalid_nonce" => LandedBy(c) = {}
    PROVE  [Promise!Next]_(Promise!vars)
<1>1. WaitingCalls' = WaitingCalls /\ (c \in WaitingCalls <=> Waits(c))
  BY DEF WaitingCalls, Waits
<1>2. ExecutedCalls' = ExecutedCalls /\ (c \in ExecutedCalls <=> LandedBy(c) # {})
  BY DEF ExecutedCalls, LandedBy, Tx, Counter
<1>3. Outcome' = [Outcome EXCEPT ![c] = r] /\ Outcome[c] = "pending"
  BY DEF Outcome, TypeOK
<1>4. Promise!End(c, r)
  BY <1>1, <1>2, <1>3 DEF Promise!End
<1>5. QED
  BY <1>4 DEF Promise!Next, Promise!Results, Ended

\* Every step of the calls and the node is a step of SendOnce, or none.
LEMMA StepRefines ==
    ASSUME TypeOK, OnceInv, [Next]_vars
    PROVE  [Promise!Next]_(Promise!vars)
<1> USE DEF Goto
<1>0. ChainStep /\ req' = req /\ pc \in [Calls -> PCs]
  BY NextIsChainStep, RequestsFixed DEF TypeOK
<1>s. ASSUME UNCHANGED signed, UNCHANGED pc
      PROVE  [Promise!Next]_(Promise!vars)
  BY <1>0, <1>s, ExecutionRefines DEF Outcome
<1>m. ASSUME NEW c \in Calls, UNCHANGED signed, pc' = [pc EXCEPT ![c] = pc'[c]],
             pc[c] \notin Ended, pc'[c] \notin Ended
      PROVE  [Promise!Next]_(Promise!vars)
  <2>1. Outcome' = Outcome
    BY <1>0, <1>m DEF Outcome
  <2>2. QED
    BY <1>0, <1>m, <2>1, ExecutionRefines
<1>1. ASSUME NEW c \in Calls,
             AcquireLock(c) \/ CheckCache(c) \/ FetchOptimistic(c) \/ FetchFinal(c) \/ Reserve(c)
      PROVE  [Promise!Next]_(Promise!vars)
  <2>1. UNCHANGED signed /\ pc' = [pc EXCEPT ![c] = pc'[c]] /\ pc[c] \notin Ended
        /\ pc'[c] \notin Ended
    BY <1>0, <1>1 DEF AcquireLock, CheckCache, FetchOptimistic, FetchFinal, Reserve, Ended
  <2>2. QED
    BY <1>m, <2>1
<1>2. ASSUME NEW c \in Calls, FetchBlock(c)
      PROVE  [Promise!Next]_(Promise!vars)
  BY <1>2, SigningRefines
<1>3. ASSUME NEW c \in Calls, Return(c)
      PROVE  [Promise!Next]_(Promise!vars)
  <2>1. AcceptedLanded(c) /\ pc[c] = "accepted" /\ UNCHANGED <<signed, landed>>
    BY <1>3 DEF OnceInv, OnceOf, Return, nodeVars
  <2>2. Waits(c) => LandedBy(c) # {}
    BY <2>1 DEF AcceptedLanded, LandedBy, CurrentTx
  <2> DEFINE r == pc'[c]
  <2>3. r \in {"returned", "panicked"} /\ pc' = [pc EXCEPT ![c] = r]
        /\ (r = "panicked" => Waits(c))
    BY <1>0, <1>3 DEF Return, Waits
  <2> HIDE DEF r
  <2>4. QED
    BY <1>0, <2>1, <2>2, <2>3, EndingRefines DEF Ended
<1>4. ASSUME NEW c \in Calls, GiveUp(c)
      PROVE  [Promise!Next]_(Promise!vars)
  <2>1. pc[c] = "rejected" /\ UNCHANGED <<signed, landed>>
        /\ pc' = [pc EXCEPT ![c] = "invalid_nonce"]
    BY <1>4 DEF GiveUp, nodeVars
  <2>2. LandedBy(c) = {}
    BY <2>1 DEF OnceInv, OnceOf, OthersDead, Live, Dead, LandedBy
  <2>3. QED
    BY <1>0, <2>1, <2>2, EndingRefines DEF Ended
<1>5. ASSUME NEW c \in Calls, pc[c] \notin Ended, pc' = [pc EXCEPT ![c] = "error"],
             UNCHANGED <<signed, landed>>
      PROVE  [Promise!Next]_(Promise!vars)
  BY <1>0, <1>5, EndingRefines DEF Ended
<1>6. ASSUME NEW c \in Calls, Fail(c)
      PROVE  [Promise!Next]_(Promise!vars)
  BY <1>5, <1>6 DEF Fail, nodeVars, Ended
<1>7. ASSUME NEW c \in Calls, LosePost(c)
      PROVE  [Promise!Next]_(Promise!vars)
  <2>1. CASE MayRepost(c)
    BY <1>7, <1>s, <2>1 DEF LosePost
  <2>2. CASE ~MayRepost(c)
    BY <1>5, <1>7, <2>2 DEF LosePost, Exhausted, Ended
  <2>3. QED
    BY <2>1, <2>2
<1>8. ASSUME NEW c \in Calls, Retry(c)
      PROVE  [Promise!Next]_(Promise!vars)
  <2>1. UNCHANGED signed /\ pc' = [pc EXCEPT ![c] = pc'[c]] /\ pc[c] \notin Ended
        /\ pc'[c] \notin Ended
    BY <1>0, <1>8 DEF Retry, Resume, Ended
  <2>2. QED
    BY <1>m, <2>1
<1>9. ASSUME NEW c \in Calls, NodeStep(c)
      PROVE  [Promise!Next]_(Promise!vars)
  <2>1. UNCHANGED signed /\ pc' = [pc EXCEPT ![c] = pc'[c]] /\ pc[c] \notin Ended
        /\ pc'[c] \notin Ended
    BY <1>0, <1>9 DEF NodeStep, NodeQueues, NodeRecognises, NodeExecutes, NodeRejects, Ended
  <2>2. QED
    BY <1>m, <2>1
<1>10. ASSUME NEW t \in pool, Include(t)
       PROVE  [Promise!Next]_(Promise!vars)
  BY <1>10, <1>s DEF Include, callVars
<1>11. CASE UNCHANGED vars
  BY <1>11, <1>s DEF vars, callVars
<1>12. QED
  BY <1>1, <1>2, <1>3, <1>4, <1>6, <1>7, <1>8, <1>9, <1>10, <1>11 DEF Next, Step, ClientStep, Done

\* send_transaction keeps the promise SendOnce makes to its callers.
THEOREM ImplementsSendOnce ==
    ASSUME RecognisesResend
    PROVE  Spec => KeepsPromise
<1>1. Init => Promise!Init
  BY DEF Init, Promise!Init, WaitingCalls, Outcome, ExecutedCalls, LandedBy, Ended
<1>2. TypeOK /\ OnceInv /\ [Next]_vars => [Promise!Next]_(Promise!vars)
  BY StepRefines
<1>3. QED
  BY <1>1, <1>2, TypeCorrect, OnceAlways, PTL DEF Spec, KeepsPromise, Promise!Spec

-------------------------------------------------------------------------------
(* The ledger: what the node's counters say of the executed transactions.      *)

\* A counter starts at InitNonce and shows the highest nonce executed since.
LedgerInv ==
    /\ IsFiniteSet(landed)
    /\ \A t \in landed : t.nonce <= ak[t.counter]
    /\ \A k \in Counters :
         /\ ak[k] >= InitNonce[k]
         /\ ak[k] > InitNonce[k] => \E t \in landed : t.counter = k /\ t.nonce = ak[k]

LEMMA LedgerInit == Init => LedgerInv
BY FS_EmptySet, SendAssumption DEF Init, LedgerInv

LEMMA LedgerStep ==
    ASSUME TypeOK, LedgerInv, ChainStep
    PROVE  LedgerInv'
<1>1. CASE UNCHANGED <<ak, landed>>
  BY <1>1 DEF LedgerInv
<1>2. ASSUME NEW t \in TxType, Executes(t)
      PROVE  LedgerInv'
  <2>1. /\ t.counter \in Counters /\ t.nonce \in Nat
        /\ ak[t.counter] \in Nat /\ t.nonce > ak[t.counter]
    BY <1>2 DEF Executes, Acceptable, TxType, TypeOK
  <2>2. /\ \A k \in Counters : ak'[k] = IF k = t.counter THEN t.nonce ELSE ak[k]
        /\ \A k \in Counters : ak[k] \in Nat /\ InitNonce[k] \in Nat
    BY <1>2, SendAssumption DEF Executes, TypeOK
  <2>3. landed' = landed \cup {t}
    BY <1>2 DEF Executes
  <2>4. IsFiniteSet(landed')
    BY <2>3, FS_AddElement DEF LedgerInv
  <2>5. \A s \in landed' : s.nonce <= ak'[s.counter]
    <3> SUFFICES ASSUME NEW s \in landed'
                 PROVE  s.nonce <= ak'[s.counter]
      OBVIOUS
    <3>1. CASE s = t
      BY <2>1, <2>2, <3>1
    <3>2. CASE s \in landed
      <4>1. s.counter \in Counters /\ s.nonce \in Nat /\ s.nonce <= ak[s.counter]
        BY <3>2 DEF TypeOK, TxType, LedgerInv
      <4>2. QED
        BY <2>1, <2>2, <4>1
    <3>3. QED
      BY <2>3, <3>1, <3>2
  <2>6. ASSUME NEW k \in Counters
        PROVE  /\ ak'[k] >= InitNonce[k]
               /\ ak'[k] > InitNonce[k] => \E s \in landed' : s.counter = k /\ s.nonce = ak'[k]
    <3>1. CASE k = t.counter
      BY <2>1, <2>2, <2>3, <3>1 DEF LedgerInv
    <3>2. CASE k # t.counter
      BY <2>2, <2>3, <3>2 DEF LedgerInv
    <3>3. QED
      BY <3>1, <3>2
  <2>7. QED
    BY <2>4, <2>5, <2>6 DEF LedgerInv
<1>3. QED
  BY <1>1, <1>2 DEF ChainStep

\* The ledger is kept in every reachable state.
LEMMA LedgerAlways == Spec => []LedgerInv
<1>1. TypeOK /\ LedgerInv /\ [Next]_vars => LedgerInv'
  BY LedgerStep, NextIsChainStep
<1>2. QED
  BY <1>1, LedgerInit, TypeCorrect, PTL DEF Spec

-------------------------------------------------------------------------------
(* Every rejection is charged to a transaction of somebody else.  What makes   *)
(* this inductive is a horizon: the transactions charged so far are at or      *)
(* below it, and the nonce a call uses next is above it, so that what is in    *)
(* the way of that nonce has not been charged yet.                             *)

\* The transactions of L on counter k up to nonce h, without the call's own.
Others(L, k, own, h) == {t \in L : t.counter = k /\ t.nonce <= h} \ own

\* A larger ledger, or a later horizon, does not take a charge back; signing
\* above the horizon does not either.
LEMMA ChargesStay ==
    ASSUME NEW L \in SUBSET TxType, NEW M, L \subseteq M, IsFiniteSet(M),
           NEW k, NEW own, NEW mine, NEW g, NEW h,
           \A t \in L : t.counter = k /\ t.nonce <= g => t.nonce <= h,
           \A t \in mine \ own : ~(t.nonce <= g)
    PROVE  /\ Cardinality(Others(L, k, own, g)) \in Nat
           /\ Cardinality(Others(M, k, mine, h)) \in Nat
           /\ Cardinality(Others(L, k, own, g)) <= Cardinality(Others(M, k, mine, h))
<1>1. Others(L, k, own, g) \subseteq Others(M, k, mine, h)
  BY DEF Others
<1>2. Others(M, k, mine, h) \in SUBSET M
  BY DEF Others
<1>3. IsFiniteSet(Others(M, k, mine, h))
  BY <1>2, FS_Subset
<1>4. IsFiniteSet(Others(L, k, own, g))
      /\ Cardinality(Others(L, k, own, g)) <= Cardinality(Others(M, k, mine, h))
  BY <1>1, <1>3, FS_Subset
<1>5. QED
  BY <1>3, <1>4, FS_CardinalityType

\* A transaction above the old horizon and not above the new one is a new charge.
LEMMA OneMoreCharge ==
    ASSUME NEW L \in SUBSET TxType, IsFiniteSet(L), NEW k, NEW own,
           NEW g \in Int, NEW h \in Int, g <= h,
           NEW t \in L, t.counter = k, t.nonce <= h, t.nonce > g, t \notin own
    PROVE  /\ Cardinality(Others(L, k, own, g)) \in Nat
           /\ Cardinality(Others(L, k, own, h)) \in Nat
           /\ Cardinality(Others(L, k, own, g)) + 1 <= Cardinality(Others(L, k, own, h))
<1> DEFINE G == Others(L, k, own, g)
           H == Others(L, k, own, h)
<1>1. \A s \in L : s.nonce \in Nat
  BY DEF TxType
<1>2. G \cup {t} \subseteq H /\ t \notin G
  BY <1>1 DEF Others
<1>3. H \in SUBSET L /\ G \in SUBSET L
  BY DEF Others
<1> HIDE DEF G, H
<1>4. IsFiniteSet(H) /\ IsFiniteSet(G)
  BY <1>3, FS_Subset
<1>5. Cardinality(G \cup {t}) = Cardinality(G) + 1
  BY <1>2, <1>4, FS_AddElement
<1>6. Cardinality(G \cup {t}) <= Cardinality(H)
  BY <1>2, <1>4, FS_Subset
<1>7. Cardinality(G) \in Nat /\ Cardinality(H) \in Nat
  BY <1>4, FS_CardinalityType
<1>8. QED
  BY <1>5, <1>6, <1>7 DEF G, H

OwnTxs(c) == {Tx(req[c], n) : n \in signed[c]}

\* How many attempts of a call may be lost to something else than a transaction.
Free(c) == IF req[c].strict THEN 0 ELSE 1

\* The attempts the node has rejected, one that is not counted yet included.
Spent(c) == IF pc[c] = "rejected" THEN attempt[c] + 1 ELSE attempt[c]

\* What a call in a place has seen of its counter.
Horizon(c) ==
    CASE pc[c] \in {"block", "send"}                      -> nonce[c] - 1
      [] pc[c] = "rejected" /\ told[c] # None             -> told[c]
      [] pc[c] \in {"fetch", "reserve"} /\ ~req[c].strict -> Base(Entry(c))
      [] OTHER                                            -> ak[Counter(req[c])]

Charge(c) == Cardinality(Others(landed, Counter(req[c]), OwnTxs(c), Horizon(c)))

Charged(c) ==
    /\ Spent(c) <= Charge(c) + Free(c)
    /\ Spent(c) >= Free(c) => Horizon(c) >= InitNonce[Counter(req[c])]

\* A call that starts has lost nothing, and a monotonic one is told what it missed.
Informed(c) ==
    /\ pc[c] = "start" => attempt[c] = 0
    /\ pc[c] = "rejected" /\ ~req[c].strict => told[c] # None

ChargeInv == \A c \in Calls : (Silent => req[c].strict) => Charged(c) /\ Informed(c)

LEMMA ChargeTypes ==
    ASSUME TypeOK, LedgerInv, NEW c \in Calls
    PROVE  /\ Horizon(c) \in Int /\ Spent(c) \in Nat /\ Free(c) \in {0, 1}
           /\ Charge(c) \in Nat
           /\ ak[Counter(req[c])] \in Nat /\ InitNonce[Counter(req[c])] \in Nat
           /\ ak[Counter(req[c])] >= InitNonce[Counter(req[c])]
<1>1. Counter(req[c]) \in Counters /\ ak[Counter(req[c])] \in Nat
      /\ InitNonce[Counter(req[c])] \in Nat
  BY RequestOf, CounterType, SendAssumption
<1>2. Base(Entry(c)) \in Nat
  BY EntryType, BaseIsNat
<1>3. nonce[c] \in Nat /\ told[c] \in Nat \cup {None} /\ attempt[c] \in Nat
  BY DEF TypeOK, Attempts
<1>4. Horizon(c) \in Int /\ Spent(c) \in Nat /\ Free(c) \in {0, 1}
  BY <1>1, <1>2, <1>3 DEF Horizon, Spent, Free
<1>5. Charge(c) \in Nat
  <2>1. Others(landed, Counter(req[c]), OwnTxs(c), Horizon(c)) \in SUBSET landed
    BY DEF Others
  <2>2. QED
    BY <2>1, FS_Subset, FS_CardinalityType DEF LedgerInv, Charge
<1>6. QED
  BY <1>1, <1>4, <1>5 DEF LedgerInv

\* A step that does not bring the horizon back keeps the charges: nothing has been
\* executed above the counter, and what is signed is above the horizon.
LEMMA ChargeKept ==
    ASSUME TypeOK, LedgerInv, LedgerInv', ChainStep, req' = req, NEW c \in Calls, Charged(c),
           Horizon(c)' \in Int, Spent(c)' \in Nat, Spent(c)' <= Spent(c),
           Horizon(c)' >= Horizon(c) \/ Horizon(c)' >= ak[Counter(req[c])],
           \A n \in signed'[c] \ signed[c] : n \in Nat /\ n > Horizon(c)
    PROVE  Charged(c)'
<1> DEFINE k == Counter(req[c])
           mine == {Tx(req[c], n) : n \in signed'[c]}
           h == Horizon(c)'
<1>1. /\ Horizon(c) \in Int /\ Spent(c) \in Nat /\ Free(c) \in {0, 1} /\ Charge(c) \in Nat
      /\ ak[k] \in Nat /\ InitNonce[k] \in Nat /\ ak[k] >= InitNonce[k]
  BY ChargeTypes
<1>2. landed \subseteq landed'
  BY ChainStepKeeps
<1>3. Free(c)' = Free(c) /\ Counter(req[c])' = k /\ OwnTxs(c)' = mine
  BY DEF Free, Counter, OwnTxs, Tx
<1>4. \A t \in landed : t.counter = k /\ t.nonce <= Horizon(c) => t.nonce <= h
  <2> SUFFICES ASSUME NEW t \in landed, t.counter = k, t.nonce <= Horizon(c)
               PROVE  t.nonce <= h
    OBVIOUS
  <2>1. t.nonce \in Nat /\ t.nonce <= ak[k]
    BY DEF LedgerInv, TypeOK, TxType
  <2>2. h \in Int /\ (h >= Horizon(c) \/ h >= ak[k])
    OBVIOUS
  <2> HIDE DEF h, k
  <2>3. QED
    BY <1>1, <2>1, <2>2
<1>5. \A t \in mine \ OwnTxs(c) : ~(t.nonce <= Horizon(c))
  <2> SUFFICES ASSUME NEW t \in mine \ OwnTxs(c)
               PROVE  ~(t.nonce <= Horizon(c))
    OBVIOUS
  <2>1. PICK n \in signed'[c] : t = Tx(req[c], n)
    OBVIOUS
  <2>2. n \notin signed[c]
    BY <2>1 DEF OwnTxs
  <2>3. t.nonce = n /\ n \in Nat /\ n > Horizon(c)
    BY <2>1, <2>2 DEF Tx
  <2>4. QED
    BY <1>1, <2>3
<1>6. landed \in SUBSET TxType /\ IsFiniteSet(landed')
  BY DEF TypeOK, LedgerInv
<1>7. Charge(c)' = Cardinality(Others(landed', k, mine, h))
  BY <1>3 DEF Charge
<1>8. Charge(c) = Cardinality(Others(landed, k, OwnTxs(c), Horizon(c)))
  BY DEF Charge
<1> HIDE DEF k, mine, h
<1>9. Charge(c)' \in Nat /\ Charge(c) <= Charge(c)'
  BY <1>2, <1>4, <1>5, <1>6, <1>7, <1>8, ChargesStay
<1>10. Spent(c)' <= Charge(c)' + Free(c)'
  BY <1>1, <1>3, <1>9 DEF Charged
<1>11. Spent(c)' >= Free(c)' => Horizon(c)' >= InitNonce[Counter(req[c])]'
  <2>1. Spent(c)' >= Free(c)' => Horizon(c) >= InitNonce[k]
    BY <1>1, <1>3 DEF Charged, k
  <2>2. InitNonce[Counter(req[c])]' = InitNonce[k]
    BY <1>3
  <2>3. QED
    BY <1>1, <2>1, <2>2 DEF k
<1>12. QED
  BY <1>10, <1>11 DEF Charged

\* The horizon after a step, from where the step leaves the call.
LEMMA NextHorizon ==
    ASSUME req' = req, NEW c \in Calls
    PROVE  /\ pc'[c] \in {"block", "send"} => Horizon(c)' = nonce'[c] - 1
           /\ pc'[c] = "rejected" => Horizon(c)' = IF told'[c] # None THEN told'[c]
                                                   ELSE ak'[Counter(req[c])]
           /\ pc'[c] \in {"fetch", "reserve"} =>
                Horizon(c)' = IF req[c].strict THEN ak'[Counter(req[c])] ELSE Base(Entry(c))'
           /\ pc'[c] \in {"start", "accepted"} \cup Ended => Horizon(c)' = ak'[Counter(req[c])]
           /\ Spent(c)' = IF pc'[c] = "rejected" THEN attempt'[c] + 1 ELSE attempt'[c]
<1>1. Counter(req[c])' = Counter(req[c])
  BY DEF Counter
<1>2. QED
  BY <1>1 DEF Horizon, Spent, Ended

\* A call that does not move keeps its charges, whatever the others do.
LEMMA BystanderCharged ==
    ASSUME TypeOK, LedgerInv, LedgerInv', ChainStep, EntriesGrow,
           NEW d \in Calls, Charged(d), Informed(d),
           pc'[d] = pc[d], nonce'[d] = nonce[d], signed'[d] = signed[d],
           told'[d] = told[d], attempt'[d] = attempt[d]
    PROVE  Charged(d)' /\ Informed(d)'
<1>0. req' = req
  BY DEF EntriesGrow
<1>1. /\ ak[Counter(req[d])] \in Nat /\ ak'[Counter(req[d])] \in Nat
      /\ ak'[Counter(req[d])] >= ak[Counter(req[d])]
  BY <1>0, ChainStepKeeps
<1>2. /\ Base(Entry(d)) \in Nat /\ Base(Entry(d))' \in Nat
      /\ Base(Entry(d))' >= Base(Entry(d))
  BY DEF EntriesGrow
<1>3. /\ nonce[d] \in Nat /\ told[d] \in Nat \cup {None} /\ attempt[d] \in Nat
      /\ pc[d] \in PCs
  BY DEF TypeOK, Attempts
<1>4. Spent(d)' = Spent(d) /\ Spent(d) \in Nat
  BY <1>0, <1>3, NextHorizon DEF Spent
<1>5. Horizon(d)' \in Int /\ Horizon(d)' >= Horizon(d)
  <2>1. CASE pc[d] \in {"block", "send"}
    <3>1. Horizon(d) = nonce[d] - 1 /\ Horizon(d)' = nonce[d] - 1
      BY <1>0, <2>1, NextHorizon DEF Horizon
    <3>2. QED
      BY <1>3, <3>1
  <2>2. CASE pc[d] = "rejected" /\ told[d] # None
    <3>1. Horizon(d) = told[d] /\ Horizon(d)' = told[d]
      BY <1>0, <2>2, NextHorizon DEF Horizon
    <3>2. QED
      BY <1>3, <2>2, <3>1
  <2>3. CASE pc[d] \in {"fetch", "reserve"} /\ ~req[d].strict
    <3>1. Horizon(d) = Base(Entry(d)) /\ Horizon(d)' = Base(Entry(d))'
      BY <1>0, <2>3, NextHorizon DEF Horizon
    <3>2. QED
      BY <1>2, <3>1
  <2>4. CASE \/ pc[d] \in {"start", "accepted"} \cup Ended
             \/ pc[d] = "rejected" /\ told[d] = None
             \/ pc[d] \in {"fetch", "reserve"} /\ req[d].strict
    <3>1. Horizon(d) = ak[Counter(req[d])] /\ Horizon(d)' = ak'[Counter(req[d])]
      BY <1>0, <2>4, NextHorizon DEF Horizon, Ended
    <3>2. QED
      BY <1>1, <3>1
  <2>5. QED
    BY <1>3, <2>1, <2>2, <2>3, <2>4 DEF PCs
<1>6. Charged(d)'
  BY <1>0, <1>4, <1>5, ChargeKept
<1>7. Informed(d)'
  BY <1>0 DEF Informed
<1>8. QED
  BY <1>6, <1>7

\* What a call does itself keeps its charges: it reserves above its horizon, and
\* what it is told becomes its horizon.
LEMMA ClientStepCharged ==
    ASSUME TypeOK, LedgerInv, LedgerInv', ChainStep, EntriesGrow,
           NEW c \in Calls, StrictBase(c), Charged(c), Informed(c), ClientStep(c)
    PROVE  Charged(c)' /\ Informed(c)'
<1> USE DEF Goto
<1>0. /\ req' = req
      /\ ak[Counter(req[c])] \in Nat /\ ak'[Counter(req[c])] \in Nat
      /\ ak'[Counter(req[c])] >= ak[Counter(req[c])]
      /\ Horizon(c) \in Int /\ Spent(c) \in Nat /\ Charge(c) \in Nat
  BY ChainStepKeeps, ChargeTypes DEF EntriesGrow
<1>1. /\ nonce[c] \in Nat /\ told[c] \in Nat \cup {None} /\ attempt[c] \in Nat
      /\ signed[c] \subseteq Nat
      /\ pc \in [Calls -> PCs] /\ nonce \in [Calls -> Nat] /\ attempt \in [Calls -> 0 .. Attempts]
      /\ told \in [Calls -> Nat \cup {None}] /\ signed \in [Calls -> SUBSET Nat]
  BY DEF TypeOK, Attempts
<1>2. /\ Base(Entry(c)) \in Nat /\ Base(Entry(c))' \in Nat
      /\ Base(Entry(c))' >= Base(Entry(c))
  BY DEF EntriesGrow
<1>k. ASSUME Horizon(c)' \in Int, Spent(c)' = Spent(c), signed'[c] = signed[c],
             Horizon(c)' >= Horizon(c) \/ Horizon(c)' >= ak[Counter(req[c])],
             pc'[c] \notin {"start", "rejected"}
      PROVE  Charged(c)' /\ Informed(c)'
  <2>1. Charged(c)'
    BY <1>0, <1>k, ChargeKept
  <2>2. QED
    BY <1>k, <2>1 DEF Informed
<1>3. CASE AcquireLock(c)
  <2>1. /\ pc[c] = "start" /\ pc'[c] = "fetch" /\ req[c].strict
        /\ UNCHANGED <<attempt, signed>>
    BY <1>1, <1>3 DEF AcquireLock
  <2>2. Horizon(c)' = ak'[Counter(req[c])] /\ Spent(c)' = Spent(c)
    BY <1>0, <2>1, NextHorizon DEF Spent
  <2>3. QED
    BY <1>0, <1>k, <2>1, <2>2
<1>4. CASE CheckCache(c)
  <2>1. /\ attempt[c] = 0 /\ pc'[c] \in {"fetch", "reserve"} /\ ~req[c].strict
        /\ attempt'[c] = 0
    BY <1>1, <1>4 DEF CheckCache, Informed
  <2>2. Spent(c)' = 0 /\ Free(c)' = 1
    BY <1>0, <2>1, NextHorizon DEF Free
  <2>3. Charge(c)' \in Nat
    <3>1. Charge(c)' = Cardinality(Others(landed', Counter(req[c])', OwnTxs(c)', Horizon(c)'))
      BY DEF Charge
    <3>2. Others(landed', Counter(req[c])', OwnTxs(c)', Horizon(c)') \in SUBSET landed'
      BY DEF Others
    <3>3. QED
      BY <3>1, <3>2, FS_Subset, FS_CardinalityType DEF LedgerInv
  <2>4. QED
    BY <2>1, <2>2, <2>3 DEF Charged, Informed
<1>5. CASE FetchOptimistic(c)
  <2>1. /\ pc[c] = "fetch" /\ pc'[c] = "block" /\ req[c].strict
        /\ nonce'[c] = ak[Counter(req[c])] + 1
        /\ UNCHANGED <<attempt, signed>>
    BY <1>0, <1>1, <1>5, FetchedNonce DEF FetchOptimistic
  <2>2. Horizon(c)' = nonce'[c] - 1 /\ Spent(c)' = Spent(c)
    BY <1>0, <2>1, NextHorizon DEF Spent
  <2>3. QED
    BY <1>0, <1>k, <2>1, <2>2
<1>6. CASE FetchFinal(c)
  <2>1. /\ pc[c] = "fetch" /\ pc'[c] = "reserve" /\ ~req[c].strict
        /\ UNCHANGED <<attempt, signed>>
    BY <1>1, <1>6 DEF FetchFinal
  <2>2. Horizon(c) = Base(Entry(c)) /\ Horizon(c)' = Base(Entry(c))' /\ Spent(c)' = Spent(c)
    BY <1>0, <2>1, NextHorizon DEF Horizon, Spent
  <2>3. QED
    BY <1>2, <1>k, <2>1, <2>2
<1>7. CASE Reserve(c)
  <2>1. /\ pc[c] = "reserve" /\ pc'[c] = "block" /\ ~req[c].strict
        /\ nonce'[c] = NextNonce(Entry(c), told[c])
        /\ UNCHANGED <<attempt, signed>>
    BY <1>1, <1>7 DEF Reserve, StrictBase
  <2>2. nonce'[c] \in Nat /\ nonce'[c] > Base(Entry(c))
    BY <1>1, <2>1, EntryType, ReserveIsFresh
  <2>3. /\ Horizon(c) = Base(Entry(c)) /\ Horizon(c)' = nonce'[c] - 1
        /\ Spent(c)' = Spent(c)
    BY <1>0, <2>1, NextHorizon DEF Horizon, Spent
  <2>4. QED
    BY <1>2, <1>k, <2>1, <2>2, <2>3
<1>8. CASE FetchBlock(c)
  <2>1. /\ pc[c] = "block" /\ pc'[c] = "send" /\ UNCHANGED <<attempt, nonce>>
        /\ signed'[c] = signed[c] \cup {nonce[c]}
    BY <1>1, <1>8 DEF FetchBlock
  <2>2. /\ Horizon(c) = nonce[c] - 1 /\ Horizon(c)' = nonce[c] - 1
        /\ Spent(c)' = Spent(c)
    BY <1>0, <2>1, NextHorizon DEF Horizon, Spent
  <2>3. \A n \in signed'[c] \ signed[c] : n \in Nat /\ n > Horizon(c)
    BY <1>1, <2>1, <2>2
  <2>4. Charged(c)'
    BY <1>0, <1>1, <2>2, <2>3, ChargeKept
  <2>5. QED
    BY <2>1, <2>4 DEF Informed
<1>9. CASE Return(c) \/ Fail(c) \/ LosePost(c)
  <2>1. /\ UNCHANGED <<attempt, signed, nonce>> /\ pc[c] # "rejected"
        /\ pc'[c] \in Ended \/ (pc[c] = "send" /\ pc'[c] = "send")
    <3>1. CASE Return(c)
      BY <1>1, <3>1 DEF Return, Ended
    <3>2. CASE Fail(c)
      BY <1>1, <3>2 DEF Fail, Ended
    <3>3. CASE LosePost(c)
      BY <1>1, <3>3 DEF LosePost, Exhausted, Ended
    <3>4. QED
      BY <1>9, <3>1, <3>2, <3>3
  <2>2. Spent(c)' = Spent(c)
    BY <1>0, <2>1, NextHorizon DEF Spent, Ended
  <2>3. CASE pc'[c] \in Ended
    BY <1>0, <1>k, <2>1, <2>2, <2>3, NextHorizon DEF Ended
  <2>4. CASE pc[c] = "send" /\ pc'[c] = "send"
    <3>1. Horizon(c) = nonce[c] - 1 /\ Horizon(c)' = nonce[c] - 1
      BY <1>0, <2>1, <2>4, NextHorizon DEF Horizon
    <3>2. QED
      BY <1>1, <1>k, <2>1, <2>2, <2>4, <3>1
  <2>5. QED
    BY <2>1, <2>3, <2>4
<1>10. CASE Retry(c) \/ GiveUp(c)
  <2>1. /\ pc[c] = "rejected" /\ attempt'[c] = attempt[c] + 1 /\ Resync(c)
        /\ UNCHANGED <<signed, told>>
        /\ pc'[c] \in {"fetch", "block", "invalid_nonce"}
    BY <1>1, <1>10 DEF Retry, Resume, GiveUp
  <2>2. Spent(c)' = Spent(c)
    BY <1>0, <2>1, NextHorizon DEF Spent
  <2>3. CASE told[c] = None
    <3>1. req[c].strict /\ pc'[c] \in {"fetch", "invalid_nonce"}
      BY <1>1, <1>10, <2>1, <2>3 DEF Informed, Retry, Resume, GiveUp
    <3>2. Horizon(c)' = ak'[Counter(req[c])]
      BY <1>0, <3>1, NextHorizon DEF Ended
    <3>3. QED
      BY <1>0, <1>k, <2>1, <2>2, <3>1, <3>2
  <2>4. CASE told[c] # None
    <3>1. Horizon(c) = told[c] /\ told[c] \in Nat
      BY <1>1, <2>1, <2>4 DEF Horizon
    <3>2. CASE pc'[c] = "invalid_nonce"
      <4>1. Horizon(c)' = ak'[Counter(req[c])]
        BY <1>0, <3>2, NextHorizon DEF Ended
      <4>2. QED
        BY <1>0, <1>k, <2>1, <2>2, <3>2, <4>1
    <3>3. CASE pc'[c] = "block"
      <4>1. nonce'[c] = told[c] + 1
        BY <1>1, <1>10, <3>3 DEF Retry, Resume, GiveUp
      <4>2. Horizon(c)' = told[c]
        BY <1>0, <3>1, <3>3, <4>1, NextHorizon
      <4>3. QED
        BY <1>k, <2>1, <2>2, <3>1, <3>3, <4>2
    <3>4. CASE pc'[c] = "fetch"
      <4>1. ~req[c].strict
        BY <1>1, <1>10, <2>4, <3>4 DEF Retry, Resume, GiveUp
      <4>2. Horizon(c)' = Base(Entry(c))'
        BY <1>0, <3>4, <4>1, NextHorizon
      <4>3. Base(Entry(c))' >= told[c]
        <5>1. /\ SetEntry(c, SyncTo(Entry(c), told[c]))
              /\ SyncTo(Entry(c), told[c]) \in Nat
              /\ SyncTo(Entry(c), told[c]) >= told[c]
          BY <2>1, <2>4, <3>1, EntryType, SyncIsUpperBound DEF Resync
        <5>2. cache'[req[c].client][Key(req[c])] = SyncTo(Entry(c), told[c])
          BY <5>1, EntrySet, RequestOf
        <5>3. Entry(c)' = cache'[req[c].client][Key(req[c])]
          BY <1>0 DEF Entry, Key
        <5>4. Base(Entry(c))' = SyncTo(Entry(c), told[c])
          BY <5>1, <5>2, <5>3, NoneAssumption DEF Base
        <5>5. QED
          BY <5>1, <5>4
      <4>4. QED
        BY <1>2, <1>k, <2>1, <2>2, <3>1, <3>4, <4>2, <4>3
    <3>5. QED
      BY <2>1, <3>2, <3>3, <3>4
  <2>5. QED
    BY <2>3, <2>4
<1>11. QED
  BY <1>3, <1>4, <1>5, <1>6, <1>7, <1>8, <1>9, <1>10 DEF ClientStep

\* A rejected attempt is charged to what was executed last: that is no transaction
\* of the call's own, if the node recognises a repost, and above its horizon.
LEMMA RejectionIsCharged ==
    ASSUME TypeOK, RecognisesResend, LedgerInv, req' = req, NEW c \in Calls,
           OnceOf(c), Charged(c), Silent => req[c].strict, NodeRejects(c)
    PROVE  Charged(c)' /\ Informed(c)'
<1> DEFINE k == Counter(req[c])
<1>0. /\ Horizon(c) \in Int /\ Spent(c) \in Nat /\ Free(c) \in {0, 1} /\ Charge(c) \in Nat
      /\ ak[k] \in Nat /\ InitNonce[k] \in Nat /\ ak[k] >= InitNonce[k] /\ k \in Counters
      /\ attempt[c] \in Nat /\ nonce[c] \in Nat
      /\ landed \in SUBSET TxType /\ IsFiniteSet(landed)
  BY ChargeTypes, RequestOf DEF TypeOK, LedgerInv, Attempts
<1>1. /\ pc[c] = "send" /\ pc'[c] = "rejected"
      /\ told'[c] = ak[k] \/ (Silent /\ told'[c] = None)
      /\ UNCHANGED <<attempt, signed, ak, landed>>
  BY DEF NodeRejects, Goto, TypeOK, nodeVars
<1>2. /\ Horizon(c) = nonce[c] - 1 /\ Spent(c) = attempt[c]
      /\ Horizon(c)' = ak[k] /\ Spent(c)' = attempt[c] + 1
  <2>1. Horizon(c) = nonce[c] - 1 /\ Spent(c) = attempt[c]
    BY <1>1 DEF Horizon, Spent
  <2>2. Horizon(c)' = ak[k] /\ Spent(c)' = attempt[c] + 1
    BY <1>1, NextHorizon
  <2>3. QED
    BY <2>1, <2>2
<1>3. nonce[c] <= ak[k] /\ \A n \in signed[c] : Dead(c, n)
  <2>1. /\ CurrentTx(c).counter = k /\ CurrentTx(c).nonce = nonce[c]
        /\ CurrentTx(c).strict = req[c].strict /\ CurrentTx(c) = Tx(req[c], nonce[c])
    BY <1>0, TxOf DEF CurrentTx
  <2>2. CurrentTx(c) \notin landed /\ ~Acceptable(CurrentTx(c))
    BY DEF NodeRejects, Known
  <2>3. req[c].strict => nonce[c] <= ak[k] + 1
    BY <1>1 DEF OnceOf, StrictBase
  <2>4. nonce[c] <= ak[k]
    BY <1>0, <2>1, <2>2, <2>3 DEF Acceptable
  <2>5. Dead(c, nonce[c])
    BY <2>1, <2>2, <2>4 DEF Dead
  <2>6. QED
    BY <2>4, <2>5 DEF OnceOf, OthersDead, Live
<1>4. Free(c)' = Free(c) /\ Counter(req[c])' = k /\ OwnTxs(c)' = OwnTxs(c)
  BY <1>1 DEF Free, Counter, OwnTxs, Tx
<1>5. Charge(c)' = Cardinality(Others(landed, k, OwnTxs(c), ak[k]))
  BY <1>1, <1>2, <1>4 DEF Charge
<1>6. Charge(c) = Cardinality(Others(landed, k, OwnTxs(c), nonce[c] - 1))
  BY <1>2 DEF Charge
<1>7. Charge(c)' \in Nat
  <2>1. Others(landed, k, OwnTxs(c), ak[k]) \in SUBSET landed
    BY DEF Others
  <2>2. QED
    BY <1>0, <1>5, <2>1, FS_Subset, FS_CardinalityType
<1>8. attempt[c] >= Free(c) => Charge(c) + 1 <= Charge(c)'
  <2> SUFFICES ASSUME attempt[c] >= Free(c)
               PROVE  Charge(c) + 1 <= Charge(c)'
    OBVIOUS
  <2>1. nonce[c] - 1 >= InitNonce[k]
    BY <1>2 DEF Charged
  <2>2. ak[k] > InitNonce[k]
    BY <1>0, <1>3, <2>1
  <2>3. PICK t \in landed : t.counter = k /\ t.nonce = ak[k]
    BY <1>0, <2>2 DEF LedgerInv
  <2>4. t \notin OwnTxs(c)
    <3> SUFFICES ASSUME NEW n \in signed[c], t = Tx(req[c], n)
                 PROVE  FALSE
      BY DEF OwnTxs
    <3>1. QED
      BY <1>3 DEF Dead
  <2> HIDE DEF k
  <2>5. nonce[c] - 1 \in Int /\ nonce[c] - 1 <= ak[k] /\ t.nonce <= ak[k] /\ t.nonce > nonce[c] - 1
    BY <1>0, <1>3, <2>3
  <2>6. QED
    BY <1>0, <1>5, <1>6, <2>3, <2>4, <2>5, OneMoreCharge
<1>9. Spent(c)' <= Charge(c)' + Free(c)'
  <2>1. CASE attempt[c] >= Free(c)
    BY <1>0, <1>2, <1>4, <1>7, <1>8, <2>1 DEF Charged
  <2>2. CASE ~(attempt[c] >= Free(c))
    BY <1>0, <1>2, <1>4, <1>7, <2>2
  <2>3. QED
    BY <2>1, <2>2
<1>10. InitNonce[Counter(req[c])]' = InitNonce[k]
  BY <1>4
<1>11. Charged(c)'
  BY <1>0, <1>2, <1>9, <1>10 DEF Charged
<1>12. Informed(c)'
  BY <1>0, <1>1, NoneAssumption DEF Informed
<1>13. QED
  BY <1>11, <1>12

\* The node's answers keep the charges.
LEMMA NodeStepCharged ==
    ASSUME TypeOK, RecognisesResend, LedgerInv, LedgerInv', ChainStep, req' = req,
           NEW c \in Calls, OnceOf(c), Charged(c), Silent => req[c].strict, NodeStep(c)
    PROVE  Charged(c)' /\ Informed(c)'
<1>1. CASE NodeRejects(c)
  BY <1>1, RejectionIsCharged
<1>2. CASE NodeQueues(c) \/ NodeRecognises(c) \/ NodeExecutes(c)
  <2>1. /\ pc[c] = "send" /\ pc'[c] = "accepted" /\ UNCHANGED <<attempt, signed>>
    BY <1>2 DEF NodeQueues, NodeRecognises, NodeExecutes, Goto, TypeOK
  <2>2. Spent(c)' = Spent(c) /\ Horizon(c)' = ak'[Counter(req[c])]
    BY <2>1, NextHorizon DEF Spent
  <2>3. /\ ak[Counter(req[c])] \in Nat /\ ak'[Counter(req[c])] \in Nat
        /\ ak'[Counter(req[c])] >= ak[Counter(req[c])]
        /\ Spent(c) \in Nat
    BY ChainStepKeeps, ChargeTypes
  <2>4. Charged(c)'
    BY <2>1, <2>2, <2>3, ChargeKept
  <2>5. QED
    BY <2>1, <2>4 DEF Informed
<1>3. QED
  BY <1>1, <1>2 DEF NodeStep

LEMMA ChargeStep ==
    ASSUME TypeOK, TypeOK', RecognisesResend, LedgerInv, LedgerInv', OnceInv, ChargeInv,
           [Next]_vars
    PROVE  ChargeInv'
<1>0. req' = req /\ ChainStep /\ EntriesGrow
  BY RequestsFixed, NextIsChainStep, StepGrows, GrowingEntries
<1> SUFFICES ASSUME NEW d \in Calls, Silent => req[d].strict
             PROVE  Charged(d)' /\ Informed(d)'
  BY <1>0 DEF ChargeInv
<1>1. Charged(d) /\ Informed(d) /\ OnceOf(d) /\ StrictBase(d)
  BY DEF ChargeInv, OnceInv, OnceOf
<1>2. ASSUME NEW c \in Calls, Step(c)
      PROVE  Charged(d)' /\ Informed(d)'
  <2>1. CASE c = d
    BY <1>0, <1>1, <1>2, <2>1, ClientStepCharged, NodeStepCharged DEF Step
  <2>2. CASE c # d
    BY <1>0, <1>1, <1>2, <2>2, OthersStandStill, BystanderCharged
  <2>3. QED
    BY <2>1, <2>2
<1>3. ASSUME NEW t \in pool, Include(t)
      PROVE  Charged(d)' /\ Informed(d)'
  BY <1>0, <1>1, <1>3, BystanderCharged DEF Include, callVars
<1>4. CASE UNCHANGED vars
  BY <1>0, <1>1, <1>4, BystanderCharged DEF vars, callVars
<1>5. QED
  BY <1>2, <1>3, <1>4 DEF Next, Done

LEMMA ChargeInit ==
    ASSUME Init, LedgerInv
    PROVE  ChargeInv
<1> SUFFICES ASSUME NEW c \in Calls
             PROVE  Charged(c) /\ Informed(c)
  BY DEF ChargeInv
<1>1. TypeOK
  BY SendAssumption DEF Init, TypeOK, PCs, Attempts, Counters
<1>2. Spent(c) = 0 /\ Horizon(c) = ak[Counter(req[c])] /\ Informed(c)
  BY DEF Init, Spent, Horizon, Informed
<1>3. QED
  BY <1>1, <1>2, ChargeTypes DEF Charged

\* What has been charged up to the horizon has been charged.
LEMMA ChargesCount ==
    ASSUME TypeOK, LedgerInv, ChargeInv
    PROVE  RejectionsAreCharged
<1> SUFFICES ASSUME NEW c \in Calls, Silent => req[c].strict
             PROVE  attempt[c] <= Cardinality({t \in landed : t.counter = Counter(req[c])}
                                        \ {Tx(req[c], n) : n \in signed[c]})
                          + (IF req[c].strict THEN 0 ELSE 1)
  BY DEF RejectionsAreCharged
<1> DEFINE all == {t \in landed : t.counter = Counter(req[c])}
                    \ {Tx(req[c], n) : n \in signed[c]}
<1>1. all \in SUBSET landed
  OBVIOUS
<1>2. IsFiniteSet(all) /\ Cardinality(all) \in Nat
  BY <1>1, FS_Subset, FS_CardinalityType DEF LedgerInv
<1>3. Others(landed, Counter(req[c]), OwnTxs(c), Horizon(c)) \subseteq all
  BY DEF Others, OwnTxs
<1>4. Charge(c) <= Cardinality(all)
  BY <1>2, <1>3, FS_Subset DEF Charge
<1>5. attempt[c] <= Spent(c) /\ Spent(c) <= Charge(c) + Free(c)
  BY DEF ChargeInv, Charged, Spent, TypeOK, Attempts
<1>6. Charge(c) \in Nat /\ Free(c) \in {0, 1} /\ Spent(c) \in Nat /\ attempt[c] \in Nat
  BY ChargeTypes DEF TypeOK, Attempts
<1> HIDE DEF all
<1>7. attempt[c] <= Cardinality(all) + Free(c)
  BY <1>2, <1>4, <1>5, <1>6
<1>8. QED
  BY <1>7 DEF all, Free

\* The node rejects an attempt of a call only because of a transaction of somebody
\* else, a different one each time; a monotonic call may lose one more to a trailing
\* view.  So three rejections take at least two other transactions.
THEOREM RejectionsCharged ==
    ASSUME RecognisesResend
    PROVE  Spec => []RejectionsAreCharged
<1>1. Init /\ LedgerInv => ChargeInv
  BY ChargeInit
<1>2. TypeOK /\ TypeOK' /\ LedgerInv /\ LedgerInv' /\ OnceInv /\ ChargeInv /\ [Next]_vars
        => ChargeInv'
  BY ChargeStep
<1>3. TypeOK /\ LedgerInv /\ ChargeInv => RejectionsAreCharged
  BY ChargesCount
<1>4. QED
  BY <1>1, <1>2, <1>3, TypeCorrect, LedgerAlways, OnceAlways, PTL DEF Spec

-------------------------------------------------------------------------------
(* Successes stand for different transactions.  Two monotonic calls sign       *)
(* different nonces.  Of two strict calls one has the lock after the other:    *)
(* whatever it then fetches, or is told, is not below what the first landed.   *)

\* A call that has succeeded signed its nonce and, if it waited, was executed.
DoneOf(c) ==
    /\ pc[c] = "reserve" => ~req[c].strict
    /\ pc[c] = "send" \/ pc[c] = "accepted" \/ Succeeded(c) => nonce[c] \in signed[c]
    /\ (pc[c] = "accepted" \/ Succeeded(c)) /\ Waits(c) => CurrentTx(c) \in landed

\* The call d does not use the nonce of c, which has succeeded, for its own.
Past(c, d) ==
    /\ pc[d] \in {"block", "send", "accepted"} \/ Succeeded(d) => nonce[d] # nonce[c]
    /\ pc[d] = "rejected" /\ told[d] # None => told[d] >= nonce[c]

StrictPair(c, d) == c # d /\ SameEntry(c, d) /\ req[c].strict /\ req[d].strict
                          /\ Waits(c) /\ Waits(d)

PastInv == \A c, d \in Calls : StrictPair(c, d) /\ Succeeded(c) => Past(c, d)

DistinctInv == (\A c \in Calls : DoneOf(c)) /\ PastInv

\* A call that has ended takes no step.
LEMMA EndedStandStill ==
    ASSUME NEW c \in Calls, Step(c)
    PROVE  pc[c] \notin Ended
BY DEF Step, ClientStep, AcquireLock, CheckCache, FetchOptimistic, FetchFinal, Reserve,
       FetchBlock, Return, Retry, GiveUp, Fail, LosePost,
       NodeStep, NodeQueues, NodeRecognises, NodeExecutes, NodeRejects, Ended

\* What a step of its own does to the place, the nonce and the signatures of a call.
LEMMA OwnDone ==
    ASSUME TypeOK, NEW c \in Calls, DoneOf(c), Step(c)
    PROVE  DoneOf(c)'
<1> USE DEF Goto, Succeeded
<1>0. /\ pc \in [Calls -> PCs] /\ nonce \in [Calls -> Nat] /\ signed \in [Calls -> SUBSET Nat]
      /\ req' = req
  BY RequestsFixed DEF TypeOK, Next
<1>r. Waits(c)' = Waits(c) /\ (nonce'[c] = nonce[c] => CurrentTx(c)' = CurrentTx(c))
  BY <1>0 DEF Waits, CurrentTx, Tx, Counter
<1>1. CASE AcquireLock(c) \/ CheckCache(c) \/ FetchOptimistic(c) \/ FetchFinal(c) \/ Reserve(c)
  <2>1. pc'[c] \in {"fetch", "reserve", "block"} /\ (pc'[c] = "reserve" => ~req[c].strict)
    BY <1>0, <1>1 DEF AcquireLock, CheckCache, FetchOptimistic, FetchFinal, Reserve
  <2>2. QED
    BY <1>0, <2>1 DEF DoneOf
<1>2. CASE FetchBlock(c)
  <2>1. pc'[c] = "send" /\ nonce'[c] \in signed'[c]
    BY <1>0, <1>2 DEF FetchBlock
  <2>2. QED
    BY <2>1 DEF DoneOf
<1>3. CASE Return(c)
  <2>1. /\ pc[c] = "accepted" /\ UNCHANGED <<nonce, signed, landed>>
        /\ pc'[c] \in {"returned", "panicked"}
    BY <1>0, <1>3 DEF Return, nodeVars
  <2>2. QED
    BY <1>r, <2>1 DEF DoneOf
<1>4. CASE Retry(c) \/ GiveUp(c) \/ Fail(c)
  <2>1. pc'[c] \in {"fetch", "block", "invalid_nonce", "error"}
    BY <1>0, <1>4 DEF Retry, Resume, GiveUp, Fail
  <2>2. QED
    BY <2>1 DEF DoneOf
<1>5. CASE LosePost(c)
  <2>1. pc[c] = "send" /\ pc'[c] \in {"send", "error"} /\ UNCHANGED <<nonce, signed>>
    BY <1>0, <1>5 DEF LosePost, Exhausted
  <2>2. QED
    BY <2>1 DEF DoneOf
<1>6. CASE NodeStep(c)
  <2>1. /\ pc[c] = "send" /\ pc'[c] \in {"accepted", "rejected"} /\ UNCHANGED <<nonce, signed>>
        /\ pc'[c] = "accepted" /\ Waits(c) => CurrentTx(c) \in landed'
    BY <1>0, <1>6 DEF NodeStep, NodeQueues, NodeRecognises, NodeExecutes, NodeRejects,
         Known, Execute, Waits, nodeVars
  <2>2. QED
    BY <1>r, <2>1 DEF DoneOf
<1>7. QED
  BY <1>1, <1>2, <1>3, <1>4, <1>5, <1>6 DEF Step, ClientStep

\* The others cannot undo it.
LEMMA BystanderDone ==
    ASSUME TypeOK, ChainStep, req' = req, NEW d \in Calls, DoneOf(d),
           pc'[d] = pc[d], nonce'[d] = nonce[d], signed'[d] = signed[d]
    PROVE  DoneOf(d)'
<1>1. landed \subseteq landed'
  BY ChainStepKeeps
<1>2. Waits(d)' = Waits(d) /\ CurrentTx(d)' = CurrentTx(d) /\ Succeeded(d)' = Succeeded(d)
  BY DEF Waits, CurrentTx, Tx, Counter, Succeeded
<1>3. QED
  BY <1>1, <1>2 DEF DoneOf

\* What was executed for a call is at or below its counter.
LEMMA LandedNonce ==
    ASSUME TypeOK, LedgerInv, NEW c \in Calls, CurrentTx(c) \in landed
    PROVE  nonce[c] \in Nat /\ nonce[c] <= ak[Counter(req[c])]
<1>1. nonce[c] \in Nat
  BY DEF TypeOK
<1>2. CurrentTx(c).counter = Counter(req[c]) /\ CurrentTx(c).nonce = nonce[c]
  BY <1>1, TxOf DEF CurrentTx
<1>3. QED
  BY <1>1, <1>2 DEF LedgerInv

\* Once a strict call has succeeded, the steps of another one avoid its nonce.
LEMMA OwnPast ==
    ASSUME TypeOK, LedgerInv, NEW c \in Calls, NEW d \in Calls, StrictPair(c, d),
           CurrentTx(c) \in landed, DoneOf(d), Past(c, d), Step(d)
    PROVE  Past(c, d)'
<1> USE DEF Goto, Succeeded
<1>0. /\ pc \in [Calls -> PCs] /\ nonce \in [Calls -> Nat] /\ told \in [Calls -> Nat \cup {None}]
      /\ req' = req /\ nonce'[c] = nonce[c]
  BY RequestsFixed, OthersStandStill DEF TypeOK, Next, StrictPair
<1>1. /\ nonce[c] \in Nat /\ ak[Counter(req[d])] \in Nat
      /\ nonce[c] <= ak[Counter(req[d])]
  <2>1. Counter(req[c]) = Counter(req[d])
    BY DEF StrictPair, SameEntry, Key, Counter
  <2>2. QED
    BY <2>1, LandedNonce, CounterType
<1>2. CASE AcquireLock(d) \/ CheckCache(d) \/ FetchFinal(d) \/ Reserve(d)
  <2>1. pc'[d] = "fetch"
    BY <1>0, <1>2 DEF AcquireLock, CheckCache, FetchFinal, Reserve, DoneOf, StrictPair
  <2>2. QED
    BY <2>1 DEF Past
<1>3. CASE FetchOptimistic(d)
  <2>1. pc'[d] = "block" /\ nonce'[d] = ak[Counter(req[d])] + 1
    BY <1>0, <1>3, FetchedNonce DEF FetchOptimistic
  <2>2. QED
    BY <1>0, <1>1, <2>1 DEF Past
<1>4. CASE FetchBlock(d) \/ Return(d) \/ NodeQueues(d) \/ NodeRecognises(d) \/ NodeExecutes(d)
  <2>1. /\ UNCHANGED nonce
        /\ pc[d] \in {"block", "send", "accepted"}
        /\ pc'[d] \in {"send", "accepted", "returned", "panicked"}
    BY <1>0, <1>4 DEF FetchBlock, Return, NodeQueues, NodeRecognises, NodeExecutes
  <2>2. QED
    BY <2>1 DEF Past
<1>5. CASE Retry(d)
  <2>1. CASE told[d] # None
    <3>1. pc[d] = "rejected" /\ pc'[d] = "block" /\ nonce'[d] = told[d] + 1 /\ told[d] \in Nat
      BY <1>0, <1>5, <2>1 DEF Retry, Resume, StrictPair
    <3>2. told[d] >= nonce[c]
      BY <2>1, <3>1 DEF Past
    <3>3. QED
      BY <1>0, <1>1, <3>1, <3>2 DEF Past
  <2>2. CASE told[d] = None
    <3>1. pc'[d] = "fetch"
      BY <1>0, <1>5, <2>2 DEF Retry, Resume
    <3>2. QED
      BY <3>1 DEF Past
  <2>3. QED
    BY <2>1, <2>2
<1>6. CASE GiveUp(d) \/ Fail(d)
  <2>1. pc'[d] \in {"invalid_nonce", "error"}
    BY <1>0, <1>6 DEF GiveUp, Fail
  <2>2. QED
    BY <2>1 DEF Past
<1>7. CASE LosePost(d)
  <2>1. UNCHANGED nonce /\ pc[d] = "send" /\ pc'[d] \in {"send", "error"}
    BY <1>0, <1>7 DEF LosePost, Exhausted
  <2>2. QED
    BY <2>1 DEF Past
<1>8. CASE NodeRejects(d)
  <2>1. pc'[d] = "rejected" /\ told'[d] \in {ak[Counter(req[d])], None}
    BY <1>0, <1>8 DEF NodeRejects
  <2>2. QED
    BY <1>0, <1>1, <2>1 DEF Past
<1>9. QED
  BY <1>2, <1>3, <1>4, <1>5, <1>6, <1>7, <1>8 DEF Step, ClientStep, NodeStep

\* A strict call can only be about to return while the other is outside the lock.
LEMMA ReturnPast ==
    ASSUME TypeOK, HolderInv, PastInv, NEW c \in Calls, NEW d \in Calls, StrictPair(c, d),
           Return(c)
    PROVE  Past(c, d)'
<1>1. /\ pc[c] = "accepted" /\ UNCHANGED nonce /\ pc'[d] = pc[d]
  BY DEF Return, StrictPair, Goto, TypeOK
<1>2. ~InGuard(d)
  BY <1>1 DEF HolderInv, InGuard, LockOf, StrictPair, SameEntry, Ended
<1>3. pc[d] \in {"start"} \cup Ended
  BY <1>2 DEF InGuard, StrictPair
<1>4. Succeeded(d) => nonce[c] # nonce[d]
  <2>1. StrictPair(d, c)
    BY DEF StrictPair, SameEntry
  <2>2. QED
    BY <1>1, <2>1 DEF PastInv, Past
<1>5. QED
  BY <1>1, <1>3, <1>4 DEF Past, Ended, Succeeded

LEMMA DistinctStep ==
    ASSUME TypeOK, LedgerInv, HolderInv, DistinctInv, [Next]_vars
    PROVE  DistinctInv'
<1>0. req' = req /\ ChainStep
  BY RequestsFixed, NextIsChainStep
<1>1. ASSUME UNCHANGED <<pc, nonce, signed, told>>
      PROVE  DistinctInv'
  <2>1. \A c \in Calls : DoneOf(c)'
    BY <1>0, <1>1, BystanderDone DEF DistinctInv
  <2>2. PastInv'
    BY <1>0, <1>1 DEF DistinctInv, PastInv, Past, StrictPair, SameEntry, Key, Waits, Succeeded
  <2>3. QED
    BY <2>1, <2>2 DEF DistinctInv
<1>2. ASSUME NEW e \in Calls, Step(e)
      PROVE  DistinctInv'
  <2>1. ASSUME NEW c \in Calls
        PROVE  DoneOf(c)'
    <3>1. CASE c = e
      BY <1>2, <3>1, OwnDone DEF DistinctInv
    <3>2. CASE c # e
      BY <1>0, <1>2, <3>2, OthersStandStill, BystanderDone DEF DistinctInv
    <3>3. QED
      BY <3>1, <3>2
  <2>2. ASSUME NEW c \in Calls, NEW d \in Calls, StrictPair(c, d), Succeeded(c)'
        PROVE  Past(c, d)'
    <3>1. CASE ~Succeeded(c)
      <4>1. c = e
        BY <1>2, <2>2, <3>1, OthersStandStill DEF Succeeded
      <4>2. Return(c)
        BY <1>2, <2>2, <4>1 DEF TypeOK, Succeeded, Goto, Step, ClientStep, NodeStep,
             AcquireLock, CheckCache, FetchOptimistic, FetchFinal, Reserve, FetchBlock,
             Retry, Resume, GiveUp, Fail, LosePost, Exhausted,
             NodeQueues, NodeRecognises, NodeExecutes, NodeRejects
      <4>3. QED
        BY <2>2, <4>2, ReturnPast DEF DistinctInv
    <3>2. CASE Succeeded(c)
      <4>1. c # e
        BY <1>2, <3>2, EndedStandStill DEF Succeeded, Ended
      <4>2. Past(c, d) /\ CurrentTx(c) \in landed /\ DoneOf(d)
        BY <2>2, <3>2 DEF DistinctInv, PastInv, DoneOf, StrictPair
      <4>3. CASE d = e
        BY <1>2, <2>2, <4>2, <4>3, OwnPast
      <4>4. CASE d # e
        BY <1>2, <4>1, <4>2, <4>4, OthersStandStill DEF Past, Succeeded
      <4>5. QED
        BY <4>3, <4>4
    <3>3. QED
      BY <3>1, <3>2
  <2>3. PastInv'
    BY <1>0, <2>2 DEF PastInv, StrictPair, SameEntry, Key, Waits
  <2>4. QED
    BY <2>1, <2>3 DEF DistinctInv
<1>3. ASSUME NEW t \in pool, Include(t)
      PROVE  DistinctInv'
  BY <1>1, <1>3 DEF Include, callVars
<1>4. CASE UNCHANGED vars
  BY <1>1, <1>4 DEF vars, callVars
<1>5. QED
  BY <1>2, <1>3, <1>4 DEF Next, Done

LEMMA DistinctInit == Init => DistinctInv
BY DEF Init, DistinctInv, DoneOf, PastInv, Succeeded

\* The invariants of the claims and of the strict calls together.
LEMMA DistinctSuccesses ==
    ASSUME TypeOK, ClaimInv, DistinctInv
    PROVE  SuccessesAreDistinct
<1> SUFFICES ASSUME NEW c \in Calls, Succeeded(c), Waits(c)
             PROVE  /\ CurrentTx(c) \in landed
                    /\ \A d \in Calls \ {c} :
                         Succeeded(d) /\ Waits(d) /\ req[c].client = req[d].client
                             => CurrentTx(c) # CurrentTx(d)
  BY DEF SuccessesAreDistinct
<1>1. CurrentTx(c) \in landed
  BY DEF DistinctInv, DoneOf
<1>2. ASSUME NEW d \in Calls \ {c}, Succeeded(d), Waits(d), req[c].client = req[d].client,
             CurrentTx(c) = CurrentTx(d)
      PROVE  FALSE
  <2>1. nonce[c] \in Nat /\ nonce[d] \in Nat
    BY DEF TypeOK
  <2>2. /\ nonce[c] = nonce[d] /\ req[c].strict = req[d].strict
        /\ Counter(req[c]) = Counter(req[d])
    BY <1>2, <2>1, TxOf DEF CurrentTx
  <2>3. SameEntry(c, d)
    BY <1>2, <2>2, RequestOf DEF SameEntry
  <2>4. CASE req[c].strict
    BY <1>2, <2>2, <2>3, <2>4 DEF DistinctInv, PastInv, StrictPair, Past
  <2>5. CASE ~req[c].strict
    <3>1. nonce[c] \in Claimed(c) /\ nonce[d] \in Claimed(d)
      BY <1>2 DEF DistinctInv, DoneOf, Claimed
    <3>2. QED
      BY <1>2, <2>2, <2>3, <2>5, <3>1 DEF ClaimInv, ClaimsDisjoint
  <2>6. QED
    BY <2>4, <2>5
<1>3. QED
  BY <1>1, <1>2

\* The invariant of the successes holds in every reachable state.
LEMMA DistinctAlways == Spec => []DistinctInv
<1>1. TypeOK /\ LedgerInv /\ HolderInv /\ DistinctInv /\ [Next]_vars => DistinctInv'
  BY DistinctStep
<1>2. QED
  BY <1>1, DistinctInit, TypeCorrect, LedgerAlways, HoldersAlways, PTL DEF Spec

\* Calls of one client that waited and succeeded stand for as many transactions.
THEOREM SuccessesDistinct == Spec => []SuccessesAreDistinct
<1>1. TypeOK /\ ClaimInv /\ DistinctInv => SuccessesAreDistinct
  BY DistinctSuccesses
<1>2. QED
  BY <1>1, TypeCorrect, ClaimsAlways, DistinctAlways, PTL

-------------------------------------------------------------------------------
(* Strict calls take turns.  The one that has the lock uses the nonce after    *)
(* the counter, or its transaction is executed already; and what the node      *)
(* still has in its pool is either that transaction or can never be executed.  *)

\* Every call on the counter of c is strict, waits, is of one client, and has not
\* ended in an error.
Peaceful(c) ==
    \A d \in Calls : Counter(req[d]) = Counter(req[c]) =>
        req[d].strict /\ Waits(d) /\ SameEntry(c, d) /\ pc[d] # "error"

OnTop(c) ==
    /\ attempt[c] = 0 /\ pc[c] # "rejected"
    /\ pc[c] = "block" => nonce[c] = ak[Counter(req[c])] + 1
    /\ pc[c] = "send" => nonce[c] = ak[Counter(req[c])] + 1 \/ CurrentTx(c) \in landed

OnItsWay(t) == \E d \in Calls : pc[d] = "send" /\ t = CurrentTx(d)

PoolSpent(c) ==
    \A t \in pool : t.counter = Counter(req[c]) =>
        t.nonce <= ak[Counter(req[c])] \/ OnItsWay(t)

TurnOf(c) == OnTop(c) /\ PoolSpent(c)

TurnInv == \A c \in Calls : Peaceful(c) => TurnOf(c)

\* A counter that was peaceful after a step was so before it.
LEMMA PeaceIsOld ==
    ASSUME TypeOK, req' = req, NEW c \in Calls, Peaceful(c)',
           \A d \in Calls : pc[d] = "error" => pc'[d] = "error"
    PROVE  Peaceful(c)
BY DEF Peaceful, Counter, Waits, SameEntry, Key

\* The steps of calls on other counters do not disturb it.
LEMMA TurnElsewhere ==
    ASSUME TypeOK, req' = req, NEW c \in Calls, TurnOf(c),
           NEW e \in Calls, Counter(req[e]) # Counter(req[c]), Step(e)
    PROVE  TurnOf(c)'
<1> DEFINE k == Counter(req[c])
<1>1. /\ CurrentTx(e) \in TxType /\ CurrentTx(e).counter # k /\ CurrentTx(e).counter \in Counters
      /\ k \in Counters
  BY TxOf, RequestOf DEF TypeOK, CurrentTx
<1>2. /\ ak'[k] = ak[k] /\ landed \subseteq landed' /\ pool' \subseteq pool \cup {CurrentTx(e)}
  <2>1. CASE ClientStep(e)
    BY <2>1 DEF ClientStep, AcquireLock, CheckCache, FetchOptimistic, FetchFinal, Reserve,
         FetchBlock, Return, Retry, GiveUp, Fail, LosePost, nodeVars
  <2>2. CASE NodeStep(e)
    BY <1>1, <2>2 DEF TypeOK, NodeStep, NodeQueues, NodeRecognises, NodeExecutes, NodeRejects,
         Execute, nodeVars
  <2>3. QED
    BY <2>1, <2>2 DEF Step
<1>3. \A d \in Calls \ {e} : pc'[d] = pc[d] /\ nonce'[d] = nonce[d] /\ attempt'[d] = attempt[d]
  BY OthersStandStill
<1>4. Counter(req[c])' = k /\ \A d \in Calls \ {e} : CurrentTx(d)' = CurrentTx(d)
  BY <1>3 DEF CurrentTx, Tx, Counter
<1>5. OnTop(c)'
  BY <1>2, <1>3, <1>4 DEF TurnOf, OnTop
<1>6. PoolSpent(c)'
  <2> SUFFICES ASSUME NEW t \in pool', t.counter = k
               PROVE  t.nonce <= ak[k] \/ OnItsWay(t)'
    BY <1>2, <1>4 DEF PoolSpent
  <2>1. t \in pool
    BY <1>1, <1>2
  <2>2. t.nonce <= ak[k] \/ OnItsWay(t)
    BY <2>1 DEF TurnOf, PoolSpent
  <2>3. ASSUME NEW d \in Calls, pc[d] = "send", t = CurrentTx(d)
        PROVE  OnItsWay(t)'
    <3>1. d # e
      BY <1>1, <2>3
    <3>2. QED
      BY <1>3, <1>4, <2>3, <3>1 DEF OnItsWay
  <2>4. QED
    BY <2>2, <2>3 DEF OnItsWay
<1>7. QED
  BY <1>5, <1>6 DEF TurnOf

\* A call on a peaceful counter keeps the turns in each of its own steps.
LEMMA OwnTurn ==
    ASSUME TypeOK, RecognisesResend, NEW e \in Calls, DoneOf(e), OnTop(e),
           req[e].strict, Waits(e), Step(e), pc'[e] # "error"
    PROVE  /\ OnTop(e)'
           /\ \/ UNCHANGED <<ak, landed, pool>> /\ pc[e] # "send"
              \/ UNCHANGED <<ak, landed>> /\ pc'[e] = "send" /\ nonce'[e] = nonce[e]
                   /\ pool' \subseteq pool \cup {CurrentTx(e)}
              \/ pc[e] = "send" /\ UNCHANGED <<ak, landed, pool>> /\ CurrentTx(e) \in landed
              \/ pc[e] = "send" /\ pool' = pool /\ Execute(CurrentTx(e))
<1> USE DEF Goto
<1>0. /\ pc \in [Calls -> PCs] /\ nonce \in [Calls -> Nat]
      /\ req' = req /\ Counter(req[e])' = Counter(req[e])
  BY RequestsFixed DEF TypeOK, Next, Counter
<1>r. nonce'[e] = nonce[e] => CurrentTx(e)' = CurrentTx(e)
  BY <1>0 DEF CurrentTx, Tx, Counter
<1>1. CASE AcquireLock(e) \/ CheckCache(e) \/ FetchFinal(e) \/ Reserve(e)
  <2>1. /\ UNCHANGED <<ak, landed, pool, attempt>> /\ pc'[e] = "fetch" /\ pc[e] # "send"
    BY <1>0, <1>1 DEF AcquireLock, CheckCache, FetchFinal, Reserve, DoneOf, nodeVars
  <2>2. QED
    BY <2>1 DEF OnTop
<1>2. CASE FetchOptimistic(e)
  <2>1. /\ UNCHANGED <<ak, landed, pool, attempt>> /\ pc'[e] = "block" /\ pc[e] # "send"
        /\ nonce'[e] = ak[Counter(req[e])] + 1
    BY <1>0, <1>2, FetchedNonce DEF FetchOptimistic, nodeVars
  <2>2. QED
    BY <1>0, <2>1 DEF OnTop
<1>3. CASE FetchBlock(e)
  <2>1. /\ UNCHANGED <<ak, landed, pool, attempt, nonce>> /\ pc'[e] = "send" /\ pc[e] = "block"
    BY <1>0, <1>3 DEF FetchBlock, nodeVars
  <2>2. QED
    BY <1>0, <2>1 DEF OnTop
<1>4. CASE Return(e)
  <2>1. /\ UNCHANGED <<ak, landed, pool, attempt>> /\ pc'[e] \in {"returned", "panicked"}
        /\ pc[e] # "send"
    BY <1>0, <1>4 DEF Return, nodeVars
  <2>2. QED
    BY <2>1 DEF OnTop
<1>5. CASE Retry(e) \/ GiveUp(e) \/ Fail(e)
  BY <1>0, <1>5 DEF Retry, GiveUp, Fail, OnTop
<1>6. CASE LosePost(e)
  <2>1. /\ UNCHANGED <<ak, landed, attempt, nonce>> /\ pc'[e] = "send" /\ pc[e] = "send"
        /\ pool' \subseteq pool \cup {CurrentTx(e)}
    BY <1>0, <1>6 DEF LosePost, Exhausted
  <2>2. QED
    BY <1>0, <1>r, <2>1 DEF OnTop
<1>7. CASE NodeQueues(e)
  BY <1>7 DEF NodeQueues, Waits
<1>8. CASE NodeRecognises(e) \/ NodeExecutes(e)
  <2>1. /\ pc[e] = "send" /\ pc'[e] = "accepted" /\ UNCHANGED <<attempt, pool>>
        /\ \/ UNCHANGED <<ak, landed>> /\ CurrentTx(e) \in landed
           \/ Execute(CurrentTx(e))
    BY <1>0, <1>8 DEF NodeRecognises, NodeExecutes, Known, nodeVars
  <2>2. QED
    BY <2>1 DEF OnTop
<1>9. CASE NodeRejects(e)
  <2>1. /\ CurrentTx(e).counter = Counter(req[e]) /\ CurrentTx(e).nonce = nonce[e]
        /\ CurrentTx(e).strict
    BY <1>0, TxOf DEF CurrentTx
  <2>2. pc[e] = "send" /\ CurrentTx(e) \notin landed /\ ~Acceptable(CurrentTx(e))
    BY <1>9 DEF NodeRejects, Known
  <2>3. QED
    BY <2>1, <2>2 DEF OnTop, Acceptable
<1>10. QED
  BY <1>1, <1>2, <1>3, <1>4, <1>5, <1>6, <1>7, <1>8, <1>9 DEF Step, ClientStep, NodeStep

\* While one call is inside the lock, another on the same counter has no nonce yet.
LEMMA OneInside ==
    ASSUME HolderInv, NEW c \in Calls, NEW e \in Calls, c # e, SameEntry(c, e),
           req[c].strict, req[e].strict, pc[e] = "send"
    PROVE  pc[c] \notin {"block", "send"}
BY DEF HolderInv, InGuard, LockOf, SameEntry, Ended

\* So the others on a peaceful counter may go on as well.
LEMMA TurnHere ==
    ASSUME TypeOK, RecognisesResend, LedgerInv, HolderInv, ChainStep, req' = req,
           NEW c \in Calls, Peaceful(c), TurnOf(c),
           NEW e \in Calls, Counter(req[e]) = Counter(req[c]), DoneOf(e), OnTop(e), Step(e),
           pc'[e] # "error"
    PROVE  TurnOf(c)'
<1> DEFINE k == Counter(req[c])
<1>1. req[e].strict /\ Waits(e) /\ SameEntry(c, e) /\ req[c].strict
  BY DEF Peaceful
<1>2. /\ OnTop(e)'
      /\ \/ UNCHANGED <<ak, landed, pool>> /\ pc[e] # "send"
         \/ UNCHANGED <<ak, landed>> /\ pc'[e] = "send" /\ nonce'[e] = nonce[e]
              /\ pool' \subseteq pool \cup {CurrentTx(e)}
         \/ pc[e] = "send" /\ UNCHANGED <<ak, landed, pool>> /\ CurrentTx(e) \in landed
         \/ pc[e] = "send" /\ pool' = pool /\ Execute(CurrentTx(e))
  BY <1>1, OwnTurn
<1>3. \A d \in Calls \ {e} : pc'[d] = pc[d] /\ nonce'[d] = nonce[d] /\ attempt'[d] = attempt[d]
  BY OthersStandStill
<1>4. Counter(req[c])' = k /\ \A d \in Calls : nonce'[d] = nonce[d] => CurrentTx(d)' = CurrentTx(d)
  BY DEF CurrentTx, Tx, Counter
<1>5. /\ ak[k] \in Nat /\ ak'[k] \in Nat /\ ak'[k] >= ak[k] /\ landed \subseteq landed'
      /\ nonce[e] \in Nat
      /\ CurrentTx(e).counter = k /\ CurrentTx(e).nonce = nonce[e] /\ k \in Counters
  BY ChainStepKeeps, TxOf, RequestOf DEF CurrentTx, TypeOK
<1>6. OnTop(c)'
  <2>1. CASE c = e
    BY <1>2, <2>1
  <2>2. CASE c # e /\ UNCHANGED <<ak, landed>>
    BY <1>3, <1>4, <2>2 DEF TurnOf, OnTop
  <2>3. CASE c # e /\ pc[e] = "send"
    <3>1. pc[c] \notin {"block", "send"}
      BY <1>1, <2>3, OneInside
    <3>2. QED
      BY <1>3, <2>3, <3>1 DEF TurnOf, OnTop
  <2>4. QED
    BY <1>2, <2>1, <2>2, <2>3
<1>7. PoolSpent(c)'
  <2> SUFFICES ASSUME NEW t \in pool', t.counter = k
               PROVE  t.nonce <= ak'[k] \/ OnItsWay(t)'
    BY <1>4 DEF PoolSpent
  <2>1. CASE t = CurrentTx(e) /\ pc'[e] = "send" /\ nonce'[e] = nonce[e]
    BY <1>4, <2>1 DEF OnItsWay
  <2>2. CASE t = CurrentTx(e) /\ CurrentTx(e) \in landed
    BY <1>5, <2>2 DEF LedgerInv
  <2>3. CASE t = CurrentTx(e) /\ Execute(CurrentTx(e))
    BY <1>5, <2>3 DEF Execute, TypeOK
  <2>4. CASE t \in pool /\ ~(pc[e] = "send" /\ t = CurrentTx(e))
    <3>1. t.nonce <= ak[k] \/ OnItsWay(t)
      BY <2>4 DEF TurnOf, PoolSpent
    <3>2. OnItsWay(t) => OnItsWay(t)'
      BY <1>3, <1>4, <2>4 DEF OnItsWay
    <3>3. t.nonce \in Nat
      BY <2>4 DEF TypeOK, TxType
    <3>4. QED
      BY <1>5, <3>1, <3>2, <3>3
  <2>5. QED
    BY <1>2, <2>1, <2>2, <2>3, <2>4
<1>8. QED
  BY <1>6, <1>7 DEF TurnOf

\* If the node executes a transaction of its pool, it is the one on its way.
LEMMA TurnIncluded ==
    ASSUME TypeOK, HolderInv, ChainStep, req' = req,
           NEW c \in Calls, Peaceful(c), TurnOf(c), NEW t \in pool, Include(t)
    PROVE  TurnOf(c)'
<1> DEFINE k == Counter(req[c])
<1>1. UNCHANGED callVars /\ pool' \subseteq pool /\ t \in TxType /\ t.nonce \in Nat
  BY DEF Include, TypeOK, TxType
<1>2. Counter(req[c])' = k /\ \A d \in Calls : CurrentTx(d)' = CurrentTx(d)
  BY <1>1 DEF CurrentTx, Tx, Counter, callVars
<1>3. /\ ak[k] \in Nat /\ ak'[k] \in Nat /\ ak'[k] >= ak[k] /\ landed \subseteq landed'
      /\ k \in Counters
  BY ChainStepKeeps, RequestOf
<1>4. PoolSpent(c)'
  <2>1. \A s \in pool : OnItsWay(s)' = OnItsWay(s)
    BY <1>1, <1>2 DEF OnItsWay, callVars
  <2>2. \A s \in pool : s.nonce \in Nat
    BY DEF TypeOK, TxType
  <2>3. QED
    BY <1>1, <1>2, <1>3, <2>1, <2>2 DEF TurnOf, PoolSpent
<1>5. CASE ak'[k] = ak[k]
  <2>1. OnTop(c)'
    BY <1>1, <1>2, <1>3, <1>5 DEF TurnOf, OnTop, callVars
  <2>2. QED
    BY <1>4, <2>1 DEF TurnOf
<1>6. CASE ak'[k] # ak[k]
  <2>1. t.counter = k /\ Acceptable(t) /\ Execute(t)
    BY <1>1, <1>3, <1>6 DEF Include, Execute, TypeOK, TxType
  <2>2. t.nonce > ak[k]
    BY <1>1, <1>3, <2>1 DEF Acceptable
  <2>3. PICK d \in Calls : pc[d] = "send" /\ t = CurrentTx(d)
    BY <1>1, <1>3, <2>1, <2>2 DEF TurnOf, PoolSpent, OnItsWay
  <2>4. Counter(req[d]) = k
    BY <2>1, <2>3, TxOf DEF CurrentTx, TypeOK
  <2>5. req[d].strict /\ req[c].strict /\ SameEntry(c, d)
    BY <2>4 DEF Peaceful
  <2>6. CASE c = d
    BY <1>1, <1>2, <1>4, <2>1, <2>3, <2>6 DEF TurnOf, OnTop, Execute, callVars
  <2>7. CASE c # d
    <3>1. pc[c] \notin {"block", "send"}
      BY <2>3, <2>5, <2>7, OneInside
    <3>2. QED
      BY <1>1, <1>4, <3>1 DEF TurnOf, OnTop, callVars
  <2>8. QED
    BY <2>6, <2>7
<1>7. QED
  BY <1>5, <1>6

LEMMA TurnStep ==
    ASSUME TypeOK, RecognisesResend, LedgerInv, HolderInv, DistinctInv, TurnInv, [Next]_vars
    PROVE  TurnInv'
<1>0. req' = req /\ ChainStep
  BY RequestsFixed, NextIsChainStep
<1>1. \A d \in Calls : pc[d] = "error" => pc'[d] = "error"
  <2>1. ASSUME NEW e \in Calls, Step(e)
        PROVE  \A d \in Calls : pc[d] = "error" => pc'[d] = "error"
    BY <2>1, EndedStandStill, OthersStandStill DEF Ended
  <2>2. QED
    BY <2>1 DEF Next, Include, Done, vars, callVars
<1> SUFFICES ASSUME NEW c \in Calls, Peaceful(c)'
             PROVE  TurnOf(c)'
  BY DEF TurnInv
<1>2. Peaceful(c) /\ TurnOf(c)
  BY <1>0, <1>1, PeaceIsOld DEF TurnInv
<1>3. ASSUME NEW e \in Calls, Step(e)
      PROVE  TurnOf(c)'
  <2>1. CASE Counter(req[e]) # Counter(req[c])
    BY <1>0, <1>2, <1>3, <2>1, TurnElsewhere
  <2>2. CASE Counter(req[e]) = Counter(req[c])
    <3>1. pc'[e] # "error"
      BY <1>0, <2>2 DEF Peaceful, Counter
    <3>2. Peaceful(e)
      BY <1>2, <2>2 DEF Peaceful, SameEntry
    <3>3. OnTop(e) /\ DoneOf(e)
      BY <3>2 DEF TurnInv, TurnOf, DistinctInv
    <3>4. QED
      BY <1>0, <1>2, <1>3, <2>2, <3>1, <3>3, TurnHere
  <2>3. QED
    BY <2>1, <2>2
<1>4. ASSUME NEW t \in pool, Include(t)
      PROVE  TurnOf(c)'
  BY <1>0, <1>2, <1>4, TurnIncluded
<1>5. CASE UNCHANGED vars
  BY <1>2, <1>5 DEF vars, callVars, nodeVars, TurnOf, OnTop, PoolSpent, OnItsWay,
       CurrentTx, Tx, Counter
<1>6. QED
  BY <1>3, <1>4, <1>5 DEF Next, Done

LEMMA TurnInit == Init => TurnInv
BY DEF Init, TurnInv, TurnOf, OnTop, PoolSpent

\* While all calls on a counter are strict, wait and belong to one client, none is
\* ever rejected, unless one has ended in an error.
THEOREM StrictCallsTakeTurns ==
    ASSUME RecognisesResend
    PROVE  Spec => []StrictTakesTurns
<1>1. TypeOK /\ LedgerInv /\ HolderInv /\ DistinctInv /\ TurnInv /\ [Next]_vars => TurnInv'
  BY TurnStep
<1>2. TurnInv => StrictTakesTurns
  BY DEF TurnInv, Peaceful, TurnOf, OnTop, StrictTakesTurns
<1>3. QED
  BY <1>1, <1>2, TurnInit, TypeCorrect, LedgerAlways, HoldersAlways, DistinctAlways, PTL DEF Spec
=================================================================================
