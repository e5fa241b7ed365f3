# near-kit-py: specification and proofs

TLA+ specifications of the parts of near-kit-py (`src/near/`) where order,
concurrency and failure matter, the TLC configurations that check them on small
instances, and TLAPS proofs of the main results for every instance.

## The system

near-kit is a client library for the NEAR blockchain. A process holds one or more
clients (`Near` on threads, `AsyncNear` on asyncio tasks), every call of a client is
one or more JSON-RPC requests to a node, and the node is shared with everyone else.

| component | state it keeps | operations | interacts with |
|---|---|---|---|
| `send_transaction` (`client.py:261`) | per call: attempt, nonce, last error; per client: strict locks | fetch the nonce, reserve, fetch a block, sign, send, retry | NonceCache, RPC transport, node |
| `NonceCache` (`_core.py:265`) | highest nonce per key or gas-key lane | `key`, `has`, `reserve`, `sync_to` | every call of one client |
| RPC transport (`rpc.py:202`) | per call: attempt, last error | `call` with retries and backoff, `_handle`, `classify_rpc_error` | node; its errors decide what the callers do |
| async client (`aclient.py`) | as the sync client, with asyncio locks | the same | the same |
| reads and what sends return (`client.py:110-258`, `_core.py:78-262`, `rpc.py:153`) | none | each method: choose a block, one RPC, make something of its result or exception | transport, a chain that moves on |
| tokens and NFTs (`client.py:340-457`) | metadata caches | views, `ft_transfer` and `ft_transfer_call` with registration | transport, `send_transaction` |
| delegate actions (`client.py:477`, `delegate.py`) | none | `sign_delegate`, `send_delegate` | transport, a relayer's client |
| configuration (`_core.py:32-75`, `keys.py:331`) | none | resolve network, URL, signer; `from_file`, `with_signer` | environment, credentials files |
| actions and wire (`actions.py`, `wire.py`) | none | build actions, encode transactions, delegates, messages | whoever signs and verifies |
| NEP-413 (`nep413.py`) | none | `sign_message`, `verify_message` | two clocks |
| NEP-616 (`state_init.py`) | none | canonical data, account ids | actions |
| units (`units.py`, `tokens.py`) | none | parse, print, arithmetic | every amount of every action |
| sandbox session (`_pytest_plugin.py`) | per pytest session: container, port, attempts | reuse or start a container, wait, clean up | docker, ports, other sessions |
| sandbox helpers (`testing.py`) | per call: start height, deadline | `fast_forward`, `patch_state`, `sandbox_signer` | transport, a chain that moves on its own |
| keys, models, errors | none | declarations and library calls | libraries |

### What is hard, and what makes each part correct

* **Nonces.** Calls of one client overlap: `has()`, the fetch, `reserve()` and the
  post are separate steps. No nonce may be signed twice, an entry may never move
  back, and a call may not lose its attempts to mistakes of its own.
* **Resending.** A lost answer makes the transport post the same bytes again, and a
  rejected nonce makes the client sign a second transaction. What the caller is
  told must be true: executed at most once; a success was executed;
  `InvalidNonceError` means that nothing was executed and nothing will be.
* **Strict sends.** They exclude each other per key, must see what the one before
  did, and must free the lock on every way out.
* **Errors.** The node's decision about a request ends it; only transient failures
  are tried again; a rejected nonce must be recognised whatever HTTP status it has.
* **Reads.** Each method makes its own thing of a result or of an exception. "It does
  not exist" may only be said when the node said so, a missing key comes in two
  forms, a read must see what the caller has just written, and of the outcomes of a
  transaction the first that failed must be the one reported.
* **Tokens.** What a transfer looks up (metadata, registration, deposit) may change
  before it is executed, by other calls of the same client too. A transfer that asked
  for registration fails only if someone undid what it saw; what its caller is told is
  true, although a transfer is several receipts and an answer may come before the last.
* **Delegates.** Signing reserves nothing, and the views trail the chain. A delegate
  is done at most once, never accepted after its time, and is refused only for a reason.
* **Units.** An amount is printed as it can be read back, if its symbol is one word, and no chain of arithmetic
  turns raw units of one token into an amount of another.
* **Signing.** What is signed depends on the configuration, on defaults, and on one
  byte format per kind of thing. A signature must be good for what was asked and for
  nothing else; no format may be taken for another; a message lives its time on the
  verifier's clock; and a client that cannot sign must have had no key.
* **Sandbox helpers.** They poll a chain that also moves by itself, that other helpers
  move, that trails in finality or stops, and a repost may do the work twice. What they
  promise holds when they return, and they end.
* **Sandbox sessions.** Ports are free only "a moment ago", `docker run` can fail
  half way, Ctrl-C can come at any time. No session leaks its container or removes
  another's, and each ends.

## Modules

| module | what it is |
|---|---|
| `NonceCache` | operators for the methods of the cache; each is one atomic step |
| `SendTransaction` | concurrent calls, caches, locks, the transport as they see it, the node |
| `SendOnce` | the abstract promise to the callers of `send_transaction` |
| `MCSendTransaction` | constants for the runs of `SendTransaction` |
| `SendTransactionProofs` | type correctness, cache monotonicity, nonce uniqueness, strict exclusion; execution at most once, the step to `SendOnce`, charged rejections, distinct successes, strict turns |
| `AsyncSendTransaction`, `MCAsyncSendTransaction` | the same calls as asyncio tasks that may be cancelled |
| `AsyncSendTransactionProofs` | the same results for the tasks |
| `RpcTransport` | one RPC: posts, classification of answers, retries, backoff |
| `ClientCalls`, `MCRpcTransport` | one method call of a client over `RpcTransport` |
| `ClientCallsProofs` | what ends a call and as what; what a method may say of it; a read sees the caller's own writes |
| `ExecutionReport` | what a send that waits makes of the outcomes it is answered |
| `TokenTransfer`, `MCTokenTransfer` | the metadata cache, registration, `ft_transfer`, `ft_transfer_call`, their receipts; uses `SendOnce` |
| `Delegates`, `MCDelegates` | users sign delegates, relayers submit them, receipt by receipt; uses `SendOnce` |
| `DelegatesProofs` | the three results about delegates |
| `ClientConfig` | operators for how a client is made: network, URL, signer |
| `Wire` | the Borsh schema: the bytes of every type that is signed over |
| `Actions` | operators for the action constructors |
| `Signing`, `MCSigning` | a configured client signs one thing, a verifier checks a claim about it |
| `SigningProofs` | the encoding reads back one way only; what a signature is good for; the life of a message; who cannot sign |
| `Amounts`, `MCAmounts` | parsing, printing and arithmetic of amounts and gas |
| `TokenProofs` | amounts read back as printed; units do not mix; registration, results and cache of transfers |
| `SandboxSession`, `MCSandboxSession` | the `near_sandbox` fixture of parallel sessions |
| `SandboxSessionProofs` | sessions clean up after themselves and touch nothing else |
| `SandboxTesting`, `MCSandboxTesting` | `fast_forward` and `patch_state` on one sandbox |
| `SandboxTestingProofs` | what the helpers promise on return and on a timeout |

An operator whose comment begins with "Defect:" is a plausible bug in the definition
that follows it. No specification uses it; it is what `PROJECT.json` "mutants" puts
in that definition's place to show that a property would notice.

### SendTransaction

A call's `pc` walks through the body of the method:

| pc | code | leaves by |
|---|---|---|
| `start` | `with guard`, the cache check (286-301) | `AcquireLock` (strict), `CheckCache` |
| `fetch` | `_fetch_nonce` (297, 302) | `FetchOptimistic`, `FetchFinal`, `Fail` |
| `reserve` | `NonceCache.reserve` (303) | `Reserve` |
| `block` | fetch a block, build, sign (304-315) | `FetchBlock`, `Fail` |
| `send` | `send_tx` (317-323), the transport's posts | the node's actions, `LosePost`, `Fail` |
| `accepted` | `sync_to`, failure check, return (332-335) | `Return` |
| `rejected` | `except InvalidNonceError` (324-331) | `Retry`, `GiveUp` |

The other variables of a call are its locals: `attempt`, `told` (`on_chain_nonce`,
then `ak_nonce`, which is also `strict_base`), `nonce`, and `tries`, the posts the
transport has lost for the current transaction. `signed` is history. `cache` and
`lock` belong to each client. `ak`, `landed` and `pool` are the node.

One step is one access to something shared: a critical section of the cache, a lock,
or one RPC. What a call computes in between is local.

Abstractions:

* The node, its views and the network are external, modelled from what the client
  relies on. A monotonic transaction needs a nonce above the counter, a strict one
  the next. The "optimistic" view is current. The "final" view may trail by up to
  `FinalityLag` values. The node decides a `send_tx` and answers in one step, and a
  lost post is either taken in (and executed or dropped later) or not.
* `RecognisesResend` says that the node answers a repost of an executed transaction
  with that transaction's outcome, as nearcore does for a known hash.
* `Silent` lets the node report `InvalidNonce` without `ak_nonce` (`client.py:326`).
* Calls that sign the same nonce and payload produce the same transaction: the
  block hash, which only tells blocks apart, is the same for all of them. This makes
  transactions of clones coincide, the worst case for `AtMostOnce`.
* `Fail` stands for every exception that is not `InvalidNonceError`. It bounds
  nothing else: it may strike at each RPC, `MaxFaults` times in a behaviour.
* Arguments are checked before any state is touched; the requests are those that
  pass. `KeyboardInterrupt` inside a call is left out.

### AsyncSendTransaction

It extends `SendTransaction`: variables, most steps and all properties are the sync
client's. `StartMonotonic` replaces `CheckCache`, because a task that finds its cache
warm reserves before its first await. `Cancel` is `CancelledError` at an await: while
the task waits for the lock, for an answer, or for its turn after the answer came. A
cancelled post may still reach the node. `asyncio.Lock` wakes its waiters in order;
here any of them may be next, so nothing that is checked depends on that order. The
backoff sleeps inside the transport are part of `send`.

### RpcTransport

`Post`, `Receive`, `Lose` and `Sleep` are the loop of `call`; the async loop
(`rpc.py:267`) is the same text with `await`. An answer is an HTTP status with a body:
no JSON, JSON that is not an object, an object whose `error` is not an object, a
result, or an error with the names and the `InvalidTxError` that `classify_rpc_error`
looks at. `SendTransaction` uses the result: any number of transient failures up to
`Retries`, then the last one is raised; a decision of the node ends the call.

### ClientCalls

It extends `RpcTransport` by the method that made the RPC. `op` is the method, what it
is about, and the `block=` of the caller; `View` is the block it asks for
(`_block_ref`, and the final head for `access_key`). `Refuse` is a `ValueError` before
anything is posted; the other steps are the transport's, and the one that ends it ends
the method too: `FromResult` is what it makes of a result, `FromException` of an
exception, and `AsExists` what the two `..._exists` methods make of either. A result
has one of the forms a method tells apart, or another shape than asked for.
`AfterExecution` is `raise_for_execution_failure`. Blocks come in between, and the node
answers from the head or the final head of that moment. `content`, `wrote` are history.

The methods a send or a delegate is built from (`_fetch_nonce`, `_fetch_lane_nonce`, a
block) appear here with what they do with an answer, and in `SendTransaction` and
`Delegates` as the step that gets it.

### TokenTransfer

A call walks through `ft_metadata` (`start`, `view`, `store`), `as_token_amount`
(`parse`), `_registration_actions` (`registration`, `bounds`) and `send_transaction`
(`send`), one step for each access to the shared cache and each RPC. `ftMeta` is the
cache of one token, `deposit` the action that `_registration_actions` adds. The sends
are not modelled again: `Sends == INSTANCE SendOnce`, and whether a transaction is taken
by the chain, and when, is as open as `SendOnce` leaves it (`ImplementsSendOnce` justifies
this).

What becomes of a transaction is derived and not assumed. `Include` takes it,
`Execute` is the receipt with its actions, which are executed together or not at
all (`Actions`, `Committed`); for `ft_transfer_call` there follow the receiver's
`ft_on_transfer` (`OnTransfer`), which takes the tokens, returns them or fails, and
the contract's `ft_resolve_transfer` (`Resolve`), which gives back what the
receiver still has. `outcome` records how each of them ended. `Answers` are the
outcomes a node may answer: for `NONE` none, for `INCLUDED` those of any receipts
that have run by then, for every longer wait (one value, `EXECUTED`) all of them;
the transaction's own outcome is a success, and so the failure is only in a receipt
or in the status. `Conclude` (`ExecutionReport`) is `raise_for_execution_failure`
on such an answer, and `End` ends the call by it, or by an error.

The contract keeps its accounts, metadata, deposit and the sender's tokens, and
others change them at any time. `no_tokens` stands for every refusal that has nothing
to do with the receiver's registration, a sender who is not registered included.
`panic`, `moved`, `added` and `excused` are history.

### Delegates

`FetchNonce` and `Sign` are the two views of `sign_delegate`, each of which may trail
the chain by `FinalityLag`; either is skipped when its argument is given.
`SendDelegate` is a relayer's call, again by `SendOnce` and `Conclude`. Its transaction
is taken (`Include`); a receipt at the user's account checks the delegate and takes its
nonce, if that is above the key's and its time is not over, or refuses it (`Execute`); the
delegate's own actions are the next receipt (`RunActions`). The user's other transactions
(`OwnSend`) and blocks (`Block`) come in between.

### ClientConfig, Wire, Actions, Signing

`ClientConfig` follows `resolve_network`, `resolve_rpc_url` and `resolve_signer` from
the arguments, the environment and the credentials files, `from_file`, `with_signer`
and the `signer=` of a call. An absent and an empty text are one value, as for Python's
`or`. A secret is its prefix, its length, its seed and, for 64 bytes, the seed of its
public half: what the key constructors look at.

`Wire` has an operator for each type of the schema, which writes the fields in the order
they are declared and a variant as its place and its fields. Integers, texts, options and
vectors are written as the library does it (external). A text or a string of bytes is a
name of its bytes, `Utf8`; lanes, tags and lengths keep their width. `a ++ b` is one string
of bytes after another. `Actions` turns the arguments of each constructor into a value, or
into an error. `MaxNumber` bounds the numbers and lengths in use below 2^31, TLC's largest
integer: the higher bytes of a wider integer are zero.

`Signing` puts them together. A behaviour makes a client, signs one transaction,
delegate or message, lets time pass for a message, and verifies one claim about what was
signed. A hash is its preimage and a signature is the signed bytes with the key, so the
module speaks of what is signed and not of how hard it is to forge. A verifier has a
clock of its own, in half milliseconds, because the timestamp is cut to whole ones.
Transactions are verified by their bytes, as a node does; messages by `verify_message`.

### Amounts

A text is a whole number, the digits of its fraction and a unit. Of the patterns that
take it apart, what the symbol may be is modelled (`Named`): `_TOKEN_RE` reads it as one
word, or none, while `FTMetadata.symbol` is any text. `Spaced` are the tokens whose symbol
has a space. `Parse` and `Shown` translate the conversions for any radix and scale. A behaviour is a program that combines a value with others:
`UnitOf` says whose method Python calls (the subclass's, on either side, if it has
one), `Rejected` when that method raises, `Wrap` what the result is. `sources` and
`hidden` are history. `Gas` defines no arithmetic: in it gas is an int.

### SandboxSession

A session is a `pc` through `_sandbox_session` and `_create_container`. Docker's
containers carry their name, port and, as history, their owner. `RunFails` may or may
not leave a created container, `Interrupt` is Ctrl-C anywhere, `Exit` is a container
that dies, `Grab` and `Release` are other programs at the ports. A removal
always succeeds: `_remove_container` runs `docker rm -f` with `check=False`, and if docker
itself refuses, the container stays and nobody is told, which `NoLeak` does not cover.

### SandboxTesting

A helper's `pc` walks through the request and the polling loop; `fast_forward` reads
the height before its request and `patch_state` after it. `TakeIn` is the node's side:
heights it owes, patches for its next block. `Lose` fails a post before or after
`TakeIn`, so a repost may do both twice. `Produce` makes a block, with or without
some of the heights owed, and the final block follows or does not. `Tick` is the clock
of every helper that polls.

## Runs

| run | instance | asks |
|---|---|---|
| `StrictSends` | 3 strict calls, one client, a failing payload, 2 faults, silent node | `StrictTakesTurns`, `EveryCallEnds` |
| `MixedSends` | 2 calls of any kind: 2 clients, 2 counters, both modes, both waits, 2 faults, lag 2 | `TypeOK`, `AtMostOnce`, `InvalidNonceNeverLands`, `SuccessesAreDistinct`, `CacheNeverGoesBack`, `KeepsPromise` |
| `AsyncSends` | 3 tasks of both modes, one client, lag 1, cancellation anywhere | `NoNonceReuse`, `RejectionsAreCharged`, `StrictExclusion`, `KeepsPromise`, `EveryCallEnds` |
| `FourSends` | 4 ordinary calls, no faults, no lag | violates `CollisionsNeverSurface` |
| `StrictNoWait` | 2 strict calls with `wait_until="NONE"` | violates `StrictSendsAllLand` |
| `RpcCalls` | every method, target and block; 2 retries, every sequence of answers; 2 blocks, lag 1, up to 2 receipts | `DecisionEndsCall`, `RejectedNonceIsReported`, `TransientOnlyWhenSpent`, `ExistsIsTrue`, `MissingKeyIsNamed`, `ReadsOwnWrites`, `FirstFailureIsReported`, `ForeignErrorsHaveACause` |
| `TokenTransfers` | 2 calls of 5 kinds (both methods, all waits, registering or not), one receiver, tokens for one transfer, one change of metadata and of the deposit | `RegisterWorks`, `ResultsAreTrue`, `CachedForLife` |
| `DelegateRelay` | 2 signings, 2 submissions of every wait, given or default nonce and expiry, lag 1 | `OneReturnPerDelegate`, `RefusedForAReason`, `NeverRunsLate` |
| `SignedPayloads` | every configuration with one thing to sign, everything to sign with one configuration, every pair of a request and a claim | `SignatureMeansOneThing`, `DomainsApart`, `MessageLivesItsTime`, `ReadOnlyForAReason` |
| `AmountArithmetic` | NEAR, gas, three tokens, one with a symbol of two words, ints up to 40 in base 2 | `ShownReadsBack`, `UnitsKeptApart` |
| `SandboxSessions` | 2 sessions, 3 ports, another program with one of them | `NoLeak`, `RemovesOnlyItsOwn`, `EverySessionEnds` |
| `SandboxHelpers` | 2 helpers, 4 heights, 2 faults, one repost, one unit of time | `SkipsAtLeast`, `PatchIsApplied`, `TimeoutIsTrue`, `EveryHelperEnds` |

Bounds. Three strict calls give a holder, a waiter and one that has
ended in an error; three tasks a holder, a waiter that is cancelled and one that must
not get in because of it. Three ordinary tasks reach a retry after a collision; `GiveUp`
after collisions alone takes four calls, and `FourSends` is that instance. Two calls of
every kind already meet in every pair of kinds; more
calls of mixed kinds are covered by the proofs. A final view that trails by two lets one
of them lose all three attempts and give up. `Retries = 1` gives a first post and
a repost; `MaxFaults = 2` lets a call lose both, or two calls one each. Lane 0's
counter starts above the access key's, so a confusion of the two would show.

`RpcCalls` has one status and one name of every kind the code treats alike, enough
retries for two different sleeps, and two receipts, so that an outcome can be first,
in between or last among those that failed. Two transfers to one receiver are a call
and the one that registers, stores or takes the last tokens before it, and one of them
can be refused after its deposit;
two submissions are one that runs a delegate and one that repeats it, or two
delegates of one nonce. In `SignedPayloads` the requests differ from each other in one
field, variant, order or option each, at least two values of every field that is
signed; the clocks differ by -2 to 1 half milliseconds, the window is 2
milliseconds and the clock runs to 3, so each of its ends is met from both sides. In
`AmountArithmetic` one NEAR is 16 units, dust is below 4, gas has scale 8
and the tokens have scales 4 and 16, so 40 covers fractions of every length on both
sides of the dust limit and whole numbers above one. In
`SandboxSessions` three ports are one more than what the other session and the other
program can hold, so the OS always has a free one, and they can still collide. In
`SandboxHelpers` one helper may ask for two of the four heights, so the chain can get
there by itself, by a skip, by the other's request or a repost, or stop short of it.

`FourSends`, `TokenTransfers` and `DelegateRelay` use the symmetry
of their calls (and signings), which is sound there: none of their properties is a
liveness property, and no definition tells one call from another.

Fairness. `EveryCallEnds` assumes that a thread which can run runs, and that every
post is answered or times out (httpx has a timeout on every request, `rpc.py:238`).
Nothing is assumed of who gets a lock first. For tasks it is the event loop that
resumes whoever can run; nobody has to cancel anything, and a task that is never
cancelled still ends. `EverySessionEnds` assumes that docker
and the tests come to an end and that other programs give a port back.
`EveryHelperEnds` assumes that threads run, that a request is answered or fails, and
that time passes; blocks need not come.

### What the violation runs show

* `FourSends`: three attempts (`client.py:292`) are not enough for four concurrent
  sends on one key. If the node executes the highest nonce first each time, a call
  is rejected three times and raises `InvalidNonceError`. `README.md:126` promises
  that collisions are retried automatically.
* `StrictNoWait`: with `wait_until="NONE"` the strict lock is released before the
  transaction is executed (`client.py:332`). The next strict send fetches the same
  nonce, and one of the two is dropped although both calls returned. `README.md:269`
  promises that all of them land.

Limits that passing runs state in their properties:

* `CachedForLife` holds unless several threads find the metadata cache cold together.
  Then the last one to store replaces what the client has already served
  (`client.py:350`), with other metadata if the contract changed in between.
* `UnitsKeptApart` holds unless a unit was hidden: a result below zero is a plain int,
  and so is an int divided by an amount (`__floordiv__` and `__mod__` have no reflected
  forms), although `tokens.py:54` says that the operators preserve the type. Gas is an
  int to every amount: added to one it is taken in silently, and before one it turns the
  amount into an int.
* `ShownReadsBack`: an amount of a token whose symbol has a space is printed as a text that
  its own parser refuses (`tokens.py:23`); a string without the symbol is read.
* `ResultsAreTrue` says nothing positive of a return with `wait_until` `NONE` or
  `INCLUDED`: the receipts may still run, and fail. `ContractPanicError` after an
  `ft_transfer_call` may mean that only the receiving contract failed: then the receiver
  stays registered, and the tokens come back as far as it still has them.
* `OneReturnPerDelegate` is likewise about waits that include the execution; a relayer that
  waits for `INCLUDED` only may be told success for a delegate that is refused later.
* `ForeignErrorsHaveACause`: `rpc.py:4-5` promises typed errors only. An answer that
  is JSON and no object (`rpc.py:228`), an error that is no object, a result of
  another shape, and a lane the key does not have raise what Python or pydantic raise.
* `ReadsOwnWrites` leaves `access_key` out: it reads the final head
  (`_core.py:109`), and may miss what the caller has just done. `PatchIsApplied` is about
  the head for the same reason: a final read after `patch_state` may miss the patch.
* `DomainsApart` assumes account names of 2 to 64 bytes, as the protocol has them. The
  first bytes of a transaction are the length of its signer's name; nothing in
  `build_transaction` checks it.
* `MessageLivesItsTime` says nothing of a verifier whose clock is behind: a negative age
  is refused. The timestamp is cut to whole milliseconds, so the end of the
  window comes up to one millisecond early; in the half milliseconds of the model's clocks
  that is one tick, and with the code's finer clock almost two. `verify_message` does not tie the account to the key, nor does it remember
  what it has seen; both are its caller's affair.
* `ReadOnlyForAReason` says where a signer may come from, not that its parts belong
  together: the account may be an argument and the key a variable of the environment.
  `from_file` ignores `NEAR_NETWORK`, while `NEAR_RPC_URL` still replaces the URL.

## Proofs

`SendTransactionProofs` holds for every number of calls, clients, keys and lanes,
every lag, every number of retries and faults, a silent node or not. It uses only
`SendAssumption` and `NoneAssumption`, which say what the constants are.

* `TypeCorrect`: one lemma for the steps of a call, one for the node's answers, one
  for `Include`.
* `CacheMonotone`: every step that writes an entry writes `NextNonce` or `SyncTo`,
  and neither is below the old value (`ReserveIsFresh`, `SyncIsUpperBound`).
* `NoncesNeverReused`: `NoNonceReuse` is not inductive, because a nonce is reserved
  before it is signed. The strengthening says that what a monotonic call claims (has
  signed, or is about to) is never above its cache entry, and that claims of
  different calls are disjoint. `Reserve` claims a number above the entry; nothing
  else claims; the entry never moves back (`CacheMonotone`).
* `StrictCallsExclude`: whoever is inside the guarded block is the lock's holder.

The results about what is executed assume `RecognisesResend` too, and need it: a node that
forgot a transaction would reject its repost as `InvalidNonce` after executing it.

* The invariant `OnceInv` has three parts for each call. `OthersDead`: every
  transaction the call signed is dead, that is not executed and no longer acceptable
  since the counter has passed its nonce; only the current one may be alive, and not
  once it is rejected. `StrictBase`: a strict call's nonce is at most one above the
  counter, and what a rejected call was told does not exceed it, so that a rejection
  means that the counter has passed. `AcceptedLanded`: an accepted call that waits is
  executed. Counters only grow (`ChainStep`), so the dead stay dead.
* `ExecutedAtMostOnce` and `InvalidNonceIsFinal` follow from it.
* `ImplementsSendOnce`: `waiting` maps to the calls that wait, `result` to how a call
  ended, `executed` to the calls of which a signed transaction is executed. Every
  step maps to `ExecuteFor`, to `End` or to a stutter.
* `RejectionsCharged`: the property bounds attempts by executed transactions of others,
  and is not inductive, because which transactions a rejection may be charged to depends
  on where the call is. `Horizon(c)` is how far a call in its place has seen its counter:
  one below its nonce once it has one, what it was told when it is rejected, the cache of
  a monotonic call that looks again, and otherwise the counter itself. `Charge(c)` counts
  the executed transactions of others up to the horizon, `Spent(c)` the attempts lost,
  the one being lost included, and `Free(c)` is the one a monotonic call may lose to a
  trailing view. `Charged` says `Spent <= Charge + Free`, and that the horizon is at least
  the counter's first value once the free attempt is gone; `Informed` says that a call
  that starts has lost nothing and that a rejected monotonic one was told the counter.
  The node rejects a nonce only when the counter has passed it; `LedgerInv` (the counter
  stands at a transaction of the ledger, unless nothing was executed) finds the
  transaction that did, and it is a new one because it lies beyond the old horizon.
  `OneMoreCharge` is the step from a set to one with another member, from the library's
  theorems about cardinality.
* `SuccessesDistinct` needs no assumption on the node. Calls with the same transaction
  share a counter, a client and a mode. Two monotonic ones are excluded because their
  claims are disjoint (`ClaimInv`). Two strict ones that wait (`StrictPair`) are excluded
  because the second gets the lock only after the first has ended (`HolderInv`), and what
  it then fetches or is told is not below what the first has landed (`Past`, `PastInv`).
  `DoneOf` ties a success to its nonce: it was signed and, if the call waited, executed.
* `StrictCallsTakeTurns`: as long as a counter is `Peaceful` (all its calls are strict,
  wait, share a client and none ended in an error), whoever holds the lock has the only
  transaction that is on its way (`PoolSpent`, `OnItsWay`), and what it has fetched is the
  counter itself (`OnTop`). So its nonce is the next one and is not rejected.

`AsyncSendTransactionProofs` proves the same of the tasks. A step of a task is a step
of a call, a start with a warm cache (`StartWarm`) or `Cancel` (`TaskCases`,
`StartCases`); the lemmas about calls cover the first, and the other two are added to
each invariant: a warm start claims a fresh nonce, a cancelled task keeps its claim
and frees a lock only if it is the holder, and both leave the chain alone. Neither loses
an attempt, so the charges stand; a cancelled task is one that ended in an error, so its
counter is no longer `Peaceful`.

`ClientCallsProofs` is about `CallSpec` for any number of retries, any statuses and names.

* `DecisionsEndCalls`, `RejectedNoncesAreReported`: `DecisionsAreKept` shows by cases that
  `Handle` never makes a transient failure of a decision. The invariant `Heard` says that
  an answer that came either ended the call, as what `Handle` made of it, or was transient.
* `ReadsSeeOwnWrites`: the invariant `Fresh` adds to the property that the caller's last
  transaction is not above the head. `BlockRef` makes a call without a block ask for the
  head, so what it is given is not below that transaction.
* `TransientWhenSpent`: `Counted` says at each point of the loop how many posts were made
  and that the delays slept add up to `2 ^ attempt - 1`. That powers of two double
  (`PowersDouble`) is proved by counting the subsets of `1 .. n + 1` with and without
  `n + 1`: the provers know no exponentiation, but the library counts subsets.
* `ExistenceIsTrue`, `MissingKeysAreNamed`, `FirstFailuresAreReported`,
  `ForeignErrorsHaveCauses`: `Told` ties what a call has given to where it comes from: bad
  arguments before any post, the result that ended the transport, or its exception.
  `HandledAs` and `ErrorHandledAs` say which answers are handled as which exception; the
  rest is the case analysis of each method. `FirstFailure` needs that a set of naturals
  with a member has a least one (`LeastOf`). `OutcomeAssumption` and `ResultAssumption` say
  that `None` is not an answer, an exception or a result.

`SandboxTestingProofs`: any number of helpers, any blocks, limits, faults and heights. The
invariant has a part for each helper, `Knows(h)`, and relates its `pc` to the chain. The
one that carries the proof is about patches: between the node's taking the patch in and
the return, the patch is queued or applied, and as long as it is only queued, the final
block is the one the helper started from. A block that moves it past the start has
applied the queue (`final <= head`).

`SandboxSessionProofs`: any number of sessions, ports and other programs. A container's
name begins with its owner. `Holds(s)` says that while a session lives, its containers
all have the name of its last run, and it has recorded them or is at a step that removes
them; so the removal by name at the end removes all of them, and those of nobody else.

`DelegatesProofs`: any lag, expiry, number of delegates, submissions and relayers.
`Follows` relates a signed delegate to what its views showed, `Explained` what became of
a submission to the key's nonce and the height, `Informed` what a submission is told to
what became of it, `RunsOnce` that a delegate is accepted at most once: its nonce is used
up then, and the key never moves back. `ConclusionsAreTrue` is the argument for `Informed`:
what `Conclude` makes of any answer, an early one too, agrees with the receipts that have
run; a failure among them stays, and an answer to `EXECUTED` has all of them.

`TokenProofs`, about `Amounts`: any radix, scales, tokens and bound. The invariant
`UnitsInv` says that a value whose unit was never hidden has no source of another unit, and
that a plain int has none at all; `ResultUnit` is the case analysis of whose method Python
calls. A symbol with a space never reads back (`SpacedIsRefused`). For the other units
of `ShownIsReadBack`, `Power` and what digits stand for are recursive functions. That
`Power` exists (`GoesFar`, `GoesOneWay`) and what holds along the digits is shown by
`AllNumbers`, an induction over a set of numbers: the first `i` digits stand for `n` without
its last ones (`DigitsAre`), and zeros that are stripped stand for nothing (`StrippedReads`).

`TokenProofs`, about `TokenTransfer`: any number of calls, receivers and changes of the
contract. `TransferAssumption` says what the constants are.

* `RegisteringWorks`: `Provided` says that a call that has looked and is not excused finds
  the receiver registered or attaches a deposit that is enough; other transfers only
  register more (`ActionsRegister`), so they take nothing from it.
* `TransferResultsAreTrue`: `Recorded` ties the outcomes of a transaction's receipts to
  what it has done: as long as its actions have not run or were refused it has moved nothing
  and registered nobody (`ExecuteCommits`), and `ft_on_transfer` only runs after the tokens
  have moved. `Shows` ties what a call was told to the outcomes; `ConclusionsAre` derives it
  from `Conclude` and the answers a node may give, and a receipt runs once, so it stays true.
* `MetadataIsCachedForLife`, an action property: `OneFills` says that unless two calls raced,
  at most one fills the cold cache and none does once it is warm.

`SigningProofs`: any programs, files, accounts, keys, texts and numbers, any number of
actions in a request, entries in a state init and method names of a key. `Utf8Assumption`
says that different texts have different bytes and that nothing in use is larger than
`MaxNumber`; `SigningAssumption` that keys, the hash and the random bytes are bytes and names
have 2 to 64 of them; `ProgramAssumption` that a program is configured with accounts and keys
there are.

* The client and the protocol: `ProtocolInv` says that a client is what its configuration
  makes of it, that what is signed is what it was asked for, by the signer it chose, with a
  nonce filled in, and that a verification was made of that, at a later time, with the result
  `Result` gives. `NoKeyForAReason` is then the case analysis of `ResolveSigner`, and
  `MessagesLiveTheirTime` the arithmetic of a timestamp that is cut to whole milliseconds
  (`AgeIsRoundedUp`).
* Reading one way: for each type a lemma `...Reads` says that from the bytes of a value with
  any bytes after them both the value and the rest are determined, so that types can be put
  one after the other. Fixed widths are cut off (`Cut`); a text has its length in front; an
  option, a variant or an action has its tag in front. A vector is the case that needs an
  induction: what the first `n` elements are determined by is shown for every `n` by
  `AllNumbers`, which speaks of a set of numbers and not of a predicate. A tag that two
  variants shared, a field written before its length, or a lane cut to a byte would break
  one of these lemmas.
* `DomainsAreApart`: the first byte is enough (`FirstByte`, `FirstBytesDiffer`).
* `SignaturesMeanOneThing` has two directions. The same bytes mean the same: the lemmas
  above, per kind of thing (`SendsAgree`, `DelegatesAgree`, `MessagesAgree`), and the kinds
  are told apart by the first byte (`KindsDiffer`). The same meaning has the same bytes: the
  entries of a state init have one sorted order. That there is one (`LinedUp`) is shown by
  giving each entry its rank, the number of those not after it; that there is only one
  (`CanonicalIsUnique`) by the order being strict and total (`BeforeIsStrict`,
  `BeforeIsTransitive`, `BeforeIsTotal`).

Only model-checked: the liveness properties `EveryCallEnds`, `EverySessionEnds` and
`EveryHelperEnds`, because the prover has neither fairness nor ENABLED.

## Not modelled

* Reading bytes back (`from_borsh`): a library's work, driven by the same declarations.
* Cryptography: signatures, key derivation, seed phrases, and the Keccak hash that makes
  the account id of a deterministic account. Equal states have equal bytes
  (`SignatureMeansOneThing`), which is what the id depends on.
* `validate_account_id`, the patterns of amounts but for the symbol, the `Decimal` views, what pydantic does
  at the boundary; the fields of the models; texts of exceptions and logs.
* The NFT methods: a cache of the same form as `ft_metadata`'s, or no state at all. Of a
  receiving contract only what `ft_on_transfer` answers; the gas that `ft_transfer_call`
  attaches and its refusal of a bad `gas` argument.
* `KeyboardInterrupt` in the middle of a sync call.
* That tokens with the same symbol and decimals are the same to `TokenAmount` whatever
  their contract is.

## Plan

1. Done: `NonceCache`, `SendTransaction`, `SendOnce` and their proofs;
   `RpcTransport`; `SandboxSession`.
2. Done: `AsyncSendTransaction`, its run and its proofs.
3. Done: `TokenTransfer` and `Delegates` on top of `SendOnce`; `Amounts`.
4. Done: `ClientCalls` over `RpcTransport`; `SandboxTesting`; gas in `Amounts`.
5. Done: `ClientConfig`, `Wire`, `Actions`, `Signing`.
6. Done: proofs about `ClientCalls`, `SandboxTesting`, `SandboxSession`, `Delegates`,
   `Amounts`.
7. Done: proofs of the remaining safety properties of `SendTransaction`,
   `AsyncSendTransaction`, `ClientCalls` and `RpcTransport`; of `TokenTransfer`.
8. Done: proofs about `Signing`, with the encoding as operators that can be proved about,
   and about what amounts are printed as. Every safety and action property of the runs
   has a theorem.
9. Done: the receipts of transfers and delegates, with the report about them
   (`ExecutionReport`) in place of an assumption; `ft_transfer_call`; symbols of tokens.
