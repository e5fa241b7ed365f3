----------------------------- MODULE TokenTransfer -----------------------------
(* Near.ft_transfer and ft_transfer_call of one token (client.py, tokens.py):  *)
(* concurrent calls of a client, and of its clones, which share the metadata   *)
(* cache.  A call reads the token's metadata, parses the amount by it, looks   *)
(* whether the receiver is registered and sends one transaction; other people  *)
(* change the contract meanwhile.  A transaction that the chain has taken runs *)
(* later, receipt by receipt.  What a call may expect of send_transaction is   *)
(* what SendOnce promises: these modules meet there.                           *)
(* nft_metadata has a cache of the same form.                                  *)
EXTENDS Integers, ExecutionReport

CONSTANTS
    None,
    Calls,
    Receivers,
    Requests,       \* the arguments that a call may be given
    MaxVersion,     \* bound: how often the contract's metadata changes
    MaxMinimum,     \* bound: how high the storage deposit can rise
    MaxTokens       \* bound: of the sender's tokens, in transfers

Versions == 0 .. MaxVersion         \* stands for a symbol with its decimals

\* How a receipt ends, and why the contract refuses (external).  "no_tokens" stands
\* for every reason but the receiver's registration.
Fates == {"ok", "unused", "failed"}
Panics == {"no_tokens", "low_deposit", "not_registered"}

\* amount: None is a string, a version is a TokenAmount made with that metadata.
\* wait: "EXECUTED" stands for every wait_until that waits for the receipts too.
ASSUME TransferAssumption ==
    /\ Requests \subseteq [method : {"ft_transfer", "ft_transfer_call"},
                          receiver : Receivers, register : BOOLEAN,
                          amount : Versions \cup {None},
                          wait : {"NONE", "INCLUDED", "EXECUTED"}]
    /\ MaxVersion \in Nat /\ MaxMinimum \in Nat \ {0} /\ MaxTokens \in Nat
    /\ None \notin Nat \cup Fates \cup Panics

VARIABLES
    req,        \* each call's arguments
    pc,         \* where each call is before send_transaction, or "send"
    fetched,    \* the metadata that a call's own view returned
    deposit,    \* the storage_deposit it attaches, None without one
    ftMeta,     \* the client's cached metadata, None when it is cold
    raced,      \* history: whether two calls filled the cold cache together
    version,    \* contract: its current metadata
    registered, \* contract: the accounts that may hold the token
    minimum,    \* contract: storage_balance_bounds.min
    tokens,     \* contract: how many more transfers the sender has tokens for
    outcome,    \* chain: the outcome of each receipt that has run, else None
    panic,      \* history: why the contract has refused the call's actions
    moved,      \* history: the calls whose tokens have gone to the receiver
    added,      \* history: the calls whose deposit has registered the receiver
    excused,    \* history: calls whose view of their receiver no longer holds
    result, executed        \* of send_transaction

callVars == <<pc, fetched, deposit>>
cacheVars == <<ftMeta, raced>>
contractVars == <<version, registered, minimum, tokens>>
receiptVars == <<outcome, panic, moved, added>>
sendVars == <<result, executed>>
chainVars == <<contractVars, receiptVars, excused>>
vars == <<req, callVars, cacheVars, chainVars, sendVars>>

\* send_transaction, as far as its callers may rely on it.
Waiting == {c \in Calls : req[c].wait # "NONE"}
Sends == INSTANCE SendOnce WITH waiting <- Waiting

\* A transaction's receipts (external): its actions on the token's contract, and for
\* ft_transfer_call the receiver's ft_on_transfer and the contract's resolve.
Receipts == {"actions", "on_transfer", "resolve"}
ReceiptsOf(c) == IF req[c].method = "ft_transfer" \/ outcome[c]["actions"] = "failed"
                 THEN {"actions"} ELSE Receipts
HasRun(c, receipt) == outcome[c][receipt] # None
AllRun(c) == \A receipt \in ReceiptsOf(c) : HasRun(c, receipt)

Init ==
    /\ req \in [Calls -> Requests]
    /\ pc = [c \in Calls |-> "start"]
    /\ fetched = [c \in Calls |-> None]
    /\ deposit = [c \in Calls |-> None]
    /\ ftMeta = None
    /\ raced = FALSE
    /\ version = 0
    /\ registered \in SUBSET Receivers
    /\ minimum = 1
    /\ tokens \in 0 .. MaxTokens
    /\ outcome = [c \in Calls |-> [receipt \in Receipts |-> None]]
    /\ panic = [c \in Calls |-> None]
    /\ moved = {} /\ added = {} /\ excused = {}
    /\ Sends!Init

Goto(c, label) == pc' = [pc EXCEPT ![c] = label]

\* The calls that have found the cache cold and will store what they fetch.
Filling == {c \in Calls : pc[c] \in {"view", "store"}}

\* Defect: every call fetches the metadata.
FetchAlways(c) ==
    /\ pc[c] = "start"
    /\ Goto(c, "view")
    /\ UNCHANGED <<req, fetched, deposit, cacheVars, chainVars, sendVars>>

\* `if token_id not in self._ft_meta`
CheckMetadata(c) ==
    /\ pc[c] = "start"
    /\ Goto(c, IF ftMeta = None THEN "view" ELSE "parse")
    /\ raced' = (raced \/ (ftMeta = None /\ Filling # {}))
    /\ UNCHANGED <<req, fetched, deposit, ftMeta, chainVars, sendVars>>

ViewMetadata(c) ==
    /\ pc[c] = "view"
    /\ fetched' = [fetched EXCEPT ![c] = version]
    /\ Goto(c, "store")
    /\ UNCHANGED <<req, deposit, cacheVars, chainVars, sendVars>>

\* Whatever another call has stored in between is replaced.
StoreMetadata(c) ==
    /\ pc[c] = "store"
    /\ ftMeta' = fetched[c]
    /\ fetched' = [fetched EXCEPT ![c] = None]
    /\ Goto(c, "parse")
    /\ UNCHANGED <<req, deposit, raced, chainVars, sendVars>>

\* as_token_amount: a string is parsed by the metadata, a TokenAmount of other
\* metadata is refused.
ParseAmount(c) ==
    /\ pc[c] = "parse"
    /\ IF req[c].amount \in {None, ftMeta}
       THEN Goto(c, IF req[c].register THEN "registration" ELSE "send")
       ELSE Goto(c, "refused")
    /\ UNCHANGED <<req, fetched, deposit, cacheVars, chainVars, sendVars>>

\* _registration_actions: storage_balance_of.
ViewRegistration(c) ==
    /\ pc[c] = "registration"
    /\ Goto(c, IF req[c].receiver \in registered THEN "send" ELSE "bounds")
    /\ UNCHANGED <<req, fetched, deposit, cacheVars, chainVars, sendVars>>

\* storage_balance_bounds, for a receiver that was not registered.
ViewBounds(c) ==
    /\ pc[c] = "bounds"
    /\ deposit' = [deposit EXCEPT ![c] = minimum]
    /\ Goto(c, "send")
    /\ UNCHANGED <<req, fetched, cacheVars, chainVars, sendVars>>

\* Any of the views may raise.
ViewFails(c) ==
    /\ pc[c] \in {"view", "registration", "bounds"}
    /\ Goto(c, "refused")
    /\ UNCHANGED <<req, fetched, deposit, cacheVars, chainVars, sendVars>>

\* The contract's methods (external), on what it holds for the receiver and the
\* sender; the first panic stays.  A deposit for a registered account is paid back.
Contract == [accounts |-> registered, tokens |-> tokens, panic |-> None]

Deposit(c, state) ==
    CASE state.panic # None \/ req[c].receiver \in state.accounts -> state
      [] OTHER -> IF deposit[c] >= minimum
                  THEN [state EXCEPT !.accounts = @ \cup {req[c].receiver}]
                  ELSE [state EXCEPT !.panic = "low_deposit"]

Transfer(c, state) ==
    CASE state.panic # None -> state
      [] state.panic = None /\ state.tokens = 0 -> [state EXCEPT !.panic = "no_tokens"]
      [] OTHER -> IF req[c].receiver \in state.accounts
                  THEN [state EXCEPT !.tokens = @ - 1]
                  ELSE [state EXCEPT !.panic = "not_registered"]

\* Defect: the transfer goes in front of the deposit it needs.
DepositLast(c) ==
    IF deposit[c] = None THEN Transfer(c, Contract) ELSE Deposit(c, Transfer(c, Contract))

\* What the actions of the transaction do, in the order they are executed.
Actions(c) ==
    IF deposit[c] = None THEN Transfer(c, Contract) ELSE Transfer(c, Deposit(c, Contract))

\* Defect: the deposit is sent in front of the transfer, as a transaction of its own.
DepositAlone(c) ==
    IF Actions(c).panic = None THEN Actions(c)
    ELSE IF deposit[c] = None THEN Contract
    ELSE [Deposit(c, Contract) EXCEPT !.panic = None]

\* They are the actions of one transaction: all of them take effect, or none.
Committed(c) == IF Actions(c).panic = None THEN Actions(c) ELSE Contract

\* The chain takes the transaction.
Include(c) ==
    /\ pc[c] = "send"
    /\ UNCHANGED <<req, callVars, cacheVars, chainVars>>
    /\ Sends!ExecuteFor({c})

\* Its actions are executed.
Execute(c) ==
    /\ c \in executed /\ ~HasRun(c, "actions")
    /\ outcome' = [outcome EXCEPT ![c]["actions"] =
                        IF Actions(c).panic = None THEN "ok" ELSE "failed"]
    /\ panic' = [panic EXCEPT ![c] = Actions(c).panic]
    /\ moved' = IF Actions(c).panic = None THEN moved \cup {c} ELSE moved
    /\ added' = IF Committed(c).accounts = registered THEN added ELSE added \cup {c}
    /\ registered' = Committed(c).accounts
    /\ tokens' = Committed(c).tokens
    /\ UNCHANGED <<req, callVars, cacheVars, version, minimum, excused, sendVars>>

\* The receiver's contract takes the tokens, gives them back, or fails.
OnTransfer(c) ==
    /\ HasRun(c, "actions") /\ "on_transfer" \in ReceiptsOf(c) /\ ~HasRun(c, "on_transfer")
    /\ \E fate \in Fates : outcome' = [outcome EXCEPT ![c]["on_transfer"] = fate]
    /\ UNCHANGED <<req, callVars, cacheVars, contractVars, panic, moved, added, excused,
                   sendVars>>

\* ft_resolve_transfer refunds what was not taken, if the receiver still has it.
Resolve(c) ==
    /\ HasRun(c, "on_transfer") /\ ~HasRun(c, "resolve")
    /\ outcome' = [outcome EXCEPT ![c]["resolve"] = "ok"]
    /\ tokens' \in IF outcome[c]["on_transfer"] = "ok" THEN {tokens} ELSE {tokens, tokens + 1}
    /\ UNCHANGED <<req, callVars, cacheVars, version, registered, minimum,
                   panic, moved, added, excused, sendVars>>

\* What the node may answer (external): for EXECUTED the outcomes of all receipts,
\* for INCLUDED those of any that have run.  The transaction's own outcome is a
\* success; its status is that of the actions, unless they leave it to resolve.
Answers(c) ==
    {known \in SUBSET {receipt \in Receipts : HasRun(c, receipt)} :
        req[c].wait = "EXECUTED" => AllRun(c) /\ known = ReceiptsOf(c)}

Outcomes(c, known) == {"ok"} \cup {outcome[c][receipt] : receipt \in known}
Status(c, known) == IF "actions" \in known THEN outcome[c]["actions"] ELSE "ok"

\* How send_transaction ends: by what an answer shows, which is looked at only when
\* it was to wait, or by an error.
Conclusions(c) ==
    {"error", "invalid_nonce"} \cup
        IF c \in Waiting
        THEN {Conclude(Outcomes(c, known), Status(c, known)) : known \in Answers(c)}
        ELSE {"returned"}

\* send_transaction ends, and with it the transfer.
End(c) ==
    /\ pc[c] = "send"
    /\ UNCHANGED <<req, callVars, cacheVars, chainVars>>
    /\ \E r \in Conclusions(c) : Sends!End(c, r)

-------------------------------------------------------------------------------
(* Other people (external).                                                    *)

\* The calls that rely on what they have seen of the contract.
Looked == {c \in Calls : pc[c] = "send" /\ ~HasRun(c, "actions")}

\* The receiver, or anyone for it, registers or unregisters.
Register(a) ==
    /\ a \notin registered
    /\ registered' = registered \cup {a}
    /\ UNCHANGED <<req, callVars, cacheVars, version, minimum, tokens, receiptVars, excused,
                   sendVars>>

Unregister(a) ==
    /\ a \in registered
    /\ registered' = registered \ {a}
    /\ excused' = excused \cup {c \in Looked : req[c].receiver = a /\ deposit[c] = None}
    /\ UNCHANGED <<req, callVars, cacheVars, version, minimum, tokens, receiptVars, sendVars>>

RaiseMinimum ==
    /\ minimum < MaxMinimum
    /\ minimum' = minimum + 1
    /\ excused' = excused \cup {c \in Looked : deposit[c] # None}
    /\ UNCHANGED <<req, callVars, cacheVars, version, registered, tokens, receiptVars, sendVars>>

ChangeMetadata ==
    /\ version < MaxVersion
    /\ version' = version + 1
    /\ UNCHANGED <<req, callVars, cacheVars, registered, minimum, tokens, receiptVars, excused,
                   sendVars>>

CallStep(c) ==
    \/ CheckMetadata(c) \/ ViewMetadata(c) \/ StoreMetadata(c) \/ ParseAmount(c)
    \/ ViewRegistration(c) \/ ViewBounds(c) \/ ViewFails(c)
    \/ Include(c) \/ Execute(c) \/ OnTransfer(c) \/ Resolve(c) \/ End(c)

Next ==
    \/ \E c \in Calls : CallStep(c)
    \/ \E a \in Receivers : Register(a) \/ Unregister(a)
    \/ RaiseMinimum \/ ChangeMetadata

Spec == Init /\ [][Next]_vars

-------------------------------------------------------------------------------
(* Properties.                                                                 *)

\* With register=True the contract refuses a transfer only for want of tokens, or
\* if, after the call had looked, the receiver unregistered or the deposit went up.
\* That others register the same receiver first, the client's own calls included,
\* does no harm (client.py:362-389).
RegisterWorks ==
    \A c \in Calls :
        req[c].register /\ panic[c] \in {"not_registered", "low_deposit"} => c \in excused

\* The receiver's contract has failed, after the tokens had moved.
Bounced(c) == outcome[c]["on_transfer"] = "failed"

\* What raise_for_execution_failure makes of an answer is true of the contract: a
\* transfer that waited for its execution and returns has moved the tokens, to a
\* receiver that took them or gave them back of its own; one that raises
\* ContractPanicError, however long it waited, has moved nothing and registered
\* nobody, unless it was the receiving contract that failed: then "the registration
\* outlives the refund" (client.py:379-392, test_tokens_sandbox.py:127-139).
ResultsAreTrue ==
    \A c \in Calls :
        /\ result[c] = "returned" /\ req[c].wait = "EXECUTED"
             => c \in moved /\ ~Bounced(c)
        /\ result[c] = "panicked" => c \notin moved \cup added \/ Bounced(c)

\* client.py:346: "cached for the life of this client. A client outliving an
\* on-chain metadata change keeps serving the cached value": true unless several
\* calls filled the cold cache together; then the last one to store it wins.
CachedForLife == [][ftMeta # None /\ ~raced => ftMeta' = ftMeta]_vars
================================================================================
