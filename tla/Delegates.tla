------------------------------- MODULE Delegates -------------------------------
(* Meta-transactions (client.py sign_delegate, send_delegate; delegate.py):    *)
(* a user signs delegate actions, a relayer's calls submit them, a delegate    *)
(* possibly more than once, and the chain runs them under the user's key,      *)
(* which the user goes on using.  Signing takes two views and reserves no      *)
(* nonce.  The relayer's send_transaction is what SendOnce promises; what it   *)
(* sends runs later, receipt by receipt.                                       *)
(* The encoded form carries the same fields.                                   *)
EXTENDS Integers, ExecutionReport

CONSTANTS
    None,
    Signings,       \* the user's calls of sign_delegate, one delegate each
    Calls,          \* the relayers' calls of send_delegate
    Arguments,      \* what a signing may be given, None for what is left out
    Ttl,            \* ttl_blocks
    FinalityLag,    \* how far the final view trails, in blocks and in nonces
    MaxNonce,       \* bound: of the key's nonce
    MaxHeight       \* bound: of the chain's height

ASSUME DelegatesAssumption ==
    /\ \A a \in Arguments : {a.nonce, a.height} \subseteq Nat \cup {None}
    /\ Ttl \in Nat /\ FinalityLag \in Nat /\ MaxNonce \in Nat /\ MaxHeight \in Nat

VARIABLES
    args,       \* each signing's nonce and max_block_height, None when left out
    pc,         \* "start", "height" or "signed"
    nonce,      \* each delegate's nonce
    expiry,     \* each delegate's max_block_height
    base,       \* history: the nonce that the final view showed a signing
    born,       \* history: the height when a signing ended
    delegate,   \* the delegate each send_delegate call submits
    wait,       \* and its wait_until: "EXECUTED" stands for all that wait for receipts
    key,        \* chain: the nonce of the user's access key
    height,     \* chain: the current block
    effect,     \* chain: what became of each submission
    ranAt,      \* chain: the height at which each was accepted or refused
    result, executed        \* of the relayer's send_transaction

signVars == <<args, pc, nonce, expiry, base, born>>
sendVars == <<delegate, wait, result, executed>>
vars == <<signVars, sendVars, key, height, effect, ranAt>>

\* send_transaction, as far as its callers may rely on it.
Waiting == {c \in Calls : wait[c] # "NONE"}
Sends == INSTANCE SendOnce WITH waiting <- Waiting

\* The values a final view may show of something that is now at n.
Final(n) == {m \in 0 .. n : m + FinalityLag >= n}

Init ==
    /\ args \in [Signings -> Arguments]
    /\ pc = [s \in Signings |-> "start"]
    /\ nonce = [s \in Signings |-> 0]
    /\ expiry = [s \in Signings |-> 0]
    /\ base = [s \in Signings |-> 0]
    /\ born = [s \in Signings |-> 0]
    /\ delegate \in [Calls -> Signings]
    /\ wait \in [Calls -> {"NONE", "INCLUDED", "EXECUTED"}]
    /\ key = 1
    /\ height = 1
    /\ effect = [c \in Calls |-> "none"]
    /\ ranAt = [c \in Calls |-> 0]
    /\ Sends!Init

\* Defect: the current nonce instead of the next.
CurrentNonce(shown) == shown

\* _fetch_nonce(active, None, "final") + 1
NextDelegateNonce(shown) == shown + 1

FetchNonce(s) ==
    /\ pc[s] = "start"
    /\ IF args[s].nonce # None
       THEN nonce' = [nonce EXCEPT ![s] = args[s].nonce] /\ UNCHANGED base
       ELSE \E shown \in Final(key) :
              /\ nonce' = [nonce EXCEPT ![s] = NextDelegateNonce(shown)]
              /\ base' = [base EXCEPT ![s] = shown]
    /\ pc' = [pc EXCEPT ![s] = "height"]
    /\ UNCHANGED <<args, expiry, born, sendVars, key, height, effect, ranAt>>

\* Defect: a margin for the view's lag, also when it does not lag.
ExpiryWithMargin(shown) == shown + FinalityLag + Ttl

\* self._final_height() + ttl_blocks
Expiry(shown) == shown + Ttl

\* The height is the second view; then the delegate is signed.
Sign(s) ==
    /\ pc[s] = "height"
    /\ IF args[s].height # None
       THEN expiry' = [expiry EXCEPT ![s] = args[s].height]
       ELSE \E shown \in Final(height) : expiry' = [expiry EXCEPT ![s] = Expiry(shown)]
    /\ born' = [born EXCEPT ![s] = height]
    /\ pc' = [pc EXCEPT ![s] = "signed"]
    /\ UNCHANGED <<args, nonce, base, sendVars, key, height, effect, ranAt>>

-------------------------------------------------------------------------------
(* Submissions.                                                                *)

Valid(s) == nonce[s] > key /\ expiry[s] >= height

\* The chain takes the relayer's transaction (external).
Include(c) ==
    /\ pc[delegate[c]] = "signed"
    /\ UNCHANGED <<signVars, delegate, wait, key, height, effect, ranAt>>
    /\ Sends!ExecuteFor({c})

\* Its receipt at the user's account: the delegate is refused, or takes its nonce.
Execute(c) ==
    /\ c \in executed /\ effect[c] = "none"
    /\ effect' = [effect EXCEPT ![c] = IF Valid(delegate[c]) THEN "accepted" ELSE "refused"]
    /\ ranAt' = [ranAt EXCEPT ![c] = height]
    /\ key' = IF Valid(delegate[c]) THEN nonce[delegate[c]] ELSE key
    /\ UNCHANGED <<signVars, sendVars, height>>

\* The receipt of the delegate's own actions.
RunActions(c) ==
    /\ effect[c] = "accepted"
    /\ \E e \in {"done", "failed"} : effect' = [effect EXCEPT ![c] = e]
    /\ UNCHANGED <<signVars, sendVars, key, height, ranAt>>

\* What the node may answer (external): for EXECUTED the outcomes of all receipts,
\* for INCLUDED of some.  The transaction's own is a success.
Ended == {"refused", "done", "failed"}
Outcomes(c) == {"ok"} \cup IF effect[c] \in {"refused", "failed"} THEN {"failed"} ELSE {}
Answers(c) ==
    CASE wait[c] = "EXECUTED" -> IF effect[c] \in Ended THEN {Outcomes(c)} ELSE {}
      [] OTHER -> {{"ok"}, Outcomes(c)}

\* How send_transaction ends: by what an answer shows, which is looked at only when
\* it was to wait, or by an error.  The status may be that of any of the outcomes.
Conclusions(c) ==
    {"error", "invalid_nonce"} \cup
        IF c \in Waiting
        THEN UNION {{Conclude(outcomes, status) : status \in outcomes} :
                       outcomes \in Answers(c)}
        ELSE {"returned"}

\* send_delegate ends as its send_transaction does.
SendDelegate(c) ==
    /\ pc[delegate[c]] = "signed"
    /\ UNCHANGED <<signVars, delegate, wait, key, height, effect, ranAt>>
    /\ \E r \in Conclusions(c) : Sends!End(c, r)

\* The user's own transactions move the key's nonce on (external).
OwnSend ==
    /\ \E n \in key + 1 .. MaxNonce : key' = n
    /\ UNCHANGED <<signVars, sendVars, height, effect, ranAt>>

Block ==
    /\ height < MaxHeight
    /\ height' = height + 1
    /\ UNCHANGED <<signVars, sendVars, key, effect, ranAt>>

Next ==
    \/ \E s \in Signings : FetchNonce(s) \/ Sign(s)
    \/ \E c \in Calls : Include(c) \/ Execute(c) \/ RunActions(c) \/ SendDelegate(c)
    \/ OwnSend \/ Block

Spec == Init /\ [][Next]_vars

-------------------------------------------------------------------------------
(* Properties.                                                                 *)

\* Of all submissions of one delegate that wait for their execution at most one
\* returns, and then the actions are done, by it; one that raises ContractPanicError,
\* however long it waited, did not do them and will not (client.py:503-514).
OneReturnPerDelegate ==
    \A c \in Calls :
        /\ result[c] = "panicked" => effect[c] \in {"refused", "failed"}
        /\ result[c] = "returned" /\ wait[c] = "EXECUTED" =>
             /\ effect[c] = "done"
             /\ \A d \in Calls \ {c} :
                  wait[d] = "EXECUTED" /\ delegate[d] = delegate[c] => result[d] # "returned"

\* A delegate signed without explicit values is refused for a reason: the key
\* has moved past what the final view showed (perhaps before the view, which
\* trails the user's own latest transaction), or its time is over, which is at
\* most FinalityLag blocks short of ttl_blocks (client.py:489-492).
RefusedForAReason ==
    \A c \in Calls : LET s == delegate[c] IN
        effect[c] = "refused" /\ args[s].nonce = None /\ args[s].height = None
            => \/ key > base[s]
               \/ ranAt[c] + FinalityLag > born[s] + Ttl

\* A delegate with the default expiry is never accepted later than ttl_blocks after
\* it was signed, whatever the relayer keeps it for.
NeverRunsLate ==
    \A c \in Calls : LET s == delegate[c] IN
        effect[c] \in {"accepted", "done", "failed"} /\ args[s].height = None
            => ranAt[c] <= born[s] + Ttl
================================================================================
