---------------------------- MODULE DelegatesProofs ----------------------------
(* Theorems about Delegates, for any number of delegates, submissions and      *)
(* relayers, any lag of the final view, any expiry, and a chain of any length.  *)
EXTENDS Delegates, TLAPS

Ends == {"pending"} \cup Sends!Results
Effects == {"none", "accepted", "done", "failed", "refused"}
Ran == {"accepted", "done", "failed"}

\* What the theorems need of the types.
Types ==
    /\ args \in [Signings -> Arguments]
    /\ pc \in [Signings -> {"start", "height", "signed"}]
    /\ nonce \in [Signings -> Nat] /\ expiry \in [Signings -> Nat]
    /\ base \in [Signings -> Nat] /\ born \in [Signings -> Nat]
    /\ delegate \in [Calls -> Signings]
    /\ key \in Nat /\ height \in Nat
    /\ effect \in [Calls -> Effects]
    /\ ranAt \in [Calls -> Nat]
    /\ wait \in [Calls -> {"NONE", "INCLUDED", "EXECUTED"}]
    /\ executed \subseteq Calls
    /\ result \in [Calls -> Ends]

\* A delegate without explicit values follows what its views showed.
Follows(s) ==
    /\ pc[s] # "start" /\ args[s].nonce = None => nonce[s] = base[s] + 1
    /\ pc[s] = "signed" /\ args[s].height = None =>
         expiry[s] <= born[s] + Ttl /\ born[s] + Ttl <= expiry[s] + FinalityLag

\* What the chain has taken is a signed delegate.  One that was accepted used its
\* nonce up, in time; one that was refused came too late for the nonce or for the
\* height.
Explained(c) ==
    LET s == delegate[c]
    IN /\ effect[c] # "none" => c \in executed
       /\ c \in executed => pc[s] = "signed"
       /\ effect[c] \in Ran => nonce[s] <= key /\ ranAt[c] <= expiry[s]
       /\ effect[c] = "refused" => nonce[s] <= key \/ ranAt[c] > expiry[s]

\* A submission that returns, having waited for its execution, or panics shows what
\* became of it.
Informed(c) ==
    /\ result[c] = "returned" /\ wait[c] = "EXECUTED" => effect[c] = "done"
    /\ result[c] = "panicked" => effect[c] \in {"refused", "failed"}

\* A delegate is accepted once.
RunsOnce ==
    \A c, d \in Calls :
        c # d /\ delegate[c] = delegate[d] => ~(effect[c] \in Ran /\ effect[d] \in Ran)

\* The inductive invariant.
Inv ==
    /\ Types
    /\ \A s \in Signings : Follows(s)
    /\ \A c \in Calls : Explained(c) /\ Informed(c)
    /\ RunsOnce

-------------------------------------------------------------------------------

\* Signing keeps the invariant: it changes a delegate that nobody can submit yet.
LEMMA SigningKeepsInv ==
    ASSUME Inv, NEW s \in Signings, FetchNonce(s) \/ Sign(s)
    PROVE  Inv'
<1> USE DelegatesAssumption DEF Inv, Types
<1>1. /\ pc[s] # "signed"
      /\ \A t \in Signings \ {s} : /\ pc'[t] = pc[t] /\ nonce'[t] = nonce[t] /\ base'[t] = base[t]
                                   /\ expiry'[t] = expiry[t] /\ born'[t] = born[t]
      /\ UNCHANGED <<args, sendVars, key, height, effect, ranAt>>
  BY DEF FetchNonce, Sign
<1>2. Types' /\ Follows(s)'
  <2>1. {args[s].nonce, args[s].height} \subseteq Nat \cup {None}
    OBVIOUS
  <2>2. CASE FetchNonce(s)
    <3>1. CASE args[s].nonce # None
      BY <1>1, <2>1, <2>2, <3>1 DEF FetchNonce, Follows, sendVars
    <3>2. CASE args[s].nonce = None
      <4>1. PICK shown \in Final(key) : /\ nonce' = [nonce EXCEPT ![s] = shown + 1]
                                        /\ base' = [base EXCEPT ![s] = shown]
        BY <2>2, <3>2 DEF FetchNonce, NextDelegateNonce
      <4>2. shown \in Nat
        BY DEF Final
      <4>3. QED
        BY <1>1, <2>2, <4>1, <4>2 DEF FetchNonce, Follows, sendVars
    <3>3. QED
      BY <3>1, <3>2
  <2>3. CASE Sign(s)
    <3>1. /\ pc' = [pc EXCEPT ![s] = "signed"] /\ born' = [born EXCEPT ![s] = height]
          /\ nonce' = nonce /\ base' = base /\ pc[s] = "height"
      BY <2>3 DEF Sign
    <3>2. CASE args[s].height # None
      <4>1. expiry' = [expiry EXCEPT ![s] = args[s].height] /\ args[s].height \in Nat
        BY <2>1, <2>3, <3>2 DEF Sign
      <4>2. Types'
        BY <1>1, <3>1, <4>1 DEF sendVars
      <4>3. QED
        BY <1>1, <3>1, <3>2, <4>2 DEF Follows
    <3>3. CASE args[s].height = None
      <4>1. PICK shown \in Final(height) : expiry' = [expiry EXCEPT ![s] = shown + Ttl]
        BY <2>3, <3>3 DEF Sign, Expiry
      <4>2. shown \in Nat /\ shown <= height /\ height <= shown + FinalityLag
        BY DEF Final
      <4>3. Types'
        BY <1>1, <3>1, <4>1, <4>2 DEF sendVars
      <4>4. expiry'[s] = shown + Ttl /\ born'[s] = height
        BY <3>1, <4>1
      <4>5. QED
        BY <1>1, <3>1, <4>2, <4>3, <4>4 DEF Follows
    <3>4. QED
      BY <3>2, <3>3
  <2>4. QED
    BY <2>2, <2>3
<1>3. \A t \in Signings \ {s} : Follows(t)'
  BY <1>1 DEF Follows, sendVars
<1>4. ASSUME NEW c \in Calls PROVE Explained(c)' /\ Informed(c)'
  <2>1. effect'[c] = effect[c] /\ ranAt'[c] = ranAt[c] /\ key' = key
        /\ UNCHANGED <<delegate, wait, result, executed>>
    BY <1>1 DEF sendVars
  <2>2. CASE c \notin executed
    BY <2>1, <2>2 DEF Explained, Informed, Ran
  <2>3. CASE c \in executed
    <3>1. delegate[c] \in Signings \ {s}
      BY <1>1, <2>3 DEF Explained
    <3>2. QED
      BY <1>1, <2>1, <3>1 DEF Explained, Informed
  <2>4. QED
    BY <2>2, <2>3
<1>5. RunsOnce'
  BY <1>1 DEF RunsOnce, sendVars
<1>6. QED
  BY <1>2, <1>3, <1>4, <1>5

\* So does the chain that takes a submission; its delegate is signed.
LEMMA InclusionKeepsInv ==
    ASSUME Inv, NEW c \in Calls, Include(c)
    PROVE  Inv'
<1> USE DEF Inv, Types
<1>1. /\ pc[delegate[c]] = "signed" /\ executed' = executed \cup {c} /\ result' = result
      /\ UNCHANGED <<signVars, delegate, wait, key, height, effect, ranAt>>
  BY DEF Include, Sends!ExecuteFor
<1>2. Types' /\ \A s \in Signings : Follows(s)'
  BY <1>1 DEF signVars, Follows
<1>3. \A d \in Calls : Explained(d)' /\ Informed(d)'
  BY <1>1 DEF signVars, Explained, Informed
<1>4. RunsOnce'
  BY <1>1 DEF RunsOnce
<1>5. QED
  BY <1>2, <1>3, <1>4

\* So does the receipt that takes or refuses a delegate: it is the first to take it.
LEMMA ExecutionKeepsInv ==
    ASSUME Inv, NEW c \in Calls, Execute(c)
    PROVE  Inv'
<1> USE DelegatesAssumption DEF Inv, Types
<1>1. /\ pc[delegate[c]] = "signed" /\ c \in executed /\ effect[c] = "none"
      /\ UNCHANGED <<args, pc, nonce, expiry, base, born, delegate, wait, result, executed, height>>
  BY DEF Execute, signVars, sendVars, Explained
<1>2. /\ ranAt' = [ranAt EXCEPT ![c] = height]
      /\ effect' \in [Calls -> Effects]
      /\ \A d \in Calls \ {c} : effect'[d] = effect[d]
      /\ IF Valid(delegate[c]) THEN effect'[c] = "accepted" /\ key' = nonce[delegate[c]]
                               ELSE effect'[c] = "refused" /\ key' = key
  BY DEF Execute, Effects
<1>3. delegate[c] \in Signings /\ key <= key' /\ key' \in Nat
  BY <1>2 DEF Valid
<1>4. Types'
  BY <1>1, <1>2, <1>3
<1>5. \A s \in Signings : Follows(s)'
  BY <1>1 DEF Follows
<1>6. ASSUME NEW d \in Calls PROVE Explained(d)' /\ Informed(d)'
  <2>1. CASE d = c
    BY <1>1, <1>2, <1>3, <2>1 DEF Explained, Informed, Valid, Ran
  <2>2. CASE d # c
    <3>1. delegate[d] \in Signings /\ nonce[delegate[d]] \in Nat
      OBVIOUS
    <3>2. QED
      BY <1>1, <1>2, <1>3, <2>2, <3>1 DEF Explained, Informed
  <2>3. QED
    BY <2>1, <2>2
<1>7. ASSUME NEW d \in Calls \ {c}, delegate[c] = delegate[d] PROVE ~(effect'[c] \in Ran /\ effect'[d] \in Ran)
  BY <1>2, <1>3, <1>7 DEF Explained, Valid, Ran
<1>8. RunsOnce'
  BY <1>1, <1>2, <1>7 DEF RunsOnce
<1>9. QED
  BY <1>4, <1>5, <1>6, <1>8

\* So does the receipt of an accepted delegate's own actions.
LEMMA RunningKeepsInv ==
    ASSUME Inv, NEW c \in Calls, RunActions(c)
    PROVE  Inv'
<1> USE DEF Inv, Types
<1>1. PICK e \in {"done", "failed"} : effect' = [effect EXCEPT ![c] = e]
  BY DEF RunActions
<1>2. effect[c] = "accepted" /\ UNCHANGED <<signVars, sendVars, key, height, ranAt>>
  BY DEF RunActions
<1>3. /\ effect' \in [Calls -> Effects] /\ effect'[c] \in {"done", "failed"}
      /\ \A d \in Calls \ {c} : effect'[d] = effect[d]
  BY <1>1 DEF Effects
<1>4. Types' /\ \A s \in Signings : Follows(s)'
  BY <1>2, <1>3 DEF signVars, sendVars, Follows
<1>5. \A d \in Calls : Explained(d)' /\ Informed(d)'
  BY <1>2, <1>3 DEF signVars, sendVars, Explained, Informed, Ran
<1>6. RunsOnce'
  BY <1>2, <1>3 DEF sendVars, RunsOnce, Ran
<1>7. QED
  BY <1>4, <1>5, <1>6

\* What a call concludes from an answer is true of its submission, even when the
\* answer comes before all receipts have run: a failure among them is there to stay.
LEMMA ConclusionsAreTrue ==
    ASSUME Types, NEW c \in Calls, NEW r \in Conclusions(c)
    PROVE  /\ r \in Sends!Results
           /\ r = "panicked" => effect[c] \in {"refused", "failed"}
           /\ r = "returned" /\ wait[c] = "EXECUTED" => effect[c] = "done"
<1>1. CASE r \in {"error", "invalid_nonce"}
  BY <1>1 DEF Sends!Results
<1>2. CASE r \notin {"error", "invalid_nonce"} /\ c \in Waiting
  <2>1. PICK outcomes \in Answers(c) :
            r \in {Conclude(outcomes, status) : status \in outcomes}
    BY <1>2 DEF Conclusions
  <2>2. r = IF "failed" \in outcomes THEN "panicked" ELSE "returned"
    BY <2>1 DEF Conclude
  <2>3. "failed" \in outcomes => effect[c] \in {"refused", "failed"}
    BY <2>1 DEF Answers, Outcomes
  <2>4. wait[c] = "EXECUTED" => outcomes = Outcomes(c) /\ effect[c] \in Ended
    BY <2>1 DEF Answers
  <2>5. wait[c] = "EXECUTED" /\ "failed" \notin outcomes => effect[c] = "done"
    BY <2>4 DEF Outcomes, Ended
  <2>6. QED
    BY <2>2, <2>3, <2>5 DEF Sends!Results
<1>3. CASE c \notin Waiting
  BY <1>3 DEF Conclusions, Waiting, Sends!Results
<1>4. QED
  BY <1>1, <1>2, <1>3

\* So the end of a relayer's call keeps the invariant too.
LEMMA SendKeepsInv ==
    ASSUME Inv, NEW c \in Calls, SendDelegate(c)
    PROVE  Inv'
<1> USE DEF Inv, Types
<1>1. PICK r \in Conclusions(c) : Sends!End(c, r)
  BY DEF SendDelegate
<1>2. /\ r \in Sends!Results
      /\ r = "panicked" => effect[c] \in {"refused", "failed"}
      /\ r = "returned" /\ wait[c] = "EXECUTED" => effect[c] = "done"
  BY ConclusionsAreTrue
<1>3. /\ result' = [result EXCEPT ![c] = r] /\ executed' = executed
      /\ UNCHANGED <<signVars, delegate, wait, key, height, effect, ranAt>>
  BY <1>1 DEF SendDelegate, Sends!End
<1>4. Types' /\ \A s \in Signings : Follows(s)'
  BY <1>2, <1>3 DEF signVars, Follows, Ends
<1>5. \A d \in Calls : Explained(d)' /\ Informed(d)'
  BY <1>2, <1>3 DEF signVars, Explained, Informed
<1>6. RunsOnce'
  BY <1>3 DEF RunsOnce
<1>7. QED
  BY <1>4, <1>5, <1>6

\* And so does a chain that moves, with the user's own transactions.
LEMMA ChainKeepsInv ==
    ASSUME Inv, OwnSend \/ Block
    PROVE  Inv'
<1> USE DelegatesAssumption DEF Inv, Types
<1>1. /\ UNCHANGED <<args, pc, nonce, expiry, base, born, delegate, wait, result, executed, effect, ranAt>>
      /\ key' \in Nat /\ key <= key' /\ height' \in Nat
  BY DEF OwnSend, Block, signVars, sendVars
<1>2. Types'
  BY <1>1
<1>3. \A s \in Signings : Follows(s)'
  BY <1>1 DEF Follows
<1>4. ASSUME NEW c \in Calls PROVE Explained(c)' /\ Informed(c)'
  <2>1. nonce[delegate[c]] \in Nat
    OBVIOUS
  <2>2. QED
    BY <1>1, <2>1 DEF Explained, Informed
<1>5. RunsOnce'
  BY <1>1 DEF RunsOnce
<1>6. QED
  BY <1>2, <1>3, <1>4, <1>5

\* The invariant of delegates, whatever relayers do with them.
THEOREM DelegatesInvariant == Spec => []Inv
<1>1. Init => Inv
  BY DEF Init, Inv, Types, Sends!Init, Ends, Effects, Follows, Explained, Informed, RunsOnce, Ran
<1>2. Inv /\ [Next]_vars => Inv'
  <2> SUFFICES ASSUME Inv, [Next]_vars PROVE Inv'
    OBVIOUS
  <2>1. CASE UNCHANGED vars
    BY <2>1 DEF Inv, Types, Follows, Explained, Informed, RunsOnce, vars, signVars, sendVars
  <2>2. CASE Next
    BY <2>2, SigningKeepsInv, InclusionKeepsInv, ExecutionKeepsInv, RunningKeepsInv,
       SendKeepsInv, ChainKeepsInv DEF Next
  <2>3. QED
    BY <2>1, <2>2
<1>3. QED
  BY <1>1, <1>2, PTL DEF Spec

-------------------------------------------------------------------------------
(* The properties.                                                             *)

\* Of all submissions of one delegate that wait for their execution at most one
\* returns, and then its actions are done; one that panics did not do them.
THEOREM DelegatesReturnOnce == Spec => []OneReturnPerDelegate
<1>1. Inv => OneReturnPerDelegate
  BY DEF OneReturnPerDelegate, Inv, Types, Informed, RunsOnce, Ran
<1>2. QED
  BY <1>1, DelegatesInvariant, PTL

\* A delegate with default values is only refused when its nonce or its time is up.
THEOREM DelegatesRefusedForAReason == Spec => []RefusedForAReason
<1>1. ASSUME Inv, NEW c \in Calls, effect[c] = "refused",
             args[delegate[c]].nonce = None, args[delegate[c]].height = None
      PROVE  key > base[delegate[c]] \/ ranAt[c] + FinalityLag > born[delegate[c]] + Ttl
  <2> DEFINE s == delegate[c]
  <2>1. /\ s \in Signings /\ key \in Nat /\ ranAt[c] \in Nat
        /\ base[s] \in Nat /\ born[s] \in Nat /\ nonce[s] \in Nat /\ expiry[s] \in Nat
    BY <1>1 DEF Inv, Types
  <2>2. pc[s] = "signed" /\ (nonce[s] <= key \/ ranAt[c] > expiry[s])
    BY <1>1 DEF Inv, Explained
  <2>3. nonce[s] = base[s] + 1 /\ born[s] + Ttl <= expiry[s] + FinalityLag
    BY <1>1, <2>1, <2>2 DEF Inv, Follows
  <2>4. QED
    BY <2>1, <2>2, <2>3, DelegatesAssumption
<1>2. Inv => RefusedForAReason
  BY <1>1 DEF RefusedForAReason
<1>3. QED
  BY <1>2, DelegatesInvariant, PTL

\* A delegate with the default expiry is never accepted late.
THEOREM DelegatesNeverRunLate == Spec => []NeverRunsLate
<1>1. ASSUME Inv, NEW c \in Calls, effect[c] \in Ran, args[delegate[c]].height = None
      PROVE  ranAt[c] <= born[delegate[c]] + Ttl
  <2> DEFINE s == delegate[c]
  <2>1. s \in Signings /\ ranAt[c] \in Nat /\ born[s] \in Nat /\ expiry[s] \in Nat
    BY <1>1 DEF Inv, Types
  <2>2. pc[s] = "signed" /\ ranAt[c] <= expiry[s]
    BY <1>1 DEF Inv, Explained, Ran
  <2>3. expiry[s] <= born[s] + Ttl
    BY <1>1, <2>1, <2>2 DEF Inv, Follows
  <2>4. QED
    BY <2>1, <2>2, <2>3, DelegatesAssumption
<1>2. Inv => NeverRunsLate
  BY <1>1 DEF NeverRunsLate, Ran
<1>3. QED
  BY <1>2, DelegatesInvariant, PTL
================================================================================
