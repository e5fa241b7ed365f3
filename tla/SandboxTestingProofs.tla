-------------------------- MODULE SandboxTestingProofs --------------------------
(* Theorems about SandboxTesting, for any number of helpers, any blocks, time   *)
(* limits, retries and faults, and a chain of any length.                       *)
EXTENDS SandboxTesting, TLAPS

\* How far the final height has to get past the start.
Needed(h) == IF FastForwards(h) THEN op[h].blocks ELSE 1

Polling == {"check", "poll", "returned", "timeout"}

\* What the steps of one helper have established: it asks for at least one block,
\* its last poll had not shown enough unless it returned, and its patch was taken in;
\* the patch is applied as soon as the chain has moved past the start.
Knows(h) ==
    /\ FastForwards(h) /\ pc[h] \notin {"start", "refused"} => op[h].blocks >= 1
    /\ pc[h] \in {"start", "height", "rpc"} => polled[h] = 0
    /\ pc[h] \in {"check", "poll", "timeout"} => polled[h] < start[h] + Needed(h)
    /\ pc[h] = "timeout" => left[h] = 0
    /\ pc[h] = "returned" => final >= start[h] + Needed(h)
    /\ ~FastForwards(h) /\ pc[h] \in Polling \cup {"height"} => h \in queued \cup patched
    /\ ~FastForwards(h) /\ pc[h] \in Polling => h \in patched \/ final = start[h]

\* The inductive invariant.
Inv == TypeOK /\ final <= head /\ \A h \in Helpers : Knows(h)

-------------------------------------------------------------------------------

\* The request of a call is one of a helper, and never changes.
LEMMA OpOf ==
    ASSUME TypeOK, NEW h \in Helpers
    PROVE  op[h].blocks \in Int /\ Needed(h) \in Int
<1>1. op[h] \in [method : {"fast_forward", "patch_state"}, blocks : Blocks \cup {0}]
  BY DEF TypeOK
<1>2. op[h].blocks \in Int
  BY <1>1, TestingAssumption
<1>3. QED
  BY <1>2 DEF Needed

\* A helper's own step keeps every type, and does not touch the chain but for what
\* the node takes in.
LEMMA HelperType ==
    ASSUME Inv, NEW h \in Helpers, HelperStep(h)
    PROVE  /\ TypeOK'
           /\ op' = op /\ head' = head /\ final' = final /\ patched' = patched
           /\ queued \subseteq queued'
<1> USE TestingAssumption DEF Inv, TypeOK, Ended, Goto, nodeVars
<1>0. op[h].blocks \in Int /\ Knows(h)
  BY OpOf
<1>1. CASE Begin(h)
  BY <1>1 DEF Begin
<1>2. CASE ReadStart(h)
  BY <1>2 DEF ReadStart, StartPolling
<1>3. CASE Answered(h)
  BY <1>3, <1>0 DEF Answered, TakeIn, StartPolling, Knows
<1>4. CASE Lose(h)
  <2>1. owed' \in Nat /\ queued' \subseteq Helpers /\ queued \subseteq queued'
    BY <1>4, <1>0 DEF Lose, TakeIn, Knows
  <2>2. pc' \in [Helpers -> {"start", "height", "rpc", "check", "poll"} \cup Ended]
        /\ tries' \in [Helpers -> 0 .. Retries] /\ faults' \in 0 .. MaxFaults
    BY <1>4 DEF Lose
  <2>3. QED
    BY <1>4, <2>1, <2>2 DEF Lose
<1>5. CASE Fail(h)
  BY <1>5 DEF Fail
<1>6. CASE Check(h)
  BY <1>6 DEF Check
<1>7. CASE Poll(h)
  BY <1>7 DEF Poll
<1>8. QED
  BY <1>1, <1>2, <1>3, <1>4, <1>5, <1>6, <1>7 DEF HelperStep

\* What a helper has established about itself holds after its own step.
LEMMA HelperKnows ==
    ASSUME Inv, NEW h \in Helpers, HelperStep(h)
    PROVE  Knows(h)'
<1> USE TestingAssumption DEF Inv, Knows, Goto, nodeVars, FastForwards, Needed, Polling
<1>0. /\ op[h].blocks \in Int /\ op' = op /\ pc' \in [Helpers -> {"start", "height", "rpc", "check", "poll"} \cup Ended]
      /\ final \in Nat /\ start \in [Helpers -> Nat] /\ polled \in [Helpers -> Nat]
      /\ left \in [Helpers -> 0 .. Limit] /\ pc \in [Helpers -> {"start", "height", "rpc", "check", "poll"} \cup Ended]
  BY OpOf, HelperType DEF TypeOK
<1>1. CASE Begin(h)
  BY <1>0, <1>1 DEF Begin
<1>2. CASE ReadStart(h)
  BY <1>0, <1>2 DEF ReadStart, StartPolling
<1>3. CASE Answered(h)
  BY <1>0, <1>3 DEF Answered, TakeIn, StartPolling
<1>4. CASE Lose(h)
  BY <1>0, <1>4 DEF Lose, TakeIn
<1>5. CASE Fail(h)
  BY <1>0, <1>5 DEF Fail
<1>6. CASE Check(h)
  BY <1>0, <1>6 DEF Check
<1>7. CASE Poll(h)
  BY <1>0, <1>7 DEF Poll, Reached
<1>8. QED
  BY <1>1, <1>2, <1>3, <1>4, <1>5, <1>6, <1>7 DEF HelperStep

\* A helper's step leaves the others' state alone.
LEMMA OthersUnchanged ==
    ASSUME TypeOK, NEW h \in Helpers, HelperStep(h), NEW g \in Helpers \ {h}
    PROVE  pc'[g] = pc[g] /\ start'[g] = start[g] /\ left'[g] = left[g] /\ polled'[g] = polled[g]
BY DEF TypeOK, HelperStep, Begin, ReadStart, StartPolling, Answered, Lose, Fail, Check, Poll, Goto

\* A step of a helper keeps the invariant.
LEMMA HelperKeepsInv ==
    ASSUME Inv, NEW h \in Helpers, HelperStep(h)
    PROVE  Inv'
<1>1. /\ TypeOK' /\ op' = op /\ head' = head /\ final' = final /\ patched' = patched
      /\ queued \subseteq queued'
  BY HelperType
<1>2. ASSUME NEW g \in Helpers \ {h} PROVE Knows(g)'
  BY <1>1, OthersUnchanged DEF Inv, Knows, FastForwards, Needed
<1>3. Knows(h)'
  BY HelperKnows
<1>4. QED
  BY <1>1, <1>2, <1>3 DEF Inv

\* A block keeps it: the height does not fall, and a patch in the queue is applied.
LEMMA ProduceKeepsInv ==
    ASSUME Inv, Produce
    PROVE  Inv'
<1>1. PICK skipped \in 0 .. owed : head' = head + 1 + skipped /\ owed' = owed - skipped
  BY DEF Produce
<1>2. TypeOK' /\ final' <= head' /\ final <= final' /\ final \in Nat /\ final' \in Nat
  BY <1>1 DEF Inv, TypeOK, Produce, helperVars
<1>3. ASSUME NEW h \in Helpers PROVE Knows(h)'
  <2>1. op[h].blocks \in Int /\ start[h] \in Nat
    BY OpOf DEF Inv, TypeOK
  <2>2. QED
    BY <1>2, <2>1 DEF Inv, Knows, Produce, helperVars, FastForwards, Needed, Polling
<1>4. QED
  BY <1>2, <1>3 DEF Inv

\* Time keeps it: a helper that has given up is past its deadline for good.
LEMMA TickKeepsInv ==
    ASSUME Inv, Tick
    PROVE  Inv'
<1>1. TypeOK'
  BY TestingAssumption DEF Inv, TypeOK, Tick, nodeVars
<1>2. ASSUME NEW h \in Helpers PROVE Knows(h)'
  BY <1>1 DEF Inv, Knows, Tick, nodeVars, FastForwards, Needed, TypeOK
<1>3. QED
  BY <1>1, <1>2 DEF Inv, Tick, nodeVars

\* The invariant of the helpers, whatever they ask for and however they interleave.
THEOREM HelpersInvariant == Spec => []Inv
<1>1. Init => Inv
  BY TestingAssumption DEF Init, Inv, TypeOK, Knows, Ended, Polling
<1>2. Inv /\ [Next]_vars => Inv'
  <2> SUFFICES ASSUME Inv, [Next]_vars PROVE Inv'
    OBVIOUS
  <2>1. CASE UNCHANGED vars
    BY <2>1 DEF Inv, TypeOK, Knows, vars, helperVars, nodeVars, FastForwards, Needed
  <2>2. CASE Next
    BY <2>1, <2>2, HelperKeepsInv, ProduceKeepsInv, TickKeepsInv DEF Next, Done
  <2>3. QED
    BY <2>1, <2>2
<1>3. QED
  BY <1>1, <1>2, PTL DEF Spec

-------------------------------------------------------------------------------
(* The properties.                                                             *)

\* Every variable has its type.
THEOREM HelpersTypeCorrect == Spec => []TypeOK
<1>1. Inv => TypeOK
  BY DEF Inv
<1>2. QED
  BY <1>1, HelpersInvariant, PTL

\* fast_forward never returns early.
THEOREM FastForwardReachesItsGoal == Spec => []SkipsAtLeast
<1>1. Inv => SkipsAtLeast
  BY DEF Inv, Knows, SkipsAtLeast, Needed
<1>2. QED
  BY <1>1, HelpersInvariant, PTL

\* patch_state never returns before the patch is applied.
THEOREM PatchIsAppliedOnReturn == Spec => []PatchIsApplied
<1>1. ASSUME Inv, NEW h \in Helpers, pc[h] = "returned", ~FastForwards(h) PROVE h \in patched
  <2>1. final >= start[h] + 1 /\ final \in Nat /\ start[h] \in Nat
    BY <1>1 DEF Inv, Knows, Needed, TypeOK
  <2>2. h \in patched \/ final = start[h]
    BY <1>1 DEF Inv, Knows, Polling
  <2>3. QED
    BY <2>1, <2>2
<1>2. Inv => PatchIsApplied
  BY <1>1 DEF PatchIsApplied
<1>3. QED
  BY <1>2, HelpersInvariant, PTL

\* A helper never times out although its last poll had shown enough.
THEOREM TimeoutsAreTrue == Spec => []TimeoutIsTrue
<1>1. Inv => TimeoutIsTrue
  BY DEF Inv, Knows, TimeoutIsTrue, Needed
<1>2. QED
  BY <1>1, HelpersInvariant, PTL
================================================================================
