----------------------------- MODULE SandboxTesting -----------------------------
(* fast_forward and patch_state (testing.py): helpers of a test session that   *)
(* ask a sandbox node for blocks or for other state and poll its final height  *)
(* until the effect is there, on a chain that also moves by itself, over a     *)
(* transport that posts a request again when its answer is lost.               *)
EXTENDS Integers, FiniteSets

CONSTANTS
    Helpers,        \* calls of the helpers, each on a thread of its own
    Blocks,         \* num_blocks of the fast_forward calls
    Limit,          \* the time a helper polls, in units of its own clock
    Retries,        \* RpcTransport.retries
    MaxFaults,      \* bound: requests that fail
    MaxHeight       \* bound: of the chain

ASSUME TestingAssumption ==
    /\ Blocks \subseteq Int
    /\ Limit \in Nat /\ Retries \in Nat /\ MaxFaults \in Nat /\ MaxHeight \in Nat

VARIABLES
    op,         \* each call: fast_forward of some blocks, or patch_state (0)
    pc,         \* "start", "height", "rpc", "check", "poll", or how it ended
    start,      \* the height it counts from
    left,       \* how long it is until its deadline
    tries,      \* how many posts of its request have failed
    polled,     \* history: the height of its last poll
    head,       \* node: the height of the head
    final,      \* node: the height of the final block
    owed,       \* node: heights it was asked to skip and has not
    queued,     \* node: the patches it will apply with its next block
    patched,    \* node: the patches it has applied
    faults      \* how many requests have failed

helperVars == <<op, pc, start, left, tries, polled>>
nodeVars == <<head, final, owed, queued, patched>>
vars == <<helperVars, nodeVars, faults>>

Ended == {"returned", "timeout", "error", "refused"}

Goto(h, label) == pc' = [pc EXCEPT ![h] = label]
FastForwards(h) == op[h].method = "fast_forward"

Init ==
    /\ op \in [Helpers -> [method : {"fast_forward"}, blocks : Blocks]
                            \cup [method : {"patch_state"}, blocks : {0}]]
    /\ pc = [h \in Helpers |-> "start"]
    /\ start = [h \in Helpers |-> 0]
    /\ left = [h \in Helpers |-> 0]
    /\ tries = [h \in Helpers |-> 0]
    /\ polled = [h \in Helpers |-> 0]
    /\ head = 1 /\ final = 1 /\ owed = 0
    /\ queued = {} /\ patched = {}
    /\ faults = 0

-------------------------------------------------------------------------------
(* The helpers.                                                                *)

\* ValueError for less than one block, before anything is asked.
Begin(h) ==
    /\ pc[h] = "start"
    /\ Goto(h, IF ~FastForwards(h) THEN "rpc" ELSE IF op[h].blocks < 1 THEN "refused" ELSE "height")
    /\ UNCHANGED <<op, start, left, tries, polled, nodeVars, faults>>

StartPolling(h) == left' = [left EXCEPT ![h] = Limit] /\ Goto(h, "check")

\* _final_height: fast_forward counts from before its request, _wait_one_block from
\* after it, and its time starts then.
ReadStart(h) ==
    /\ pc[h] = "height"
    /\ start' = [start EXCEPT ![h] = final]
    /\ IF FastForwards(h) THEN Goto(h, "rpc") /\ UNCHANGED left ELSE StartPolling(h)
    /\ UNCHANGED <<op, tries, polled, nodeVars, faults>>

\* The node takes a request in, each time it comes.
TakeIn(h) ==
    IF FastForwards(h) THEN owed' = owed + op[h].blocks /\ UNCHANGED queued
                       ELSE queued' = queued \cup {h} /\ UNCHANGED owed

\* The request is answered: a fast_forward polls, a patch_state reads the height.
Answered(h) ==
    /\ pc[h] = "rpc"
    /\ TakeIn(h)
    /\ IF FastForwards(h) THEN StartPolling(h) ELSE Goto(h, "height") /\ UNCHANGED left
    /\ tries' = [tries EXCEPT ![h] = 0]
    /\ UNCHANGED <<op, start, polled, head, final, patched, faults>>

\* A post of the request fails, after or before the node took it in.
Lose(h) ==
    /\ pc[h] = "rpc" /\ faults < MaxFaults
    /\ faults' = faults + 1
    /\ TakeIn(h) \/ UNCHANGED <<owed, queued>>
    /\ IF tries[h] < Retries THEN tries' = [tries EXCEPT ![h] = @ + 1] /\ UNCHANGED pc
                             ELSE Goto(h, "error") /\ UNCHANGED tries
    /\ UNCHANGED <<op, start, left, polled, head, final, patched>>

\* Another query fails, all its posts through.
Fail(h) ==
    /\ pc[h] \in {"height", "poll"} /\ faults < MaxFaults
    /\ faults' = faults + 1
    /\ Goto(h, "error")
    /\ UNCHANGED <<op, start, left, tries, polled, nodeVars>>

\* Defect: the deadline is set in the loop.
CheckAnew(h) ==
    /\ pc[h] = "check"
    /\ left' = [left EXCEPT ![h] = Limit]
    /\ Goto(h, IF Limit > 0 THEN "poll" ELSE "timeout")
    /\ UNCHANGED <<op, start, tries, polled, nodeVars, faults>>

\* while time.monotonic() < deadline
Check(h) ==
    /\ pc[h] = "check"
    /\ Goto(h, IF left[h] > 0 THEN "poll" ELSE "timeout")
    /\ UNCHANGED <<op, start, left, tries, polled, nodeVars, faults>>

\* Defect: the optimistic head is polled.
ReachedByHead(h) == IF FastForwards(h) THEN head >= start[h] + op[h].blocks ELSE head > start[h]

\* Defect: the height it read itself is enough.
ReachedAtOnce(h) == final >= start[h] + op[h].blocks

\* Defect: one block more than asked for.
ReachedLate(h) == final > start[h] + op[h].blocks

\* _final_height(client) >= start + num_blocks, or > height
Reached(h) == IF FastForwards(h) THEN final >= start[h] + op[h].blocks ELSE final > start[h]

Poll(h) ==
    /\ pc[h] = "poll"
    /\ polled' = [polled EXCEPT ![h] = final]
    /\ Goto(h, IF Reached(h) THEN "returned" ELSE "check")
    /\ UNCHANGED <<op, start, left, tries, nodeVars, faults>>

-------------------------------------------------------------------------------
(* The node and the clock (external).                                          *)

\* A block, possibly after skipped heights.  The final block is this one, the one
\* before, or the same as before.
Produce ==
    /\ \E skipped \in 0 .. owed :
         /\ head + 1 + skipped <= MaxHeight
         /\ head' = head + 1 + skipped
         /\ owed' = owed - skipped
    /\ final' \in {final, head, head'}
    /\ patched' = patched \cup queued /\ queued' = {}
    /\ UNCHANGED <<helperVars, faults>>

\* Time passes for all who poll.
Tick ==
    /\ \E h \in Helpers : pc[h] \in {"check", "poll"} /\ left[h] > 0
    /\ left' = [h \in Helpers |-> IF pc[h] \in {"check", "poll"} /\ left[h] > 0
                                  THEN left[h] - 1 ELSE left[h]]
    /\ UNCHANGED <<op, pc, start, tries, polled, nodeVars, faults>>

HelperStep(h) ==
    Begin(h) \/ ReadStart(h) \/ Answered(h) \/ Lose(h) \/ Fail(h) \/ Check(h) \/ Poll(h)

Done == (\A h \in Helpers : pc[h] \in Ended) /\ UNCHANGED vars

Next == Done \/ Produce \/ Tick \/ \E h \in Helpers : HelperStep(h)

Spec == Init /\ [][Next]_vars

\* Threads run, requests are answered or time out, and time passes; the chain may
\* stand still.
FairSpec == Spec /\ WF_vars(Tick) /\ \A h \in Helpers : WF_vars(HelperStep(h))

-------------------------------------------------------------------------------
(* Properties.                                                                 *)

\* Every variable has its type.
TypeOK ==
    /\ op \in [Helpers -> [method : {"fast_forward", "patch_state"}, blocks : Blocks \cup {0}]]
    /\ pc \in [Helpers -> {"start", "height", "rpc", "check", "poll"} \cup Ended]
    /\ start \in [Helpers -> Nat]
    /\ left \in [Helpers -> 0 .. Limit]
    /\ tries \in [Helpers -> 0 .. Retries]
    /\ polled \in [Helpers -> Nat]
    /\ head \in Nat /\ final \in Nat /\ owed \in Nat
    /\ queued \subseteq Helpers /\ patched \subseteq Helpers
    /\ faults \in 0 .. MaxFaults

\* When fast_forward returns, every later read, also a final one, is at least
\* num_blocks above what the call read first, whatever blocks came
\* by themselves or from other helpers (testing.py:79-84).
SkipsAtLeast ==
    \A h \in Helpers : pc[h] = "returned" /\ FastForwards(h) => final >= start[h] + op[h].blocks

\* When patch_state returns, the head has the patch, although the node applies it
\* only with its next block and the chain may have been anywhere between two blocks
\* (testing.py:119-129).
PatchIsApplied ==
    \A h \in Helpers : pc[h] = "returned" /\ ~FastForwards(h) => h \in patched

\* TimeoutError is only raised when time is up and the last poll had not shown what
\* the helper waits for; a chain that did what was asked of it and stood still is
\* recognised (testing.py:82-86, 127-131).
TimeoutIsTrue ==
    \A h \in Helpers : pc[h] = "timeout" =>
        /\ left[h] = 0
        /\ polled[h] < start[h] + (IF FastForwards(h) THEN op[h].blocks ELSE 1)

\* Every helper returns or raises, also on a chain that has stopped.
EveryHelperEnds == \A h \in Helpers : <>(pc[h] \in Ended)
=================================================================================
