-------------------------- MODULE AsyncSendTransaction --------------------------
(* AsyncNear.send_transaction (aclient.py): the calls of SendTransaction as    *)
(* tasks of one event loop.  The text is the sync client's with `await`, so    *)
(* most steps are the same; what differs is that                               *)
(*   - a task runs undisturbed from one await to the next, so that it checks a *)
(*     warm cache and reserves in one step;                                    *)
(*   - a task may be cancelled at any await, also while it waits for the lock. *)
(* asyncio.Lock serves its waiters in order.  Nothing in the client relies on  *)
(* it, and here any of them may be next.                                       *)
EXTENDS SendTransaction

\* Defect: the nonce of a warm cache is taken, and not reserved.
StartUnreserved(c) ==
    /\ pc[c] = "start" /\ ~req[c].strict
    /\ IF Has(Entry(c))
       THEN /\ nonce' = [nonce EXCEPT ![c] = NextNonce(Entry(c), None)]
            /\ Goto(c, "block")
       ELSE Goto(c, "fetch") /\ UNCHANGED nonce
    /\ UNCHANGED <<req, attempt, told, tries, signed, clientVars, nodeVars, faults>>

\* Up to its first await, a monotonic task with a warm cache has its nonce.
StartMonotonic(c) ==
    /\ pc[c] = "start" /\ ~req[c].strict
    /\ IF Has(Entry(c))
       THEN /\ SetEntry(c, NextNonce(Entry(c), None))
            /\ nonce' = [nonce EXCEPT ![c] = NextNonce(Entry(c), None)]
            /\ Goto(c, "block")
       ELSE Goto(c, "fetch") /\ UNCHANGED <<cache, nonce>>
    /\ UNCHANGED <<req, attempt, told, tries, signed, lock, nodeVars, faults>>

\* The steps between two awaits that are the same as between two accesses of a
\* thread.  FetchFinal is the node's answer and Reserve what the task does when
\* it is resumed: others run in between.
Resumed(c) ==
    \/ FetchOptimistic(c) \/ FetchFinal(c) \/ Reserve(c) \/ FetchBlock(c)
    \/ Return(c) \/ Retry(c) \/ GiveUp(c) \/ Fail(c) \/ LosePost(c)

\* Where a task awaits something: the lock, an answer of the node, or its turn
\* after an answer has come.
Awaits(c) == IF pc[c] = "start" THEN req[c].strict ELSE pc[c] \notin Ended

\* Defect: a task that waits for the lock releases it when it is cancelled.
ReleaseAnyway(c) == Unlock(c)

\* `async with`: a task that still waits for the lock has nothing to release.
ReleaseIfHeld(c) == IF pc[c] = "start" THEN UNCHANGED lock ELSE Unlock(c)

\* Defect: a cancelled post is taken for one that the node rejected.
CancelAsRejected(c) ==
    /\ Awaits(c)
    /\ Goto(c, IF pc[c] = "send" THEN "rejected" ELSE "error")
    /\ IF pc[c] = "send" THEN UNCHANGED lock ELSE ReleaseIfHeld(c)
    /\ \/ pc[c] = "send" /\ pool' = pool \cup {CurrentTx(c)}
       \/ UNCHANGED pool
    /\ UNCHANGED <<req, attempt, told, nonce, tries, signed, cache, ak, landed, faults>>

\* CancelledError: an answer that has come is dropped, a post that is under way
\* may still reach the node, and a nonce that is reserved stays reserved.
Cancel(c) ==
    /\ Awaits(c)
    /\ Goto(c, "error")
    /\ ReleaseIfHeld(c)
    /\ \/ pc[c] = "send" /\ pool' = pool \cup {CurrentTx(c)}
       \/ UNCHANGED pool
    /\ UNCHANGED <<req, attempt, told, nonce, tries, signed, cache, ak, landed, faults>>

TaskStep(c) == AcquireLock(c) \/ StartMonotonic(c) \/ Resumed(c) \/ NodeStep(c)

AsyncNext ==
    \/ \E c \in Calls : TaskStep(c) \/ Cancel(c)
    \/ \E t \in pool : Include(t)
    \/ Done

AsyncSpec == Init /\ [][AsyncNext]_vars

\* The event loop resumes every task that can run, and a request is answered or
\* times out.  Nobody has to cancel anything.
AsyncFairSpec == AsyncSpec /\ \A c \in Calls : WF_vars(TaskStep(c))
=================================================================================
