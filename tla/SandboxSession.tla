----------------------------- MODULE SandboxSession -----------------------------
(* The near_sandbox fixture (_pytest_plugin.py): parallel pytest sessions that *)
(* reuse a running sandbox or start a Docker container each, race for ports,   *)
(* may be interrupted at any moment, and clean up after themselves.            *)
EXTENDS Integers, FiniteSets

CONSTANTS
    Sessions,           \* pytest sessions on one machine
    Ports,              \* the TCP ports the OS may hand out
    MaxStrangers        \* bound: how many ports other programs hold at a time

ASSUME SandboxAssumption == MaxStrangers \in Nat

CreateAttempts == 3                             \* _CREATE_ATTEMPTS

VARIABLES
    pc,             \* where each session is
    attempts,       \* how many `docker run` it may still start
    port,           \* the port it picked last
    recorded,       \* the sessions whose `container` variable is set
    result,         \* how the fixture ended, "none" while it lives
    cutIn,          \* history: where an interrupt hit the session, "none" if none did
    containers,     \* docker: its containers; owner is history
    strangers       \* the ports other programs hold

sessionVars == <<pc, attempts, port, recorded, result, cutIn>>
vars == <<sessionVars, containers, strangers>>

Goto(s, label) == pc' = [pc EXCEPT ![s] = label]

End(s, how) == Goto(s, "ended") /\ result' = [result EXCEPT ![s] = how]

\* Defect: the name tells only the port, not the run.
NameByPort(s) == port[s]

\* near-sandbox-{port}-{uuid}: every `docker run` gets a name of its own.
Name(s) == <<s, attempts[s], port[s]>>

Named(n) == {c \in containers : c.name = n}
TakenPorts == {c.port : c \in {d \in containers : d.up}} \cup strangers

Init ==
    /\ pc = [s \in Sessions |-> "probe"]
    /\ attempts = [s \in Sessions |-> CreateAttempts]
    /\ port \in [Sessions -> Ports]
    /\ recorded = {}
    /\ result = [s \in Sessions |-> "none"]
    /\ cutIn = [s \in Sessions |-> "none"]
    /\ containers = {}
    /\ strangers = {}

-------------------------------------------------------------------------------
(* The fixture.                                                                *)

\* resolve_sandbox_url: something answers, or the session starts its own.
Probe(s) ==
    /\ pc[s] = "probe"
    /\ \E label \in {"yielded", "pick"} : Goto(s, label)
    /\ UNCHANGED <<attempts, port, recorded, result, cutIn, containers, strangers>>

\* Defect: a conflict does not count as an attempt.
PickPortUncounted(s) ==
    /\ pc[s] = "pick"
    /\ \E p \in Ports \ TakenPorts : port' = [port EXCEPT ![s] = p]
    /\ Goto(s, "run")
    /\ UNCHANGED <<attempts, recorded, result, cutIn, containers, strangers>>

\* pick_free_port: free now, not necessarily when docker binds it.
PickPort(s) ==
    /\ pc[s] = "pick"
    /\ attempts' = [attempts EXCEPT ![s] = @ - 1]
    /\ \E p \in Ports \ TakenPorts : port' = [port EXCEPT ![s] = p]
    /\ Goto(s, "run")
    /\ UNCHANGED <<recorded, result, cutIn, containers, strangers>>

\* What `docker run` adds when it starts the container, or only creates it.
Added(s, up) ==
    containers \cup {[name |-> Name(s), owner |-> s, port |-> port[s], up |-> up]}

\* Defect: the name is recorded only once the sandbox is ready.
RunUnrecorded(s) ==
    /\ pc[s] = "run"
    /\ Named(Name(s)) = {} /\ port[s] \notin TakenPorts
    /\ containers' = Added(s, TRUE)
    /\ Goto(s, "ready")
    /\ UNCHANGED <<attempts, port, recorded, result, cutIn, strangers>>

\* `docker run` succeeds; its name is recorded at once.
Run(s) ==
    /\ pc[s] = "run"
    /\ Named(Name(s)) = {} /\ port[s] \notin TakenPorts
    /\ containers' = Added(s, TRUE)
    /\ recorded' = recorded \cup {s}
    /\ Goto(s, "ready")
    /\ UNCHANGED <<attempts, port, result, cutIn, strangers>>

\* It fails because the port is taken by now, or for another reason; the named
\* container may have been created all the same, unless the name was in use.
RunFails(s) ==
    /\ pc[s] = "run"
    /\ \E reason \in {"conflict", "refused"} :
         /\ reason = "conflict" => port[s] \in TakenPorts
         /\ Goto(s, reason)
    /\ \/ UNCHANGED containers
       \/ /\ Named(Name(s)) = {}
          /\ containers' = Added(s, FALSE)
    /\ UNCHANGED <<attempts, port, recorded, result, cutIn, strangers>>

\* FileNotFoundError: docker is not installed.
NoDocker(s) ==
    /\ pc[s] = "run"
    /\ End(s, "skipped")
    /\ UNCHANGED <<attempts, port, recorded, cutIn, containers, strangers>>

\* _remove_container(name)
RemoveFailed(s) == containers' = containers \ Named(Name(s))

\* attempts > 0 and any(m in stderr.lower() for m in _PORT_CONFLICT_MARKERS)
MayRetryPort(s) == pc[s] = "conflict" /\ attempts[s] > 0

\* A failed run is removed; a conflict is tried again while attempts are left.
RunCleanup(s) ==
    /\ pc[s] \in {"conflict", "refused"}
    /\ RemoveFailed(s)
    /\ IF MayRetryPort(s)
       THEN Goto(s, "pick") /\ UNCHANGED result
       ELSE End(s, "skipped")
    /\ UNCHANGED <<attempts, port, recorded, cutIn, strangers>>

\* _wait_until_ready: a node answers on the port.
Ready(s) ==
    /\ pc[s] = "ready"
    /\ \E c \in containers : c.up /\ c.port = port[s]
    /\ Goto(s, "yielded")
    /\ UNCHANGED <<attempts, port, recorded, result, cutIn, containers, strangers>>

\* It does not answer before the deadline: TimeoutError.
NotReady(s) ==
    /\ pc[s] = "ready"
    /\ Goto(s, "finally") /\ result' = [result EXCEPT ![s] = "timeout"]
    /\ UNCHANGED <<attempts, port, recorded, cutIn, containers, strangers>>

\* The last test of the session is through.
TestsEnd(s) ==
    /\ pc[s] = "yielded"
    /\ Goto(s, "finally") /\ result' = [result EXCEPT ![s] = "done"]
    /\ UNCHANGED <<attempts, port, recorded, cutIn, containers, strangers>>

\* finally: remove the container, if one was recorded.
Finally(s) ==
    /\ pc[s] = "finally"
    /\ containers' = IF s \in recorded THEN containers \ Named(Name(s)) ELSE containers
    /\ Goto(s, "ended")
    /\ UNCHANGED <<attempts, port, recorded, result, cutIn, strangers>>

\* Ctrl-C.  Outside the `try` block, and in `finally`, nothing is cleaned up any
\* more; a `docker run` that was under way may still start its container.
Interrupt(s) ==
    /\ pc[s] # "ended" /\ cutIn[s] = "none"
    /\ cutIn' = [cutIn EXCEPT ![s] = pc[s]]
    /\ IF pc[s] \in {"ready", "yielded"}
       THEN Goto(s, "finally") /\ result' = [result EXCEPT ![s] = "interrupted"]
       ELSE End(s, "interrupted")
    /\ \/ UNCHANGED containers
       \/ /\ pc[s] = "run" /\ Named(Name(s)) = {} /\ port[s] \notin TakenPorts
          /\ containers' = Added(s, TRUE)
    /\ UNCHANGED <<attempts, port, recorded, strangers>>

-------------------------------------------------------------------------------
(* The machine (external).                                                     *)

\* A container exits; --rm reaps it.
Exit(c) ==
    /\ c \in containers /\ c.up
    /\ containers' = containers \ {c}
    /\ UNCHANGED <<sessionVars, strangers>>

\* Another program takes a free port, and may give it back.
Grab(p) ==
    /\ p \notin TakenPorts /\ Cardinality(strangers) < MaxStrangers
    /\ strangers' = strangers \cup {p}
    /\ UNCHANGED <<sessionVars, containers>>

Release(p) ==
    /\ p \in strangers
    /\ strangers' = strangers \ {p}
    /\ UNCHANGED <<sessionVars, containers>>

SessionStep(s) ==
    \/ Probe(s) \/ PickPort(s) \/ Run(s) \/ RunFails(s) \/ NoDocker(s) \/ RunCleanup(s)
    \/ Ready(s) \/ NotReady(s) \/ TestsEnd(s) \/ Finally(s)

Done == (\A s \in Sessions : pc[s] = "ended") /\ UNCHANGED vars

Next ==
    \/ Done
    \/ \E s \in Sessions : SessionStep(s) \/ Interrupt(s)
    \/ \E c \in containers : Exit(c)
    \/ \E p \in Ports : Grab(p) \/ Release(p)

Spec == Init /\ [][Next]_vars

\* docker and the tests answer; other programs give their ports back.
FairSpec == /\ Spec
            /\ \A s \in Sessions : WF_vars(SessionStep(s))
            /\ \A p \in Ports : WF_vars(Release(p))

-------------------------------------------------------------------------------
(* Properties.                                                                 *)

\* Every variable has its type.
TypeOK ==
    /\ pc \in [Sessions -> {"probe", "pick", "run", "conflict", "refused", "ready",
                            "yielded", "finally", "ended"}]
    /\ attempts \in [Sessions -> 0 .. CreateAttempts]
    /\ port \in [Sessions -> Ports]
    /\ recorded \subseteq Sessions
    /\ result \in [Sessions -> {"none", "skipped", "timeout", "done", "interrupted"}]

\* A session that has ended leaves no container behind, whether its tests ran, it
\* gave up, or it was interrupted in the ready-wait or in a test; only an
\* interrupt in `docker run` or in a removal can leak one (the docstring of
\* _sandbox_session).
NoLeak ==
    \A s \in Sessions :
        pc[s] = "ended" /\ cutIn[s] \notin {"run", "conflict", "refused", "finally"}
            => \A c \in containers : c.owner # s

\* No session ever takes down another one's sandbox: what goes with a session's
\* step is its own, although two sessions may have picked the same port
\* (_pytest_plugin.py:138-156).
RemovesOnlyItsOwn ==
    [][\A c \in containers \ containers' : pc' # pc => pc'[c.owner] # pc[c.owner]]_vars

\* Every session ends, however many port conflicts it meets.
EverySessionEnds == \A s \in Sessions : <>(pc[s] = "ended")
=================================================================================
