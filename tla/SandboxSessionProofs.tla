-------------------------- MODULE SandboxSessionProofs --------------------------
(* Theorems about SandboxSession, for any number of sessions, ports and other   *)
(* programs.                                                                    *)
EXTENDS SandboxSession, TLAPS

Labels == {"probe", "pick", "run", "conflict", "refused", "ready", "yielded", "finally", "ended"}

\* Where an interrupt may leave a container behind.
Leaky == {"run", "conflict", "refused", "finally"}

Containers ==
    [name : Sessions \X (0 .. CreateAttempts) \X Ports, owner : Sessions, port : Ports, up : BOOLEAN]

\* What the theorems need of the types; a container's name begins with its owner.
Types ==
    /\ pc \in [Sessions -> Labels]
    /\ attempts \in [Sessions -> 0 .. CreateAttempts]
    /\ port \in [Sessions -> Ports]
    /\ cutIn \in [Sessions -> Labels \cup {"none"}]
    /\ result \in [Sessions -> {"none", "skipped", "timeout", "done", "interrupted"}]
    /\ recorded \subseteq Sessions
    /\ containers \subseteq Containers
    /\ \A c \in containers : c.name[1] = c.owner

\* A session may start a run while attempts are left.
Counts(s) == pc[s] \in {"probe", "pick"} => attempts[s] > 0

\* While a session lives, its containers have the name of its last run, and it has
\* recorded them or is about to remove them.  Once it has ended it has none.
Holds(s) ==
    /\ pc[s] # "ended" => \A c \in containers : c.owner = s =>
          /\ c.name = Name(s)
          /\ \/ pc[s] \in {"conflict", "refused"}
             \/ pc[s] \in {"ready", "yielded", "finally"} /\ s \in recorded
    /\ pc[s] = "ended" /\ cutIn[s] \notin Leaky => \A c \in containers : c.owner # s

Inv == Types /\ \A s \in Sessions : Counts(s) /\ Holds(s)

-------------------------------------------------------------------------------

\* What a run adds is a container, and its session's.
LEMMA AddedIsOwn ==
    ASSUME Types, NEW s \in Sessions, NEW up \in BOOLEAN, containers' = Added(s, up)
    PROVE  /\ containers' \subseteq Containers /\ containers \subseteq containers'
           /\ \A c \in containers' : c.name[1] = c.owner
           /\ \A c \in containers' \ containers : c.owner = s /\ c.name = Name(s)
<1>1. Name(s) \in Sessions \X (0 .. CreateAttempts) \X Ports /\ Name(s)[1] = s
  BY DEF Types, Name
<1>2. [name |-> Name(s), owner |-> s, port |-> port[s], up |-> up] \in Containers
  BY <1>1 DEF Containers, Types
<1>3. QED
  BY <1>1, <1>2 DEF Added, Types

\* A session's own step changes nothing of the other sessions, adds only containers
\* of its own and removes only those named after its last run.
LEMMA StepIsLocal ==
    ASSUME Inv, NEW s \in Sessions, SessionStep(s) \/ Interrupt(s)
    PROVE  /\ Types' /\ pc'[s] # pc[s]
           /\ \A c \in containers' \ containers : c.owner = s /\ c.name = Name(s)
           /\ \A c \in containers \ containers' : c.name = Name(s)
           /\ \A g \in Sessions \ {s} : /\ pc'[g] = pc[g] /\ attempts'[g] = attempts[g]
                                        /\ port'[g] = port[g] /\ cutIn'[g] = cutIn[g]
                                        /\ g \in recorded' <=> g \in recorded
<1> USE DEF Inv, Types, Labels, Goto, End
<1>a. (\E up \in BOOLEAN : containers' = Added(s, up)) =>
         /\ containers' \subseteq Containers /\ containers \subseteq containers'
         /\ \A c \in containers' : c.name[1] = c.owner
         /\ \A c \in containers' \ containers : c.owner = s /\ c.name = Name(s)
  BY AddedIsOwn
<1>n. \A c \in Named(Name(s)) : c \in containers /\ c.name = Name(s)
  BY DEF Named
<1>c. pc[s] = "pick" => attempts[s] - 1 \in 0 .. CreateAttempts
  BY DEF Counts, CreateAttempts
<1>1. CASE Probe(s)
  BY <1>1 DEF Probe
<1>2. CASE PickPort(s)
  BY <1>2, <1>c DEF PickPort
<1>3. CASE Run(s)
  <2>1. containers' = Added(s, TRUE) /\ TRUE \in BOOLEAN
    BY <1>3 DEF Run
  <2>2. QED
    BY <1>3, <1>a, <2>1 DEF Run
<1>4. CASE RunFails(s)
  <2>1. containers' = containers \/ (containers' = Added(s, FALSE) /\ FALSE \in BOOLEAN)
    BY <1>4 DEF RunFails
  <2>2. QED
    BY <1>4, <1>a, <2>1 DEF RunFails
<1>5. CASE NoDocker(s)
  BY <1>5 DEF NoDocker
<1>6. CASE RunCleanup(s)
  BY <1>6, <1>n DEF RunCleanup, RemoveFailed
<1>7. CASE Ready(s)
  BY <1>7 DEF Ready
<1>8. CASE NotReady(s)
  BY <1>8 DEF NotReady
<1>9. CASE TestsEnd(s)
  BY <1>9 DEF TestsEnd
<1>10. CASE Finally(s)
  BY <1>10, <1>n DEF Finally
<1>11. CASE Interrupt(s)
  <2>1. containers' = containers \/ (containers' = Added(s, TRUE) /\ TRUE \in BOOLEAN)
    BY <1>11 DEF Interrupt
  <2>2. QED
    BY <1>11, <1>a, <2>1 DEF Interrupt
<1>12. QED
  BY <1>1, <1>2, <1>3, <1>4, <1>5, <1>6, <1>7, <1>8, <1>9, <1>10, <1>11 DEF SessionStep

\* A session keeps track of its own containers.
LEMMA StepHolds ==
    ASSUME Inv, NEW s \in Sessions, SessionStep(s) \/ Interrupt(s)
    PROVE  Counts(s)' /\ Holds(s)'
<1> USE DEF Inv, Counts, Holds, Goto, End, Leaky, Types, Labels
<1>a. (\E up \in BOOLEAN : containers' = Added(s, up)) =>
         \A c \in containers' \ containers : c.owner = s /\ c.name = Name(s)
  BY AddedIsOwn
<1>0. Types'
  BY StepIsLocal
<1>n. \A c \in containers \ Named(Name(s)) : c.name # Name(s)
  BY DEF Named
<1>1. CASE Probe(s)
  BY <1>0, <1>1 DEF Probe
<1>2. CASE PickPort(s)
  BY <1>0, <1>2 DEF PickPort
<1>3. CASE Run(s)
  <2>1. containers' = Added(s, TRUE) /\ TRUE \in BOOLEAN
    BY <1>3 DEF Run
  <2>2. \A c \in containers' : c.owner = s => c.name = Name(s)
    BY <1>3, <1>a, <2>1 DEF Run
  <2>3. pc'[s] = "ready" /\ s \in recorded' /\ Name(s)' = Name(s)
    BY <1>3 DEF Run, Name
  <2>4. QED
    BY <2>2, <2>3
<1>4. CASE RunFails(s)
  <2>1. containers' = containers \/ (containers' = Added(s, FALSE) /\ FALSE \in BOOLEAN)
    BY <1>4 DEF RunFails
  <2>2. \A c \in containers' : c.owner = s => c.name = Name(s)
    BY <1>4, <1>a, <2>1 DEF RunFails
  <2>3. QED
    BY <1>0, <1>4, <2>2 DEF RunFails, Name
<1>5. CASE NoDocker(s)
  BY <1>0, <1>5 DEF NoDocker
<1>6. CASE RunCleanup(s)
  BY <1>0, <1>6, <1>n DEF RunCleanup, RemoveFailed, MayRetryPort
<1>7. CASE Ready(s)
  BY <1>0, <1>7 DEF Ready, Name
<1>8. CASE NotReady(s)
  BY <1>0, <1>8 DEF NotReady, Name
<1>9. CASE TestsEnd(s)
  BY <1>0, <1>9 DEF TestsEnd, Name
<1>10. CASE Finally(s)
  BY <1>0, <1>10, <1>n DEF Finally
<1>11. CASE Interrupt(s)
  <2>1. pc[s] # "run" => containers' = containers
    BY <1>11 DEF Interrupt
  <2>2. QED
    BY <1>0, <1>11, <2>1 DEF Interrupt, Name
<1>12. QED
  BY <1>1, <1>2, <1>3, <1>4, <1>5, <1>6, <1>7, <1>8, <1>9, <1>10, <1>11 DEF SessionStep

\* A step of a session keeps the invariant.
LEMMA SessionKeepsInv ==
    ASSUME Inv, NEW s \in Sessions, SessionStep(s) \/ Interrupt(s)
    PROVE  Inv'
<1>1. ASSUME NEW g \in Sessions \ {s} PROVE Counts(g)' /\ Holds(g)'
  BY StepIsLocal DEF Inv, Counts, Holds, Name
<1>2. QED
  BY <1>1, StepIsLocal, StepHolds DEF Inv

\* So does a step of the machine, which only ever takes a container away.
LEMMA MachineKeepsInv ==
    ASSUME Inv, UNCHANGED sessionVars, containers' \subseteq containers
    PROVE  Inv'
BY DEF Inv, Types, Counts, Holds, Name, sessionVars

\* The invariant of the sessions, whatever they meet and wherever they are interrupted.
THEOREM SessionsInvariant == Spec => []Inv
<1>1. Init => Inv
  BY DEF Init, Inv, Types, Labels, Counts, Holds, CreateAttempts
<1>2. Inv /\ [Next]_vars => Inv'
  <2> SUFFICES ASSUME Inv, [Next]_vars PROVE Inv'
    OBVIOUS
  <2>1. CASE UNCHANGED vars
    BY <2>1, MachineKeepsInv DEF vars
  <2>2. CASE \E s \in Sessions : SessionStep(s) \/ Interrupt(s)
    BY <2>2, SessionKeepsInv
  <2>3. CASE \E c \in containers : Exit(c)
    BY <2>3, MachineKeepsInv DEF Exit
  <2>4. CASE \E p \in Ports : Grab(p) \/ Release(p)
    BY <2>4, MachineKeepsInv DEF Grab, Release
  <2>5. QED
    BY <2>1, <2>2, <2>3, <2>4 DEF Next, Done
<1>3. QED
  BY <1>1, <1>2, PTL DEF Spec

-------------------------------------------------------------------------------
(* The properties.                                                             *)

\* Every variable has its type.
THEOREM SessionsTypeCorrect == Spec => []TypeOK
<1>1. Inv => TypeOK
  BY DEF Inv, Types, Labels, TypeOK
<1>2. QED
  BY <1>1, SessionsInvariant, PTL

\* No session that ended in an orderly way leaves a container behind.
THEOREM SessionsLeaveNothing == Spec => []NoLeak
<1>1. Inv => NoLeak
  BY DEF Inv, Holds, Leaky, NoLeak
<1>2. QED
  BY <1>1, SessionsInvariant, PTL

\* No session takes down another one's sandbox.
THEOREM SessionsRemoveTheirOwn == Spec => RemovesOnlyItsOwn
<1>1. ASSUME Inv, [Next]_vars, NEW c \in containers \ containers', pc' # pc
      PROVE  pc'[c.owner] # pc[c.owner]
  <2>1. PICK s \in Sessions : SessionStep(s) \/ Interrupt(s)
    BY <1>1 DEF Next, Done, Exit, Grab, Release, sessionVars, vars
  <2>2. c.name = Name(s) /\ pc'[s] # pc[s]
    BY <1>1, <2>1, StepIsLocal
  <2>3. c.owner = s
    BY <1>1, <2>2 DEF Inv, Types, Name
  <2>4. QED
    BY <2>2, <2>3
<1>2. Inv /\ [Next]_vars => [\A c \in containers \ containers' : pc' # pc => pc'[c.owner] # pc[c.owner]]_vars
  BY <1>1
<1>3. QED
  BY <1>2, SessionsInvariant, PTL DEF Spec, RemovesOnlyItsOwn
================================================================================
