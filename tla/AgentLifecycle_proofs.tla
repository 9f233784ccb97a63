----------------------- MODULE AgentLifecycle_proofs -----------------------
(***************************************************************************)
(* Proofs about AgentLifecycle, for any set of callers, any number of runs *)
(* and of workers left behind.                                             *)
(***************************************************************************)
EXTENDS AgentLifecycle, TLAPS

\* Runs are started one after the other and current is the latest of them.
RunsInOrder ==
    /\ current = started
    /\ \A r \in Runs : run[r] # "none" <=> r <= started

\* Outside of the window a run starts only after all earlier ones have ended.
EarlierExited == ~overtaken => \A r \in Runs : r < current => run[r] = "exited"

\* Only cancelled runs leave workers behind.
LateCancelled == \A r \in Runs : late[r] > 0 => r \in cancelled

IInv ==
    /\ TypeOK /\ OneRunAtATime /\ RunsInOrder /\ EarlierExited
    /\ CleanEnd /\ LateCancelled /\ PanicNeedsRace

\* The parts of the state a caller that only waits leaves alone.
runState == <<running, current, started, doneClosed, eventsClosed, run, late, panicked,
              overtaken>>

-----------------------------------------------------------------------------
LEMMA InitIInv == Init => IInv
<1> SUFFICES ASSUME Init PROVE IInv
  OBVIOUS
<1>1. TypeOK
  <2>1. Idle \in CallerStates
    BY AgentLifecycleAssumption DEF CallerStates, Idle
  <2>2. 0 \in 0..MaxRuns /\ 0 \in 0..MaxLate /\ "none" \in RunSteps
    BY AgentLifecycleAssumption DEF RunSteps
  <2> QED
    BY <2>1, <2>2 DEF Init, TypeOK
<1>2. OneRunAtATime
  BY DEF Init, OneRunAtATime, Active
<1>3. RunsInOrder
  BY AgentLifecycleAssumption DEF Init, RunsInOrder, Runs
<1>4. EarlierExited /\ CleanEnd /\ LateCancelled /\ PanicNeedsRace
  BY AgentLifecycleAssumption
  DEF Init, EarlierExited, CleanEnd, LateCancelled, PanicNeedsRace, Runs
<1> QED
  BY <1>1, <1>2, <1>3, <1>4 DEF IInv

-----------------------------------------------------------------------------
\* What the steps of a caller that does not start a run do: at most they cancel
\* the current run.
LEMMA CallerStep ==
  ASSUME TypeOK, NEW p \in Callers, Caller(p), ~StartRun(p)
  PROVE  /\ UNCHANGED runState
         /\ cancelled \subseteq cancelled' /\ cancelled' \subseteq cancelled \union {current}
         /\ cancelled' \subseteq Runs
         /\ caller' \in [Callers -> CallerStates]
<1> USE AgentLifecycleAssumption DEF TypeOK, Runs, CallerStates, Become, runState
<1>1. CASE StartWait(p)
  BY <1>1 DEF StartWait
<1>2. CASE StartWakes(p)
  BY <1>2 DEF StartWakes
<1>3. CASE StartGivesUp(p)
  BY <1>3 DEF StartGivesUp
<1>4. CASE Cancel(p)
  BY <1>4 DEF Cancel, CancelCurrent
<1>5. CASE Stop(p)
  BY <1>5 DEF Stop, CancelCurrent
<1>6. CASE StopReadsDone(p)
  BY <1>6 DEF StopReadsDone
<1>7. CASE StopReturns(p)
  BY <1>7 DEF StopReturns
<1> QED
  BY <1>1, <1>2, <1>3, <1>4, <1>5, <1>6, <1>7 DEF Caller

\* Such a step, and one that changes nothing, keeps the invariant.
LEMMA SameRuns ==
  ASSUME IInv, UNCHANGED runState,
         cancelled \subseteq cancelled', cancelled' \subseteq Runs,
         caller' \in [Callers -> CallerStates]
  PROVE  IInv'
<1>1. TypeOK'
  BY DEF IInv, TypeOK, runState
<1>2. (OneRunAtATime /\ RunsInOrder /\ EarlierExited)'
  BY DEF IInv, OneRunAtATime, Active, RunsInOrder, EarlierExited, runState
<1>3. (CleanEnd /\ LateCancelled /\ PanicNeedsRace)'
  BY DEF IInv, CleanEnd, LateCancelled, PanicNeedsRace, runState
<1> QED
  BY <1>1, <1>2, <1>3 DEF IInv

\* A run is started: the agent was idle, so every earlier run has at least
\* cleared running, and unless one still has to close, all have ended.
LEMMA StartStep ==
  ASSUME IInv, NEW p \in Callers, StartRun(p)
  PROVE  IInv'
<1> USE AgentLifecycleAssumption
<1> DEFINE new == started + 1
<1>1. /\ new \in Runs /\ started \in Nat /\ run \in [Runs -> RunSteps]
      /\ started' = new /\ current' = new /\ running' = TRUE /\ ~running
      /\ run' = [run EXCEPT ![new] = "body"]
      /\ run[new] = "none"
      /\ UNCHANGED <<cancelled, doneClosed, eventsClosed, late, panicked>>
      /\ overtaken' = (overtaken \/ Closing # {})
  BY DEF StartRun, IInv, TypeOK, RunsInOrder, Runs
<1>2. TypeOK'
  BY <1>1 DEF StartRun, IInv, TypeOK, Runs, RunSteps, Become, CallerStates
<1>3. OneRunAtATime'
  BY <1>1 DEF IInv, OneRunAtATime, Active
<1>4. RunsInOrder'
  BY <1>1 DEF IInv, RunsInOrder, Runs
<1>5. EarlierExited'
  <2> SUFFICES ASSUME ~overtaken', NEW r \in Runs, r < new PROVE run[r] = "exited"
    BY <1>1 DEF EarlierExited, Runs
  <2>1. run[r] \notin {"closeDone", "closeEvents"}
    BY <1>1 DEF Closing
  <2>2. run[r] \notin {"body", "defer"}
    BY <1>1 DEF IInv, OneRunAtATime, Active
  <2>3. run[r] # "none"
    BY <1>1 DEF IInv, RunsInOrder, Runs
  <2> QED
    BY <1>1, <2>1, <2>2, <2>3 DEF RunSteps
<1>6. CleanEnd'
  BY <1>1 DEF IInv, CleanEnd
<1>7. (LateCancelled /\ PanicNeedsRace)'
  BY <1>1 DEF IInv, LateCancelled, PanicNeedsRace
<1> QED
  BY <1>2, <1>3, <1>4, <1>5, <1>6, <1>7 DEF IInv

-----------------------------------------------------------------------------
\* Outside of the window the run that takes a step is the current one.
LEMMA StepIsCurrent ==
  ASSUME IInv, NEW r \in Runs, run[r] \notin {"none", "exited"}, ~overtaken
  PROVE  r = current
BY AgentLifecycleAssumption DEF IInv, TypeOK, RunsInOrder, EarlierExited, Runs

\* The body of a run and its deferred function up to ClearRunning.
LEMMA BodyStep ==
  ASSUME IInv, NEW r \in Runs, BodyReturns(r) \/ ClearRunning(r)
  PROVE  IInv'
<1> USE AgentLifecycleAssumption
<1>1. CASE BodyReturns(r)
  <2>1. /\ run[r] = "body" /\ run \in [Runs -> RunSteps]
        /\ run' = [run EXCEPT ![r] = "defer"]
        /\ UNCHANGED <<running, current, started, cancelled, doneClosed, eventsClosed,
                       caller, panicked, overtaken>>
    BY <1>1 DEF BodyReturns, IInv, TypeOK
  <2>2. late' \in [Runs -> 0..MaxLate] /\ LateCancelled'
    <3>1. PICK n \in 0..(IF r \in cancelled THEN MaxLate ELSE 0) :
              late' = [late EXCEPT ![r] = n]
      BY <1>1 DEF BodyReturns
    <3> QED
      BY <2>1, <3>1 DEF IInv, TypeOK, LateCancelled
  <2>3. TypeOK'
    BY <2>1, <2>2 DEF IInv, TypeOK, RunSteps
  <2>4. OneRunAtATime' /\ RunsInOrder'
    BY <2>1 DEF IInv, OneRunAtATime, Active, RunsInOrder
  <2>5. (EarlierExited /\ CleanEnd /\ PanicNeedsRace)'
    BY <2>1 DEF IInv, EarlierExited, CleanEnd, PanicNeedsRace
  <2> QED
    BY <2>2, <2>3, <2>4, <2>5 DEF IInv
<1>2. CASE ClearRunning(r)
  <2>1. /\ run[r] = "defer" /\ run \in [Runs -> RunSteps] /\ running' = FALSE
        /\ run' = [run EXCEPT ![r] = "closeDone"]
        /\ UNCHANGED <<current, started, cancelled, doneClosed, eventsClosed, late,
                       caller, panicked, overtaken>>
    BY <1>2 DEF ClearRunning, IInv, TypeOK
  <2>2. TypeOK'
    BY <2>1 DEF IInv, TypeOK, RunSteps
  <2>3. OneRunAtATime'
    <3>1. r \in Active
      BY <2>1 DEF Active
    <3>2. Active = {r}
      BY <3>1 DEF IInv, OneRunAtATime
    <3> QED
      BY <2>1, <3>2 DEF OneRunAtATime, Active
  <2>4. (RunsInOrder /\ EarlierExited /\ CleanEnd /\ LateCancelled /\ PanicNeedsRace)'
    BY <2>1
    DEF IInv, RunsInOrder, EarlierExited, CleanEnd, LateCancelled, PanicNeedsRace
  <2> QED
    BY <2>2, <2>3, <2>4 DEF IInv
<1> QED
  BY <1>1, <1>2

\* The two closes: outside of the window they are of the run's own channels,
\* which nobody closed before.
LEMMA CloseStep ==
  ASSUME IInv, NEW r \in Runs, CloseDone(r) \/ CloseEvents(r)
  PROVE  IInv'
<1> USE AgentLifecycleAssumption
<1>0. run[r] \in {"closeDone", "closeEvents"} /\ run \in [Runs -> RunSteps]
  BY DEF CloseDone, CloseEvents, IInv, TypeOK
<1>1. ~overtaken => r = current
  BY <1>0, StepIsCurrent
<1>2. CASE CloseDone(r)
  <2>1. /\ run[r] = "closeDone"
        /\ run' = [run EXCEPT ![r] = "closeEvents"]
        /\ panicked' = (panicked \/ current \in doneClosed)
        /\ doneClosed' = doneClosed \union {current}
        /\ UNCHANGED <<running, current, started, cancelled, eventsClosed, late, caller,
                       overtaken>>
    BY <1>2 DEF CloseDone, CloseOnce
  <2>2. TypeOK'
    BY <1>0, <2>1 DEF IInv, TypeOK, RunSteps
  <2>3. (OneRunAtATime /\ RunsInOrder /\ EarlierExited /\ LateCancelled)'
    BY <1>0, <2>1
    DEF IInv, OneRunAtATime, Active, RunsInOrder, EarlierExited, LateCancelled
  <2>4. CleanEnd' /\ PanicNeedsRace'
    BY <1>0, <1>1, <2>1 DEF IInv, CleanEnd, PanicNeedsRace
  <2> QED
    BY <2>2, <2>3, <2>4 DEF IInv
<1>3. CASE CloseEvents(r)
  <2>1. /\ run[r] = "closeEvents"
        /\ run' = [run EXCEPT ![r] = "exited"]
        /\ panicked' = (panicked \/ current \in eventsClosed)
        /\ eventsClosed' = eventsClosed \union {current}
        /\ UNCHANGED <<running, current, started, cancelled, doneClosed, late, caller,
                       overtaken>>
    BY <1>3 DEF CloseEvents, CloseOnce
  <2>2. TypeOK'
    BY <1>0, <2>1 DEF IInv, TypeOK, RunSteps
  <2>3. (OneRunAtATime /\ RunsInOrder /\ EarlierExited /\ LateCancelled)'
    BY <1>0, <2>1
    DEF IInv, OneRunAtATime, Active, RunsInOrder, EarlierExited, LateCancelled
  <2>4. CleanEnd' /\ PanicNeedsRace'
    BY <1>0, <1>1, <2>1 DEF IInv, CleanEnd, PanicNeedsRace
  <2> QED
    BY <2>2, <2>3, <2>4 DEF IInv
<1> QED
  BY <1>2, <1>3

\* Emitting an event changes nothing but what a panic leaves behind.
LEMMA EmitStep ==
  ASSUME IInv, NEW r \in Runs, BodyEmits(r) \/ LateWorkerEmits(r)
  PROVE  IInv'
<1> USE AgentLifecycleAssumption
<1>1. /\ panicked' = (panicked \/ current \in eventsClosed)
      /\ UNCHANGED <<running, current, started, cancelled, doneClosed, eventsClosed, run,
                     caller, overtaken>>
  BY DEF BodyEmits, LateWorkerEmits, Emit
<1>2. late' \in [Runs -> 0..MaxLate] /\ LateCancelled'
  <2>1. CASE BodyEmits(r)
    BY <1>1, <2>1 DEF BodyEmits, IInv, TypeOK, LateCancelled
  <2>2. CASE LateWorkerEmits(r)
    <3>1. late' = [late EXCEPT ![r] = late[r] - 1] /\ late[r] > 0
      BY <2>2 DEF LateWorkerEmits
    <3> QED
      BY <1>1, <3>1 DEF IInv, TypeOK, LateCancelled
  <2> QED
    BY <2>1, <2>2
<1>3. TypeOK'
  BY <1>1, <1>2 DEF IInv, TypeOK
<1>4. (OneRunAtATime /\ RunsInOrder /\ EarlierExited /\ CleanEnd)'
  BY <1>1 DEF IInv, OneRunAtATime, Active, RunsInOrder, EarlierExited, CleanEnd
<1>5. PanicNeedsRace'
  <2>1. CASE BodyEmits(r)
    <3>1. ~overtaken => r = current
      BY <2>1, StepIsCurrent DEF BodyEmits
    <3>2. ~overtaken => current \notin eventsClosed
      BY <2>1, <3>1 DEF BodyEmits, IInv, CleanEnd
    <3> QED
      BY <1>1, <3>2 DEF IInv, PanicNeedsRace
  <2>2. CASE LateWorkerEmits(r)
    <3>1. r \in cancelled
      BY <2>2 DEF LateWorkerEmits, IInv, LateCancelled
    <3> QED
      BY <1>1, <3>1 DEF PanicNeedsRace
  <2> QED
    BY <2>1, <2>2
<1> QED
  BY <1>2, <1>3, <1>4, <1>5 DEF IInv

LEMMA NextIInv == IInv /\ [Next]_vars => IInv'
<1> SUFFICES ASSUME IInv, [Next]_vars PROVE IInv'
  OBVIOUS
<1>1. ASSUME NEW p \in Callers, StartRun(p) PROVE IInv'
  BY <1>1, StartStep
<1>2. ASSUME NEW p \in Callers, Caller(p), ~StartRun(p) PROVE IInv'
  <2>1. TypeOK
    BY DEF IInv
  <2> QED
    BY <1>2, <2>1, CallerStep, SameRuns
<1>3. ASSUME NEW r \in Runs, Run(r) PROVE IInv'
  BY <1>3, BodyStep, CloseStep DEF Run
<1>4. ASSUME NEW r \in Runs, BodyEmits(r) \/ LateWorkerEmits(r) PROVE IInv'
  BY <1>4, EmitStep
<1>5. CASE UNCHANGED vars
  <2>1. TypeOK
    BY DEF IInv
  <2>2. UNCHANGED runState /\ UNCHANGED <<cancelled, caller>>
    BY <1>5 DEF vars, runState
  <2> QED
    BY <2>1, <2>2, SameRuns DEF TypeOK
<1> QED
  BY <1>1, <1>2, <1>3, <1>4, <1>5 DEF Next

-----------------------------------------------------------------------------
THEOREM Invariance == Spec => []IInv
  BY InitIInv, NextIInv, PTL DEF Spec

\* Every reachable state of the agent's life is well typed.
THEOREM TypeCorrect == Spec => []TypeOK
<1>1. IInv => TypeOK
  BY DEF IInv
<1> QED
  BY <1>1, Invariance, PTL

\* However many callers start, cancel and stop the agent, one run at most works
\* on it, and it is the one running stands for.
THEOREM Exclusive == Spec => []OneRunAtATime
<1>1. IInv => OneRunAtATime
  BY DEF IInv
<1> QED
  BY <1>1, Invariance, PTL

\* As long as no run starts while an earlier one still has to close, every run
\* closes its own done and events channels, in this order, and no others.
THEOREM OwnChannels == Spec => []CleanEnd
<1>1. IInv => CleanEnd
  BY DEF IInv
<1> QED
  BY <1>1, Invariance, PTL

\* The agent panics on a closed channel only after such an overlap, or after a
\* run was cancelled.
THEOREM PanicCauses == Spec => []PanicNeedsRace
<1>1. IInv => PanicNeedsRace
  BY DEF IInv
<1> QED
  BY <1>1, Invariance, PTL
=============================================================================
