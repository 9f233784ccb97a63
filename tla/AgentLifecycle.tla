--------------------------- MODULE AgentLifecycle ---------------------------
(***************************************************************************)
(* Starting, stopping and ending runs of one Agent (core/agent.go): Start, *)
(* Cancel and Stop called by several goroutines, the deferred function     *)
(* with which a run ends, and the goroutines that emit events: the run     *)
(* itself and tool workers that a cancelled batch left behind.             *)
(*                                                                         *)
(* Every Start makes a new done channel, a new events channel and a new    *)
(* context, numbered like the run; 0 stands for the channels NewAgent made *)
(* and for the absence of a context.  Agent.done and Agent.events are read *)
(* again at each use, so a goroutine of one run may use those of another.  *)
(***************************************************************************)
EXTENDS Naturals, FiniteSets

CONSTANTS
    Callers,       \* goroutines that call Start, Cancel and Stop
    MaxRuns,       \* bound: runs started
    MaxLate        \* bound: workers a cancelled run leaves behind

ASSUME AgentLifecycleAssumption == MaxRuns \in Nat /\ MaxLate \in Nat

Runs == 1..MaxRuns

VARIABLES
    running,       \* Agent.running
    current,       \* the number of Agent.done, Agent.events and Agent.cancel
    started,       \* runs started so far
    cancelled,     \* runs whose context is cancelled
    doneClosed,    \* done channels that are closed
    eventsClosed,  \* events channels that are closed
    run,           \* where each run goroutine is
    late,          \* workers left behind, per run
    caller,        \* what each caller is doing
    panicked,      \* a closed channel was closed again or sent on
    overtaken      \* a run started while an earlier one still had to close

vars == <<running, current, started, cancelled, doneClosed, eventsClosed, run, late,
          caller, panicked, overtaken>>

RunSteps == {"none", "body", "defer", "closeDone", "closeEvents", "exited"}

\* A caller waits on the done channel it read, inside Start or inside Stop.
Idle == [doing |-> "idle", on |-> 0]
CallerStates == [doing : {"idle", "start", "startWait", "stop", "stopWait"}, on : 0..MaxRuns]

TypeOK ==
    /\ running \in BOOLEAN
    /\ current \in 0..MaxRuns
    /\ started \in 0..MaxRuns
    /\ cancelled \subseteq Runs
    /\ doneClosed \subseteq 0..MaxRuns
    /\ eventsClosed \subseteq 0..MaxRuns
    /\ run \in [Runs -> RunSteps]
    /\ late \in [Runs -> 0..MaxLate]
    /\ caller \in [Callers -> CallerStates]
    /\ panicked \in BOOLEAN
    /\ overtaken \in BOOLEAN

Init ==
    /\ running = FALSE
    /\ current = 0
    /\ started = 0
    /\ cancelled = {}
    /\ doneClosed = {}
    /\ eventsClosed = {}
    /\ run = [r \in Runs |-> "none"]
    /\ late = [r \in Runs |-> 0]
    /\ caller = [p \in Callers |-> Idle]
    /\ panicked = FALSE
    /\ overtaken = FALSE

-----------------------------------------------------------------------------
(***************************************************************************)
(* The callers.                                                            *)
(***************************************************************************)

\* Runs that have cleared running and still have channels to close.
Closing == {r \in Runs : run[r] \in {"closeDone", "closeEvents"}}

Become(p, doing, on) == caller' = [caller EXCEPT ![p] = [doing |-> doing, on |-> on]]

\* Mutation: the woken Start does not test running again.
StartRunUntested(p) ==
    /\ ~panicked
    /\ caller[p].doing \in {"idle", "start"}
    /\ ~running \/ caller[p].doing = "start"
    /\ started < MaxRuns
    /\ running' = TRUE
    /\ started' = started + 1
    /\ current' = started + 1
    /\ run' = [run EXCEPT ![started + 1] = "body"]
    /\ Become(p, "idle", 0)
    /\ overtaken' = (overtaken \/ Closing # {})
    /\ UNCHANGED <<cancelled, doneClosed, eventsClosed, late, panicked>>

\* Start, with Agent.mu held: the loop tests running.  A Start that finds the
\* agent idle takes it in the same critical section.
StartRun(p) ==
    /\ ~panicked
    /\ caller[p].doing \in {"idle", "start"}
    /\ ~running
    /\ started < MaxRuns
    /\ running' = TRUE
    /\ started' = started + 1
    /\ current' = started + 1
    /\ run' = [run EXCEPT ![started + 1] = "body"]
    /\ Become(p, "idle", 0)
    /\ overtaken' = (overtaken \/ Closing # {})
    /\ UNCHANGED <<cancelled, doneClosed, eventsClosed, late, panicked>>

\* It finds the agent running and waits on the done channel it read.
StartWait(p) ==
    /\ ~panicked
    /\ caller[p].doing \in {"idle", "start"}
    /\ running
    /\ started < MaxRuns
    /\ Become(p, "startWait", current)
    /\ UNCHANGED <<running, current, started, cancelled, doneClosed, eventsClosed, run,
                   late, panicked, overtaken>>

\* The channel is closed: test running again.
StartWakes(p) ==
    /\ ~panicked
    /\ caller[p].doing = "startWait"
    /\ caller[p].on \in doneClosed
    /\ Become(p, "start", 0)
    /\ UNCHANGED <<running, current, started, cancelled, doneClosed, eventsClosed, run,
                   late, panicked, overtaken>>

\* The caller's own context ends first: it gets a closed, empty channel.
StartGivesUp(p) ==
    /\ ~panicked
    /\ caller[p].doing = "startWait"
    /\ Become(p, "idle", 0)
    /\ UNCHANGED <<running, current, started, cancelled, doneClosed, eventsClosed, run,
                   late, panicked, overtaken>>

CancelCurrent == cancelled' = cancelled \union ({current} \ {0})

Cancel(p) ==
    /\ ~panicked
    /\ caller[p].doing = "idle"
    /\ current \notin cancelled /\ current # 0
    /\ CancelCurrent
    /\ UNCHANGED <<running, current, started, doneClosed, eventsClosed, run, late,
                   caller, panicked, overtaken>>

\* Stop cancels in one critical section and reads done in another.  The callers
\* in the program saw IsRunning before, so that some run was started.
Stop(p) ==
    /\ ~panicked
    /\ caller[p].doing = "idle"
    /\ current # 0
    /\ CancelCurrent
    /\ Become(p, "stop", 0)
    /\ UNCHANGED <<running, current, started, doneClosed, eventsClosed, run, late,
                   panicked, overtaken>>

StopReadsDone(p) ==
    /\ ~panicked
    /\ caller[p].doing = "stop"
    /\ Become(p, "stopWait", current)
    /\ UNCHANGED <<running, current, started, cancelled, doneClosed, eventsClosed, run,
                   late, panicked, overtaken>>

StopReturns(p) ==
    /\ ~panicked
    /\ caller[p].doing = "stopWait"
    /\ caller[p].on \in doneClosed
    /\ Become(p, "idle", 0)
    /\ UNCHANGED <<running, current, started, cancelled, doneClosed, eventsClosed, run,
                   late, panicked, overtaken>>

Caller(p) ==
    \/ StartRun(p) \/ StartWait(p) \/ StartWakes(p) \/ StartGivesUp(p)
    \/ Cancel(p) \/ Stop(p) \/ StopReadsDone(p) \/ StopReturns(p)

-----------------------------------------------------------------------------
(***************************************************************************)
(* The runs.  A panic ends the program: no step is taken after it.          *)
(***************************************************************************)

\* emit on the agent's events channel: a send on a closed one panics.
Emit == panicked' = (panicked \/ current \in eventsClosed)

\* close of a channel: a second time panics.
CloseOnce(closed) ==
    /\ panicked' = (panicked \/ current \in closed)
    /\ closed' = closed \union {current}

\* The body emits events as long as it lasts.
BodyEmits(r) ==
    /\ ~panicked
    /\ run[r] = "body"
    /\ Emit
    /\ UNCHANGED <<running, current, started, cancelled, doneClosed, eventsClosed, run,
                   late, caller, overtaken>>

\* Mutation: executeTools gives up on workers of a run that goes on.
BodyReturnsEarly(r) ==
    /\ ~panicked
    /\ run[r] = "body"
    /\ run' = [run EXCEPT ![r] = "defer"]
    /\ \E n \in 0..MaxLate : late' = [late EXCEPT ![r] = n]
    /\ UNCHANGED <<running, current, started, cancelled, doneClosed, eventsClosed,
                   caller, panicked, overtaken>>

\* The body returns.  executeTools may have given up on workers of a cancelled
\* run.
BodyReturns(r) ==
    /\ ~panicked
    /\ run[r] = "body"
    /\ run' = [run EXCEPT ![r] = "defer"]
    /\ \E n \in 0..(IF r \in cancelled THEN MaxLate ELSE 0) : late' = [late EXCEPT ![r] = n]
    /\ UNCHANGED <<running, current, started, cancelled, doneClosed, eventsClosed,
                   caller, panicked, overtaken>>

\* The deferred function, one step per critical section.
ClearRunning(r) ==
    /\ ~panicked
    /\ run[r] = "defer"
    /\ running' = FALSE
    /\ run' = [run EXCEPT ![r] = "closeDone"]
    /\ UNCHANGED <<current, started, cancelled, doneClosed, eventsClosed, late, caller,
                   panicked, overtaken>>

\* Mutation: done is never closed.
CloseDoneForgotten(r) ==
    /\ ~panicked
    /\ run[r] = "closeDone"
    /\ run' = [run EXCEPT ![r] = "closeEvents"]
    /\ UNCHANGED <<panicked, doneClosed, running, current, started, cancelled, eventsClosed, late, caller,
                   overtaken>>

CloseDone(r) ==
    /\ ~panicked
    /\ run[r] = "closeDone"
    /\ CloseOnce(doneClosed)
    /\ run' = [run EXCEPT ![r] = "closeEvents"]
    /\ UNCHANGED <<running, current, started, cancelled, eventsClosed, late, caller,
                   overtaken>>

\* Mutation: events is never closed.
CloseEventsForgotten(r) ==
    /\ ~panicked
    /\ run[r] = "closeEvents"
    /\ run' = [run EXCEPT ![r] = "exited"]
    /\ UNCHANGED <<panicked, eventsClosed, running, current, started, cancelled, doneClosed, late, caller,
                   overtaken>>

CloseEvents(r) ==
    /\ ~panicked
    /\ run[r] = "closeEvents"
    /\ CloseOnce(eventsClosed)
    /\ run' = [run EXCEPT ![r] = "exited"]
    /\ UNCHANGED <<running, current, started, cancelled, doneClosed, late, caller,
                   overtaken>>

\* A worker left behind emits its EventToolEnd when its tool returns.
LateWorkerEmits(r) ==
    /\ ~panicked
    /\ late[r] > 0
    /\ late' = [late EXCEPT ![r] = late[r] - 1]
    /\ Emit
    /\ UNCHANGED <<running, current, started, cancelled, doneClosed, eventsClosed, run,
                   caller, overtaken>>

Run(r) == BodyReturns(r) \/ ClearRunning(r) \/ CloseDone(r) \/ CloseEvents(r)

Next ==
    \/ \E p \in Callers : Caller(p)
    \/ \E r \in Runs : Run(r) \/ BodyEmits(r) \/ LateWorkerEmits(r)

\* A run ends once it is cancelled (what AgentRun shows), its deferred function
\* runs, and callers that wait are woken.
Ends(r) == (r \in cancelled \/ run[r] # "body") /\ Run(r)
Wakes(p) == StopReadsDone(p) \/ StopReturns(p) \/ StartWakes(p)

Fairness == /\ \A r \in Runs : WF_vars(Ends(r))
            /\ \A p \in Callers : WF_vars(Wakes(p))

Spec == Init /\ [][Next]_vars /\ Fairness

-----------------------------------------------------------------------------
(***************************************************************************)
(* Properties.                                                             *)
(***************************************************************************)

Active == {r \in Runs : run[r] \in {"body", "defer"}}

\* At most one run works on the agent at a time, it is the latest one, and
\* running says exactly whether there is one: whatever the callers do, two runs
\* never edit the history together.
OneRunAtATime == Active = IF running THEN {current} ELSE {}

\* As long as no run is started inside the window in which an earlier one still
\* has channels to close, each run closes its own two channels, done first.
CleanEnd ==
    ~overtaken =>
        /\ doneClosed = {r \in Runs : run[r] \in {"closeEvents", "exited"}}
        /\ eventsClosed = {r \in Runs : run[r] = "exited"}

\* A program that neither starts a run in that window nor cancels one does not
\* panic.
PanicNeedsRace == panicked => overtaken \/ cancelled # {}

\* Outside of the window, whoever is in Stop gets out of it, unless it read the
\* done channel of a run started after its Cancel.
StopEnds ==
    \A p \in Callers :
        caller[p].doing = "stop" ~>
            \/ caller[p].doing = "idle"
            \/ caller[p].doing = "stopWait" /\ caller[p].on \notin cancelled
            \/ overtaken \/ panicked

-----------------------------------------------------------------------------
(***************************************************************************)
(* What a comment promises.                                                *)
(***************************************************************************)

\* safeExecute: "one bad tool doesn't crash the agent".  Outside of the window
\* no event of a tool brings the program down.
ToolsDoNotCrash == panicked => overtaken
=============================================================================
