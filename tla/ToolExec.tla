------------------------------ MODULE ToolExec ------------------------------
(***************************************************************************)
(* One call of Agent.executeTools (core/tool_executor.go): a batch of tool *)
(* calls, one worker goroutine per call, a semaphore that bounds how many  *)
(* of them run, and a collector that gathers one result per call.          *)
(*                                                                         *)
(* The batch runs against everything that may happen meanwhile: steering   *)
(* messages are queued (Agent.Steer), the run is cancelled (Agent.Cancel), *)
(* step mode is switched on and off (Agent.SetStepMode) and the user       *)
(* answers the step gate (Agent.StepRespond).  Workers may outlive the     *)
(* batch: the collector gives up on them when the run is cancelled.        *)
(***************************************************************************)
EXTENDS Naturals, FiniteSets, Sequences

CONSTANTS
    Calls,         \* the tool calls of one assistant message
    Known,         \* those whose tool is registered
    Concurrency,   \* AgentConfig.toolConcurrency()
    MaxSteer,      \* bound: steering messages sent in a behaviour
    MaxGates       \* bound: times step mode is switched on

ASSUME ToolExecAssumption ==
    /\ IsFiniteSet(Calls)
    /\ Known \subseteq Calls
    /\ Concurrency \in Nat \ {0}
    /\ MaxSteer \in Nat
    /\ MaxGates \in Nat

StepActions == {"approve", "skip", "abort"}

\* A worker's *ToolResultMessage: nil, a success, or one with IsError.
Outcomes == {"nil", "ok", "error"}

\* A slot of the slice executeTools returns; "cancelled" is the error result
\* written for a call whose worker delivered nil.
Results == {"nil", "ok", "error", "cancelled"}

WorkerSteps == {"unborn", "acquire", "gate", "exec", "dequeue", "send",
                "release", "done"}
CollectorSteps == {"begin", "select", "collect", "fill", "returned"}

Messages == 1..MaxSteer

\* What a worker sends: its result and the steering messages it took.  On the
\* results channel it carries the index of the call.
Delivery == [result : Outcomes, steer : Seq(Messages)]
ExecResult == [index : Calls, result : Outcomes, steer : Seq(Messages)]

VARIABLES
    steerQ,        \* Agent.steerQ
    sent,          \* number of messages given to Agent.Steer
    parentDone,    \* the run's context is cancelled
    toolCancelled, \* toolCancel() was called
    stepGate,      \* Agent.stepGate: a gate number, 0 when step mode is off
    gatesMade,     \* gates created so far
    gateBuf,       \* the buffered answer of every gate
    batchGate,     \* the gate executeTools read at its start
    pc,            \* where each worker is
    out,           \* what each worker is about to deliver
    sem,           \* tokens in the semaphore
    resultCh,      \* the results channel
    cpc,           \* where the collector is
    results,       \* the results gathered
    received,      \* how many
    steering       \* the steering messages that will be returned

agentVars == <<steerQ, sent, stepGate, gatesMade, gateBuf>>
cancelVars == <<parentDone, toolCancelled>>
collectVars == <<cpc, results, received, steering>>
vars == <<steerQ, sent, parentDone, toolCancelled, stepGate, gatesMade, gateBuf,
          batchGate, pc, out, sem, resultCh, cpc, results, received, steering>>

NoOut == [result |-> "nil", steer |-> <<>>]

\* toolCtx is a child of the run's context.
ToolCtxDone == parentDone \/ toolCancelled

\* Mutation: step mode keeps the normal concurrency.
LimitIgnoresStepMode == Concurrency

\* Step mode runs one tool at a time.
Limit == IF batchGate # 0 THEN 1 ELSE Concurrency

\* make(chan toolExecResult, len(calls)): room for every worker.
ResultCap == Cardinality(Calls)

TypeOK ==
    /\ steerQ \in Seq(Messages)
    /\ sent \in 0..MaxSteer
    /\ parentDone \in BOOLEAN
    /\ toolCancelled \in BOOLEAN
    /\ gatesMade \in 0..MaxGates
    /\ stepGate \in 0..gatesMade
    /\ gateBuf \in [1..MaxGates -> StepActions \union {"empty"}]
    /\ batchGate \in 0..MaxGates
    /\ pc \in [Calls -> WorkerSteps]
    /\ out \in [Calls -> Delivery]
    /\ sem \in Nat
    /\ resultCh \in Seq(ExecResult)
    /\ cpc \in CollectorSteps
    /\ results \in [Calls -> Results]
    /\ received \in Nat
    /\ steering \in Seq(Messages)

Init ==
    /\ steerQ = <<>>
    /\ sent = 0
    /\ parentDone = FALSE
    /\ toolCancelled = FALSE
    /\ gatesMade \in 0..(IF MaxGates = 0 THEN 0 ELSE 1)
    /\ stepGate = gatesMade
    /\ gateBuf = [g \in 1..MaxGates |-> "empty"]
    /\ batchGate = 0
    /\ pc = [c \in Calls |-> "unborn"]
    /\ out = [c \in Calls |-> NoOut]
    /\ sem = 0
    /\ resultCh = <<>>
    /\ cpc = "begin"
    /\ results = [c \in Calls |-> "nil"]
    /\ received = 0
    /\ steering = <<>>

-----------------------------------------------------------------------------
(***************************************************************************)
(* What the rest of the program does to the agent during the batch.        *)
(***************************************************************************)

Steer ==
    /\ sent < MaxSteer
    /\ sent' = sent + 1
    /\ steerQ' = Append(steerQ, sent + 1)
    /\ UNCHANGED <<parentDone, toolCancelled, stepGate, gatesMade, gateBuf, batchGate,
                   pc, out, sem, resultCh, collectVars>>

Cancel ==
    /\ ~parentDone
    /\ parentDone' = TRUE
    /\ UNCHANGED <<agentVars, toolCancelled, batchGate, pc, out, sem, resultCh, collectVars>>

\* SetStepMode(on): a new gate each time it is switched on, nil when off.
SetStepMode ==
    /\ \/ /\ gatesMade < MaxGates
          /\ gatesMade' = gatesMade + 1
          /\ stepGate' = gatesMade + 1
       \/ /\ stepGate # 0
          /\ stepGate' = 0
          /\ UNCHANGED gatesMade
    /\ UNCHANGED <<steerQ, sent, cancelVars, gateBuf, batchGate, pc, out, sem,
                   resultCh, collectVars>>

\* A stale answer is drained before the new one is sent.
StepRespond ==
    /\ stepGate # 0
    /\ \E action \in StepActions :
          gateBuf' = [gateBuf EXCEPT ![stepGate] = action]
    /\ UNCHANGED <<steerQ, sent, cancelVars, stepGate, gatesMade, batchGate, pc, out,
                   sem, resultCh, collectVars>>

-----------------------------------------------------------------------------
(***************************************************************************)
(* The workers.                                                            *)
(***************************************************************************)

Goto(c, step) == pc' = [pc EXCEPT ![c] = step]
Deliver(c, r, msgs) == out' = [out EXCEPT ![c] = [result |-> r, steer |-> msgs]]

\* Past the gate: an unknown tool is answered at once, a known one starts.
LookUp(c) ==
    IF c \in Known
    THEN Goto(c, "exec") /\ UNCHANGED out
    ELSE Goto(c, "send") /\ Deliver(c, "error", <<>>)

\* select: the semaphore has room.  When the context is done as well, Go picks
\* either case, so a cancelled worker may still go on.
Acquire(c) ==
    /\ pc[c] = "acquire"
    /\ sem < Limit
    /\ sem' = sem + 1
    /\ IF batchGate # 0
       THEN Goto(c, "gate") /\ UNCHANGED out
       ELSE LookUp(c)
    /\ UNCHANGED <<agentVars, cancelVars, batchGate, resultCh, collectVars>>

\* select: the context is done; an empty result, and no token to give back.
GiveUp(c) ==
    /\ pc[c] = "acquire"
    /\ ToolCtxDone
    /\ Len(resultCh) < ResultCap
    /\ resultCh' = Append(resultCh, [index |-> c, result |-> "nil", steer |-> <<>>])
    /\ Goto(c, "done")
    /\ UNCHANGED <<agentVars, cancelVars, batchGate, out, sem, collectVars>>

\* The gate's answer: skip is an error result, abort a nil one.
GateAnswer(c) ==
    /\ pc[c] = "gate"
    /\ \/ gateBuf[batchGate] = "approve" /\ LookUp(c)
       \/ gateBuf[batchGate] = "skip" /\ Goto(c, "send") /\ Deliver(c, "error", <<>>)
       \/ gateBuf[batchGate] = "abort" /\ Goto(c, "send") /\ Deliver(c, "nil", <<>>)
    /\ gateBuf' = [gateBuf EXCEPT ![batchGate] = "empty"]
    /\ UNCHANGED <<steerQ, sent, stepGate, gatesMade, cancelVars, batchGate, sem,
                   resultCh, collectVars>>

\* Mutation: the gate does not watch the context.
GateCancelledNever(c) ==
    /\ pc[c] = "gate"
    /\ FALSE
    /\ Goto(c, "send")
    /\ UNCHANGED <<agentVars, cancelVars, batchGate, out, sem, resultCh, collectVars>>

GateCancelled(c) ==
    /\ pc[c] = "gate"
    /\ ToolCtxDone
    /\ Goto(c, "send")
    /\ UNCHANGED <<agentVars, cancelVars, batchGate, out, sem, resultCh, collectVars>>

\* Tool.Execute returned: an error (or a panic) carries no steering, a success
\* goes on to take the queued messages.
Finish(c) ==
    /\ pc[c] = "exec"
    /\ \/ Goto(c, "send") /\ Deliver(c, "error", <<>>)
       \/ Goto(c, "dequeue") /\ UNCHANGED out
    /\ UNCHANGED <<agentVars, cancelVars, batchGate, sem, resultCh, collectVars>>

\* Mutation: the queue is not cleared.
DequeueSteerKeeps(c) ==
    /\ pc[c] = "dequeue"
    /\ Goto(c, "send")
    /\ Deliver(c, "ok", steerQ)
    /\ UNCHANGED steerQ
    /\ UNCHANGED <<sent, stepGate, gatesMade, gateBuf, cancelVars, batchGate, sem,
                   resultCh, collectVars>>

\* dequeueSteer empties the queue.
DequeueSteer(c) ==
    /\ pc[c] = "dequeue"
    /\ Goto(c, "send")
    /\ Deliver(c, "ok", steerQ)
    /\ steerQ' = <<>>
    /\ UNCHANGED <<sent, stepGate, gatesMade, gateBuf, cancelVars, batchGate, sem,
                   resultCh, collectVars>>

Send(c) ==
    /\ pc[c] = "send"
    /\ Len(resultCh) < ResultCap
    /\ resultCh' = Append(resultCh, [index |-> c, result |-> out[c].result,
                                     steer |-> out[c].steer])
    /\ Goto(c, "release")
    /\ UNCHANGED <<agentVars, cancelVars, batchGate, out, sem, collectVars>>

\* The deferred <-sem.
Release(c) ==
    /\ pc[c] = "release"
    /\ sem' = sem - 1
    /\ Goto(c, "done")
    /\ UNCHANGED <<agentVars, cancelVars, batchGate, out, resultCh, collectVars>>

Worker(c) ==
    \/ Acquire(c) \/ GiveUp(c) \/ GateAnswer(c) \/ GateCancelled(c)
    \/ DequeueSteer(c) \/ Send(c) \/ Release(c)

-----------------------------------------------------------------------------
(***************************************************************************)
(* The collector: the goroutine that called executeTools.                  *)
(***************************************************************************)

\* Reads the step gate, makes the channels and starts the workers.
Begin ==
    /\ cpc = "begin"
    /\ cpc' = "select"
    /\ batchGate' = stepGate
    /\ pc' = [c \in Calls |-> "acquire"]
    /\ UNCHANGED <<agentVars, cancelVars, out, sem, resultCh, results, received, steering>>

\* Mutation: the loops want one result more than there are calls.
MissingOffByOne == received <= Cardinality(Calls)

\* The loops end when one result per call has arrived.
Missing == received < Cardinality(Calls)

Take ==
    /\ resultCh # <<>>
    /\ resultCh' = Tail(resultCh)
    /\ results' = [results EXCEPT ![Head(resultCh).index] = Head(resultCh).result]
    /\ received' = received + 1

\* First loop: an error cancels the batch, and so do the first steering
\* messages, which are kept.
Receive ==
    /\ cpc = "select"
    /\ Missing
    /\ Take
    /\ LET res == Head(resultCh)
           steered == res.steer # <<>> /\ steering = <<>>
       IN  /\ steering' = IF steered THEN res.steer ELSE steering
           /\ toolCancelled' = (toolCancelled \/ res.result = "error" \/ steered)
    /\ UNCHANGED <<agentVars, parentDone, batchGate, pc, out, sem, cpc>>

SeeCancelled ==
    /\ cpc = "select"
    /\ Missing
    /\ ToolCtxDone
    /\ cpc' = "collect"
    /\ UNCHANGED <<agentVars, cancelVars, batchGate, pc, out, sem, resultCh, results,
                   received, steering>>

\* Second loop: only the result is looked at.
Collect ==
    /\ cpc = "collect"
    /\ Missing
    /\ Take
    /\ UNCHANGED <<agentVars, cancelVars, batchGate, pc, out, sem, cpc, steering>>

\* Mutation: the collector gives up when only the batch is cancelled.
AbandonOnToolCancel ==
    /\ cpc = "collect"
    /\ Missing
    /\ ToolCtxDone
    /\ cpc' = "fill"
    /\ UNCHANGED <<agentVars, cancelVars, batchGate, pc, out, sem, resultCh, results,
                   received, steering>>

\* Mutation: the second loop does not watch the run's context.
AbandonNever ==
    /\ cpc = "collect"
    /\ Missing
    /\ FALSE
    /\ cpc' = "fill"
    /\ UNCHANGED <<agentVars, cancelVars, batchGate, pc, out, sem, resultCh, results,
                   received, steering>>

\* The run itself is cancelled: stop waiting for workers that may be stuck.
Abandon ==
    /\ cpc = "collect"
    /\ Missing
    /\ parentDone
    /\ cpc' = "fill"
    /\ UNCHANGED <<agentVars, cancelVars, batchGate, pc, out, sem, resultCh, results,
                   received, steering>>

\* Mutation: errors are overwritten by the filler.
ReturnForgetsErrors ==
    /\ \/ cpc \in {"select", "collect"} /\ ~Missing
       \/ cpc = "fill"
    /\ cpc' = "returned"
    /\ results' = [c \in Calls |-> IF results[c] # "ok" THEN "cancelled" ELSE results[c]]
    /\ toolCancelled' = TRUE
    /\ UNCHANGED <<agentVars, parentDone, batchGate, pc, out, sem, resultCh, received,
                   steering>>

\* Missing results become errors; the deferred toolCancel runs.
Return ==
    /\ \/ cpc \in {"select", "collect"} /\ ~Missing
       \/ cpc = "fill"
    /\ cpc' = "returned"
    /\ results' = [c \in Calls |-> IF results[c] = "nil" THEN "cancelled" ELSE results[c]]
    /\ toolCancelled' = TRUE
    /\ UNCHANGED <<agentVars, parentDone, batchGate, pc, out, sem, resultCh, received,
                   steering>>

Collector == Begin \/ Receive \/ SeeCancelled \/ Collect \/ Abandon \/ Return

-----------------------------------------------------------------------------

\* The batch is over and every worker has ended.
AllEnded == cpc = "returned" /\ \A c \in Calls : pc[c] = "done"

Next ==
    \/ Steer \/ Cancel \/ SetStepMode \/ StepRespond
    \/ Collector
    \/ \E c \in Calls : Worker(c) \/ Finish(c)

\* Go schedules every goroutine that can run.  Nothing is assumed about the
\* user, and nothing about a tool: Execute may never return.
Fairness == WF_vars(Collector) /\ \A c \in Calls : WF_vars(Worker(c))

Spec == Init /\ [][Next]_vars /\ Fairness

\* What some properties assume besides: tools that return.
ToolsReturn == \A c \in Calls : WF_vars(Finish(c))

-----------------------------------------------------------------------------
(***************************************************************************)
(* Properties.                                                             *)
(***************************************************************************)

Holders == {c \in Calls : pc[c] \in {"gate", "exec", "dequeue", "send", "release"}}
Executing == {c \in Calls : pc[c] \in {"gate", "exec", "dequeue"}}

\* No more calls are at work at once than toolConcurrency() allows, and one at a
\* time, from the question to the user on, when the batch began in step mode, the
\* workers a cancelled batch left behind included: tokens and their holders never
\* drift apart.
ConcurrencyBounded ==
    /\ Cardinality(Executing) <= Concurrency
    /\ batchGate # 0 => Cardinality(Executing) <= 1
    /\ sem = Cardinality(Holders)

\* A returned batch gives every call what its own worker delivered: no result is
\* lost, swapped or read early, and only a call whose tool never ran is reported
\* as cancelled.  Cancelling the run turns answers into "cancelled" and does
\* nothing else: it invents no success and no failure.
AnswerOf(c) == IF out[c].result = "nil" THEN "cancelled" ELSE out[c].result
ResultsAreTheWorkers ==
    cpc = "returned" =>
        \A c \in Calls :
            \/ results[c] = AnswerOf(c) /\ pc[c] \in {"release", "done"}
            \/ parentDone /\ results[c] = "cancelled"

\* What the batch answers is final: a late worker changes neither the results
\* nor the steering of a batch that returned, and no result is overwritten.
AnswersAreFinal ==
    [][ /\ \A c \in Calls : results[c] # "nil" => results'[c] = results[c]
        /\ cpc = "returned" => UNCHANGED <<results, steering, received>> ]_vars

\* Cancelling the run ends the batch even if a tool never returns.
CancelReturns == parentDone ~> cpc = "returned"

\* If tools return, a cancelled run leaves no goroutine behind, whatever the
\* state of the step gate.
CancelLeavesNoWorker == ToolsReturn => (parentDone ~> AllEnded)

\* If tools return, every batch that does not wait for the user ends, and all of
\* its workers with it.
BatchEnds == ToolsReturn => ((cpc = "select" /\ batchGate = 0) ~> AllEnded)

-----------------------------------------------------------------------------
(***************************************************************************)
(* The contract ToolBatch states, and why ToolExec keeps it: a call has     *)
(* ended once its worker has sent, and a bundle is what a worker took.      *)
(***************************************************************************)

Ended(c) == pc[c] \in {"release", "done"}
Batch == INSTANCE ToolBatch WITH
    queue <- steerQ,
    cancelled <- parentDone,
    outcome <- [c \in Calls |-> IF Ended(c) THEN out[c].result ELSE "none"],
    bundles <- {out[c].steer : c \in Calls} \ {<<>>},
    answers <- results,
    closed <- (cpc = "returned")

\* executeTools implements the contract: every step of a worker, of the
\* collector or of the rest of the program is a step of ToolBatch or none.
\* It answers each call once, with what its worker delivered, closes early
\* only for a cancelled run, and takes each steering message off the queue
\* when, and only when, one worker picks it up.
BatchContract == Batch!Spec
=============================================================================
