-------------------------- MODULE ToolExec_proofs --------------------------
(***************************************************************************)
(* Proofs about ToolExec, for any number of calls, any concurrency, any    *)
(* number of steering messages and of step-mode switches: types and the    *)
(* semaphore, then the answers of a batch, then the contract of ToolBatch. *)
(***************************************************************************)
EXTENDS ToolExec, FiniteSetTheorems, SequenceTheorems, TLAPS

\* The semaphore's tokens are the workers between Acquire and Release, and they
\* fit in the limit the batch computed.  Before the batch begins no worker
\* exists, so the limit may still change.
SemInv ==
    /\ sem = Cardinality(Holders)
    /\ sem <= Limit
    /\ cpc = "begin" => \A c \in Calls : pc[c] = "unborn"

IInv == TypeOK /\ SemInv

-----------------------------------------------------------------------------
LEMMA InitIInv == Init => IInv
<1> SUFFICES ASSUME Init PROVE IInv
  OBVIOUS
<1> USE ToolExecAssumption DEF Init
<1>1. TypeOK
  <2>1. <<>> \in Seq(Messages) /\ <<>> \in Seq(ExecResult)
    OBVIOUS
  <2>2. NoOut \in Delivery
    BY <2>1 DEF NoOut, Delivery, Outcomes
  <2>3. gatesMade \in 0..MaxGates /\ stepGate \in 0..gatesMade
    OBVIOUS
  <2>4. /\ gateBuf \in [1..MaxGates -> StepActions \union {"empty"}]
        /\ pc \in [Calls -> WorkerSteps]
        /\ out \in [Calls -> Delivery]
        /\ results \in [Calls -> Results]
    BY <2>2 DEF WorkerSteps, Results
  <2>5. /\ sent \in 0..MaxSteer /\ batchGate \in 0..MaxGates
        /\ cpc \in CollectorSteps
    BY DEF CollectorSteps
  <2> QED
    BY <2>1, <2>3, <2>4, <2>5 DEF TypeOK
<1>2. Holders = {}
  BY DEF Holders
<1>3. sem = Cardinality(Holders)
  BY <1>2, FS_EmptySet
<1>4. sem <= Limit
  BY DEF Limit
<1> QED
  BY <1>1, <1>3, <1>4 DEF IInv, SemInv

LEMMA DeliverType ==
    ASSUME out \in [Calls -> Delivery], NEW c \in Calls,
           NEW r \in Outcomes, NEW msgs \in Seq(Messages), Deliver(c, r, msgs)
    PROVE  out' \in [Calls -> Delivery]
<1>1. [result |-> r, steer |-> msgs] \in Delivery
  BY DEF Delivery
<1> QED
  BY <1>1 DEF Deliver

LEMMA EmptyBundle == <<>> \in Seq(Messages)
OBVIOUS

\* Taking a result off the channel.
LEMMA TakeType ==
    ASSUME resultCh \in Seq(ExecResult), results \in [Calls -> Results], received \in Nat,
           Take
    PROVE  /\ Head(resultCh) \in ExecResult
           /\ resultCh' \in Seq(ExecResult)
           /\ results' \in [Calls -> Results]
           /\ received' \in Nat
<1>1. resultCh # <<>>
  BY DEF Take
<1>2. Head(resultCh) \in ExecResult /\ Tail(resultCh) \in Seq(ExecResult)
  BY <1>1
<1>3. Head(resultCh).index \in Calls /\ Head(resultCh).result \in Results
  BY <1>2 DEF ExecResult, Outcomes, Results
<1> QED
  BY <1>2, <1>3 DEF Take

\* The steps of the environment and of the collector keep the types.
LEMMA EnvironmentType ==
    ASSUME TypeOK, Steer \/ Cancel \/ SetStepMode \/ StepRespond
    PROVE  TypeOK'
<1> USE ToolExecAssumption DEF TypeOK, agentVars, cancelVars, collectVars
<1>1. CASE Steer
  <2>1. sent + 1 \in Messages /\ sent' \in 0..MaxSteer
    BY <1>1 DEF Steer, Messages
  <2>2. steerQ' \in Seq(Messages)
    BY <1>1, <2>1 DEF Steer
  <2> QED
    BY <1>1, <2>1, <2>2 DEF Steer
<1>2. CASE Cancel
  BY <1>2 DEF Cancel
<1>3. CASE SetStepMode
  BY <1>3 DEF SetStepMode
<1>4. CASE StepRespond
  BY <1>4 DEF StepRespond, StepActions
<1> QED
  BY <1>1, <1>2, <1>3, <1>4

LEMMA CollectorType ==
    ASSUME TypeOK, Collector
    PROVE  TypeOK'
<1> USE ToolExecAssumption DEF TypeOK, agentVars, cancelVars, collectVars
<1>1. CASE Begin
  BY <1>1 DEF Begin, WorkerSteps, CollectorSteps
<1>3. CASE Receive
  <2>1. /\ Head(resultCh) \in ExecResult
        /\ resultCh' \in Seq(ExecResult)
        /\ results' \in [Calls -> Results]
        /\ received' \in Nat
    BY <1>3, TakeType DEF Receive
  <2>2. steering' \in Seq(Messages) /\ toolCancelled' \in BOOLEAN
    BY <1>3, <2>1 DEF Receive, ExecResult
  <2> QED
    BY <1>3, <2>1, <2>2 DEF Receive
<1>4. CASE SeeCancelled
  BY <1>4 DEF SeeCancelled, CollectorSteps
<1>5. CASE Collect
  BY <1>5, TakeType DEF Collect
<1>6. CASE Abandon
  BY <1>6 DEF Abandon, CollectorSteps
<1>7. CASE Return
  BY <1>7 DEF Return, CollectorSteps, Results
<1> QED
  BY <1>1, <1>3, <1>4, <1>5, <1>6, <1>7 DEF Collector

\* A worker's step keeps the types; giving back a token needs one.
LEMMA WorkerType ==
    ASSUME TypeOK, NEW c \in Calls, Worker(c) \/ Finish(c), Release(c) => sem > 0
    PROVE  TypeOK'
<1> USE ToolExecAssumption DEF TypeOK, agentVars, cancelVars, collectVars, WorkerSteps
<1>1. ASSUME LookUp(c)
      PROVE  /\ pc' \in [Calls -> WorkerSteps]
             /\ out' \in [Calls -> Delivery]
  BY <1>1, DeliverType, EmptyBundle DEF LookUp, Goto, Outcomes
<1>2. CASE Acquire(c)
  BY <1>1, <1>2 DEF Acquire, Goto
<1>3. CASE GiveUp(c)
  <2>1. [index |-> c, result |-> "nil", steer |-> <<>>] \in ExecResult
    BY EmptyBundle DEF ExecResult, Outcomes
  <2>2. resultCh' \in Seq(ExecResult) /\ pc' \in [Calls -> WorkerSteps]
    BY <1>3, <2>1 DEF GiveUp, Goto
  <2> QED
    BY <1>3, <2>2 DEF GiveUp
<1>4. CASE GateAnswer(c)
  <2>1. gateBuf' \in [1..MaxGates -> StepActions \union {"empty"}]
    BY <1>4 DEF GateAnswer
  <2>2. /\ pc' \in [Calls -> WorkerSteps]
        /\ out' \in [Calls -> Delivery]
    BY <1>1, <1>4, DeliverType, EmptyBundle DEF GateAnswer, Goto, Outcomes, StepActions
  <2> QED
    BY <1>4, <2>1, <2>2 DEF GateAnswer
<1>5. CASE GateCancelled(c)
  BY <1>5 DEF GateCancelled, Goto
<1>6. CASE DequeueSteer(c)
  <2>1. out' \in [Calls -> Delivery]
    BY <1>6, DeliverType DEF DequeueSteer, Outcomes
  <2> QED
    BY <1>6, <2>1, EmptyBundle DEF DequeueSteer, Goto
<1>7. CASE Send(c)
  <2>1. [index |-> c, result |-> out[c].result, steer |-> out[c].steer] \in ExecResult
    BY DEF ExecResult, Delivery
  <2>2. resultCh' \in Seq(ExecResult) /\ pc' \in [Calls -> WorkerSteps]
    BY <1>7, <2>1 DEF Send, Goto
  <2> QED
    BY <1>7, <2>2 DEF Send
<1>8. CASE Release(c)
  BY <1>8 DEF Release, Goto
<1>9. CASE Finish(c)
  <2>1. /\ pc' \in [Calls -> WorkerSteps]
        /\ out' \in [Calls -> Delivery]
    BY <1>9, DeliverType, EmptyBundle DEF Finish, Goto, Outcomes
  <2> QED
    BY <1>9, <2>1 DEF Finish
<1> QED
  BY <1>2, <1>3, <1>4, <1>5, <1>6, <1>7, <1>8, <1>9 DEF Worker
-----------------------------------------------------------------------------
LEMMA HoldersFinite == IsFiniteSet(Holders) /\ Cardinality(Holders) \in Nat
  BY ToolExecAssumption, FS_Subset, FS_CardinalityType DEF Holders

LEMMA SameHolders ==
    ASSUME SemInv, UNCHANGED <<sem, Limit>>, Holders' = Holders,
           cpc' = "begin" => cpc = "begin" /\ pc' = pc
    PROVE  SemInv'
  BY DEF SemInv

LEMMA WorkerSem ==
    ASSUME IInv, NEW c \in Calls, Worker(c) \/ Finish(c)
    PROVE  SemInv' /\ (Release(c) => sem > 0)
<1> USE DEF IInv, agentVars, cancelVars, collectVars
<1>1. pc \in [Calls -> WorkerSteps]
  BY DEF TypeOK
<1>2. cpc # "begin" /\ cpc' = cpc /\ batchGate' = batchGate
  BY DEF SemInv, Worker, Acquire, GiveUp, GateAnswer, GateCancelled, DequeueSteer, Send,
         Release, Finish
<1>3. Limit' = Limit
  BY <1>2 DEF Limit
<1>4. CASE Acquire(c)
  <2>1. Holders' = Holders \union {c} /\ c \notin Holders
    BY <1>1, <1>4 DEF Acquire, LookUp, Goto, Holders
  <2>2. Cardinality(Holders') = Cardinality(Holders) + 1
    BY <2>1, HoldersFinite, FS_AddElement
  <2>3. sem' = sem + 1 /\ sem < Limit /\ sem \in Nat /\ Limit \in Nat
    BY <1>4, ToolExecAssumption DEF Acquire, TypeOK, Limit
  <2> QED
    BY <1>2, <1>3, <1>4, <2>2, <2>3 DEF SemInv, Release, Acquire
<1>5. CASE Release(c)
  <2>1. Holders' = Holders \ {c} /\ c \in Holders
    BY <1>1, <1>5 DEF Release, Goto, Holders
  <2>2. /\ Cardinality(Holders') = Cardinality(Holders) - 1
        /\ Cardinality(Holders) \in Nat /\ Cardinality(Holders') \in Nat
    <3>1. IsFiniteSet(Holders')
      BY <2>1, HoldersFinite, FS_Subset
    <3> QED
      BY <2>1, <3>1, HoldersFinite, FS_RemoveElement, FS_CardinalityType
  <2>3. sem' = sem - 1 /\ sem \in Nat /\ Limit \in Nat
    BY <1>5, ToolExecAssumption DEF Release, TypeOK, Limit
  <2> QED
    BY <1>2, <1>3, <2>2, <2>3 DEF SemInv
<1>6. CASE ~Acquire(c) /\ ~Release(c)
  <2>1. Holders' = Holders
    BY <1>1, <1>6 DEF Worker, GiveUp, GateAnswer, GateCancelled, DequeueSteer, Send, Finish,
                      LookUp, Goto, Holders
  <2>2. sem' = sem
    BY <1>6 DEF Worker, GiveUp, GateAnswer, GateCancelled, DequeueSteer, Send, Finish
  <2> QED
    BY <1>2, <1>3, <1>6, <2>1, <2>2, SameHolders
<1> QED
  BY <1>4, <1>5, <1>6

LEMMA CollectorSem ==
    ASSUME IInv, Collector
    PROVE  SemInv'
<1> USE DEF IInv, agentVars, cancelVars, collectVars
<1>1. CASE Begin
  <2>1. Holders = {}
    BY <1>1 DEF Begin, SemInv, Holders
  <2>2. Holders' = {}
    BY <1>1 DEF Begin, Holders
  <2>3. sem' = 0 /\ Limit' \in Nat /\ cpc' # "begin"
    BY <1>1, <2>1, FS_EmptySet, ToolExecAssumption DEF Begin, SemInv, Limit
  <2> QED
    BY <2>2, <2>3, FS_EmptySet DEF SemInv
<1>2. CASE Receive \/ SeeCancelled \/ Collect \/ Abandon \/ Return
  <2>1. UNCHANGED <<sem, pc, batchGate>> /\ cpc' # "begin"
    BY <1>2 DEF Receive, SeeCancelled, Collect, Abandon, Return
  <2>2. Holders' = Holders /\ Limit' = Limit
    BY <2>1 DEF Holders, Limit
  <2> QED
    BY <2>1, <2>2, SameHolders
<1> QED
  BY <1>1, <1>2 DEF Collector

LEMMA EnvironmentSem ==
    ASSUME IInv, Steer \/ Cancel \/ SetStepMode \/ StepRespond \/ UNCHANGED vars
    PROVE  SemInv'
<1>1. UNCHANGED <<sem, pc, batchGate, cpc>>
  BY DEF Steer, Cancel, SetStepMode, StepRespond, vars, collectVars
<1>2. Holders' = Holders /\ Limit' = Limit
  BY <1>1 DEF Holders, Limit
<1> QED
  BY <1>1, <1>2, SameHolders DEF IInv

LEMMA NextIInv == IInv /\ [Next]_vars => IInv'
<1> SUFFICES ASSUME IInv, [Next]_vars PROVE IInv'
  OBVIOUS
<1>1. CASE Steer \/ Cancel \/ SetStepMode \/ StepRespond
  BY <1>1, EnvironmentType, EnvironmentSem DEF IInv
<1>2. CASE Collector
  BY <1>2, CollectorType, CollectorSem DEF IInv
<1>3. ASSUME NEW c \in Calls, Worker(c) \/ Finish(c)
      PROVE  IInv'
  BY <1>3, WorkerType, WorkerSem DEF IInv
<1>4. CASE UNCHANGED vars
  <2>1. TypeOK'
    BY <1>4 DEF IInv, TypeOK, vars
  <2> QED
    BY <1>4, <2>1, EnvironmentSem DEF IInv
<1> QED
  BY <1>1, <1>2, <1>3, <1>4 DEF Next

THEOREM Invariance == Spec => []IInv
  BY InitIInv, NextIInv, PTL DEF Spec

\* Every reachable state of a batch is well typed.
THEOREM TypeCorrect == Spec => []TypeOK
<1>1. IInv => TypeOK
  BY DEF IInv
<1> QED
  BY <1>1, Invariance, PTL

\* However many calls there are, whatever is cancelled and whenever step mode is
\* switched: no more tools run at once than the batch may run, and the semaphore counts
\* exactly the workers that hold a token.
THEOREM Bounded == Spec => []ConcurrencyBounded
<1>1. IInv => ConcurrencyBounded
  <2> SUFFICES ASSUME IInv PROVE ConcurrencyBounded
    OBVIOUS
  <2>1. Executing \subseteq Holders
    BY DEF Executing, Holders
  <2>2. Cardinality(Executing) <= Cardinality(Holders) /\ Cardinality(Executing) \in Nat
    BY <2>1, HoldersFinite, FS_Subset, FS_CardinalityType
  <2>3. /\ Cardinality(Holders) <= Limit
        /\ Limit \in Nat /\ Limit <= Concurrency
        /\ batchGate # 0 => Limit = 1
    BY ToolExecAssumption DEF IInv, SemInv, Limit
  <2> QED
    BY <2>2, <2>3, HoldersFinite, ToolExecAssumption DEF ConcurrencyBounded, IInv, SemInv
<1> QED
  BY <1>1, Invariance, PTL

-----------------------------------------------------------------------------
(***************************************************************************)
(* The answer of a batch: every call gets what its own worker delivered,   *)
(* once and for good.                                                      *)
(***************************************************************************)

\* The workers that have sent their result.
Sent == {c \in Calls : pc[c] \in {"release", "done"}}

\* A worker has nothing to deliver before it is done with its call.
NothingEarly ==
    \A c \in Calls :
        pc[c] \in {"unborn", "acquire", "gate", "exec", "dequeue"} => out[c].result = "nil"

\* What is in the results channel comes from its own worker, once, and was not
\* gathered yet.
ChannelInv ==
    /\ \A i \in 1..Len(resultCh) :
          /\ resultCh[i].index \in Sent
          /\ resultCh[i].result = out[resultCh[i].index].result
          /\ cpc # "returned" => results[resultCh[i].index] = "nil"
    /\ \A i, j \in 1..Len(resultCh) : i # j => resultCh[i].index # resultCh[j].index

Waiting(c) == \E i \in 1..Len(resultCh) : resultCh[i].index = c

\* While the collector is at work, a result is with the worker, in the channel
\* or gathered, and received counts the gathered ones.
GatherInv ==
    cpc # "returned" =>
        /\ \A c \in Calls \ Sent : results[c] = "nil"
        /\ \A c \in Sent : results[c] = out[c].result \/ Waiting(c)
        /\ received + Len(resultCh) = Cardinality(Sent)

\* Only the end of the run makes the collector give up.
FillInv == cpc = "fill" => parentDone

RInv ==
    /\ IInv
    /\ NothingEarly
    /\ ChannelInv
    /\ GatherInv
    /\ FillInv
    /\ ResultsAreTheWorkers

-----------------------------------------------------------------------------
LEMMA SentFinite == IsFiniteSet(Sent) /\ Cardinality(Sent) \in Nat
  BY ToolExecAssumption, FS_Subset, FS_CardinalityType DEF Sent

LEMMA InitRInv == Init => RInv
<1> SUFFICES ASSUME Init PROVE RInv
  OBVIOUS
<1>1. IInv
  BY InitIInv
<1>2. Sent = {} /\ Len(resultCh) = 0
  BY DEF Init, Sent
<1>3. NothingEarly
  BY DEF Init, NothingEarly, NoOut
<1>4. ChannelInv
  BY <1>2 DEF ChannelInv
<1>5. GatherInv
  BY <1>2, FS_EmptySet DEF GatherInv, Init
<1>6. FillInv /\ ResultsAreTheWorkers
  BY DEF Init, FillInv, ResultsAreTheWorkers
<1> QED
  BY <1>1, <1>3, <1>4, <1>5, <1>6 DEF RInv

\* A step that moves neither results nor workers across the channel: it may
\* change what a worker that has not sent yet is going to deliver.
LEMMA QuietStep ==
    ASSUME RInv, IInv', Sent' = Sent, NothingEarly',
           UNCHANGED <<resultCh, results, received>>,
           \A c \in Sent : out'[c] = out[c],
           cpc' = "returned" <=> cpc = "returned",
           cpc' = "fill" => parentDone', parentDone => parentDone'
    PROVE  RInv'
<1>1. ChannelInv'
  BY DEF RInv, ChannelInv
<1>2. GatherInv'
  BY DEF RInv, GatherInv, Waiting
<1>3. ResultsAreTheWorkers'
  <2> SUFFICES ASSUME cpc' = "returned", NEW c \in Calls
               PROVE  \/ results'[c] = AnswerOf(c)' /\ c \in Sent'
                      \/ parentDone' /\ results'[c] = "cancelled"
    BY DEF ResultsAreTheWorkers, Sent
  <2>1. \/ results[c] = AnswerOf(c) /\ c \in Sent
        \/ parentDone /\ results[c] = "cancelled"
    BY DEF RInv, ResultsAreTheWorkers, Sent
  <2> QED
    BY <2>1 DEF AnswerOf
<1> QED
  BY <1>1, <1>2, <1>3 DEF RInv, FillInv

LEMMA EnvironmentRInv ==
    ASSUME RInv, IInv', Steer \/ Cancel \/ SetStepMode \/ StepRespond \/ UNCHANGED vars
    PROVE  RInv'
<1>1. /\ UNCHANGED <<pc, out, resultCh, cpc, results, received>>
      /\ parentDone => parentDone'
  BY DEF Steer, Cancel, SetStepMode, StepRespond, vars, collectVars, agentVars, cancelVars
<1>2. Sent' = Sent /\ NothingEarly'
  BY <1>1 DEF Sent, RInv, NothingEarly
<1> QED
  BY <1>1, <1>2, QuietStep DEF RInv, FillInv

-----------------------------------------------------------------------------
(***************************************************************************)
(* The workers.                                                            *)
(***************************************************************************)

\* A worker that works: it is not among those that have sent, before or after.
LEMMA WorkRInv ==
    ASSUME RInv, IInv', NEW c \in Calls,
           Acquire(c) \/ GateAnswer(c) \/ GateCancelled(c) \/ Finish(c) \/ DequeueSteer(c)
    PROVE  RInv'
<1> USE DEF Goto, Deliver, LookUp
<1>1. /\ pc \in [Calls -> WorkerSteps] /\ out \in [Calls -> Delivery]
      /\ \A x \in Calls : pc[x] = "acquire" => out[x].result = "nil"
  BY DEF RInv, IInv, TypeOK, NothingEarly
<1>2. UNCHANGED <<resultCh, results, received, cpc, parentDone>>
  BY DEF Acquire, GateAnswer, GateCancelled, Finish, DequeueSteer, collectVars, cancelVars
<1>3. /\ pc[c] \in {"acquire", "gate", "exec", "dequeue"}
      /\ \E step \in {"gate", "exec", "dequeue", "send"} : pc' = [pc EXCEPT ![c] = step]
  BY DEF Acquire, GateAnswer, GateCancelled, Finish, DequeueSteer
<1>4. Sent' = Sent /\ c \notin Sent
  BY <1>1, <1>3 DEF Sent
<1>5. \A x \in Calls : x # c => out'[x] = out[x]
  BY <1>1 DEF Acquire, GateAnswer, GateCancelled, Finish, DequeueSteer
<1>6. pc'[c] # "send" => out' = out
  BY <1>1 DEF Acquire, GateAnswer, GateCancelled, Finish, DequeueSteer
<1>7. NothingEarly'
  <2> SUFFICES ASSUME NEW x \in Calls,
                      pc'[x] \in {"unborn", "acquire", "gate", "exec", "dequeue"}
               PROVE  out'[x].result = "nil"
    BY DEF NothingEarly
  <2>1. CASE x = c
    BY <1>3, <1>6, <2>1 DEF RInv, NothingEarly
  <2>2. CASE x # c
    BY <1>1, <1>3, <1>5, <2>2 DEF RInv, NothingEarly
  <2> QED
    BY <2>1, <2>2
<1>8. \A x \in Sent : out'[x] = out[x]
  BY <1>4, <1>5 DEF Sent
<1> QED
  BY <1>2, <1>4, <1>7, <1>8, QuietStep DEF RInv, FillInv

\* A worker that sends: its result was nowhere else.
LEMMA SendRInv ==
    ASSUME RInv, IInv', NEW c \in Calls, GiveUp(c) \/ Send(c)
    PROVE  RInv'
<1>1. /\ pc \in [Calls -> WorkerSteps] /\ resultCh \in Seq(ExecResult)
      /\ out \in [Calls -> Delivery] /\ received \in Nat
  BY DEF RInv, IInv, TypeOK
<1>2. /\ UNCHANGED <<out, results, received, cpc, parentDone>>
      /\ pc[c] \in {"acquire", "send"}
      /\ \E step \in {"release", "done"} : pc' = [pc EXCEPT ![c] = step]
  BY DEF GiveUp, Send, Goto, collectVars, cancelVars
<1>3. PICK r \in ExecResult :
          /\ resultCh' = Append(resultCh, r)
          /\ r.index = c /\ r.result = out[c].result
  <2>1. CASE GiveUp(c)
    <3>1. [index |-> c, result |-> "nil", steer |-> <<>>] \in ExecResult
      BY EmptyBundle DEF ExecResult, Outcomes
    <3>2. out[c].result = "nil"
      BY <2>1 DEF GiveUp, RInv, NothingEarly
    <3> QED
      BY <2>1, <3>1, <3>2 DEF GiveUp
  <2>2. CASE Send(c)
    <3>1. [index |-> c, result |-> out[c].result, steer |-> out[c].steer] \in ExecResult
      BY <1>1 DEF ExecResult, Delivery
    <3> QED
      BY <2>2, <3>1 DEF Send
  <2> QED
    BY <2>1, <2>2
<1>4. /\ Len(resultCh) \in Nat
      /\ Len(resultCh') = Len(resultCh) + 1
      /\ \A i \in 1..Len(resultCh) : resultCh'[i] = resultCh[i]
      /\ resultCh'[Len(resultCh) + 1] = r
  BY <1>1, <1>3, AppendProperties
<1>5. Sent' = Sent \union {c} /\ c \notin Sent
  BY <1>1, <1>2 DEF Sent
<1>6. Cardinality(Sent') = Cardinality(Sent) + 1
  BY <1>5, SentFinite, FS_AddElement
<1>7. cpc # "returned" => results[c] = "nil"
  BY <1>5 DEF RInv, GatherInv
<1>8. NothingEarly'
  BY <1>1, <1>2 DEF RInv, NothingEarly
<1>9. ChannelInv'
  <2>1. ASSUME NEW i \in 1..Len(resultCh')
        PROVE  /\ resultCh'[i].index \in Sent'
               /\ resultCh'[i].result = out'[resultCh'[i].index].result
               /\ cpc' # "returned" => results'[resultCh'[i].index] = "nil"
    BY <1>2, <1>3, <1>4, <1>5, <1>7, <2>1 DEF RInv, ChannelInv
  <2>2. ASSUME NEW i \in 1..Len(resultCh'), NEW j \in 1..Len(resultCh'), i # j
        PROVE  resultCh'[i].index # resultCh'[j].index
    BY <1>3, <1>4, <1>5, <2>2 DEF RInv, ChannelInv
  <2> QED
    BY <2>1, <2>2 DEF ChannelInv
<1>10. GatherInv'
  <2>1. ASSUME NEW x \in Sent' PROVE Waiting(x)' \/ (x \in Sent /\ (Waiting(x) => Waiting(x)'))
    <3>1. CASE x = c
      BY <1>3, <1>4, <3>1 DEF Waiting
    <3>2. CASE x # c
      BY <1>4, <1>5, <2>1, <3>2 DEF Waiting
    <3> QED
      BY <3>1, <3>2
  <2> QED
    BY <1>1, <1>2, <1>4, <1>5, <1>6, <2>1, SentFinite DEF RInv, GatherInv
<1>11. ResultsAreTheWorkers'
  <2> SUFFICES ASSUME cpc' = "returned", NEW x \in Calls
               PROVE  \/ results'[x] = AnswerOf(x)' /\ x \in Sent'
                      \/ parentDone' /\ results'[x] = "cancelled"
    BY DEF ResultsAreTheWorkers, Sent
  <2>1. \/ results[x] = AnswerOf(x) /\ x \in Sent
        \/ parentDone /\ results[x] = "cancelled"
    BY <1>2 DEF RInv, ResultsAreTheWorkers, Sent
  <2> QED
    BY <1>2, <1>5, <2>1 DEF AnswerOf
<1> QED
  BY <1>2, <1>8, <1>9, <1>10, <1>11 DEF RInv, FillInv

LEMMA ReleaseRInv ==
    ASSUME RInv, IInv', NEW c \in Calls, Release(c)
    PROVE  RInv'
<1>1. /\ UNCHANGED <<out, resultCh, results, received, cpc, parentDone>>
      /\ pc[c] = "release" /\ pc' = [pc EXCEPT ![c] = "done"]
      /\ pc \in [Calls -> WorkerSteps]
  BY DEF Release, Goto, collectVars, cancelVars, RInv, IInv, TypeOK
<1>2. Sent' = Sent /\ NothingEarly'
  BY <1>1 DEF Sent, RInv, NothingEarly
<1> QED
  BY <1>1, <1>2, QuietStep DEF RInv, FillInv

-----------------------------------------------------------------------------
(***************************************************************************)
(* The collector.                                                          *)
(***************************************************************************)

\* Receive and Collect: a result moves from the channel to its slot.
LEMMA TakeRInv ==
    ASSUME RInv, IInv', Receive \/ Collect
    PROVE  RInv'
<1>1. /\ UNCHANGED <<pc, out, cpc, parentDone>> /\ Take
      /\ cpc \in {"select", "collect"}
      /\ resultCh \in Seq(ExecResult) /\ results \in [Calls -> Results] /\ received \in Nat
  BY DEF Receive, Collect, cancelVars, RInv, IInv, TypeOK
<1> DEFINE r == resultCh[1]
<1>2. /\ Len(resultCh) \in Nat /\ Len(resultCh) > 0
      /\ r \in ExecResult /\ r.index \in Calls
      /\ Len(resultCh') = Len(resultCh) - 1
      /\ \A i \in 1..Len(resultCh') : resultCh'[i] = resultCh[i + 1]
      /\ results' = [results EXCEPT ![r.index] = r.result]
      /\ received' = received + 1
  <2>1. resultCh # <<>> /\ Head(resultCh) = r
    BY <1>1 DEF Take
  <2>2. /\ r \in ExecResult /\ Len(resultCh) \in Nat /\ Len(resultCh) > 0
        /\ Len(Tail(resultCh)) = Len(resultCh) - 1
        /\ \A i \in 1..Len(Tail(resultCh)) : Tail(resultCh)[i] = resultCh[i + 1]
    BY <1>1, <2>1, HeadTailProperties
  <2>3. r.index \in Calls
    BY <2>2 DEF ExecResult
  <2> QED
    BY <1>1, <2>1, <2>2, <2>3 DEF Take
<1>3. Sent' = Sent /\ NothingEarly'
  BY <1>1 DEF Sent, RInv, NothingEarly
<1>4. /\ r.index \in Sent /\ r.result = out[r.index].result
      /\ \A i \in 2..Len(resultCh) : resultCh[i].index # r.index
  BY <1>2 DEF RInv, ChannelInv
<1>5. ChannelInv'
  <2>1. ASSUME NEW i \in 1..Len(resultCh')
        PROVE  /\ resultCh'[i].index \in Sent'
               /\ resultCh'[i].result = out'[resultCh'[i].index].result
               /\ results'[resultCh'[i].index] = "nil"
    <3>1. i + 1 \in 2..Len(resultCh) /\ i + 1 \in 1..Len(resultCh)
      BY <1>2, <2>1
    <3>2. /\ resultCh[i + 1].index \in Sent /\ resultCh[i + 1].index # r.index
          /\ resultCh[i + 1].result = out[resultCh[i + 1].index].result
          /\ results[resultCh[i + 1].index] = "nil"
      BY <1>1, <1>4, <3>1 DEF RInv, ChannelInv
    <3> QED
      BY <1>1, <1>2, <1>3, <2>1, <3>2 DEF Sent
  <2>2. ASSUME NEW i \in 1..Len(resultCh'), NEW j \in 1..Len(resultCh'), i # j
        PROVE  resultCh'[i].index # resultCh'[j].index
    <3>1. i + 1 \in 1..Len(resultCh) /\ j + 1 \in 1..Len(resultCh) /\ i + 1 # j + 1
      BY <1>2, <2>2
    <3> QED
      BY <1>2, <2>2, <3>1 DEF RInv, ChannelInv
  <2> QED
    BY <2>1, <2>2 DEF ChannelInv
<1>6. GatherInv'
  <2>1. \A x \in Calls \ Sent : results'[x] = "nil"
    BY <1>1, <1>2, <1>4 DEF RInv, GatherInv, Sent
  <2>2. ASSUME NEW x \in Sent PROVE results'[x] = out[x].result \/ Waiting(x)'
    <3>1. CASE x = r.index
      BY <1>1, <1>2, <1>4, <3>1
    <3>2. CASE x # r.index /\ results[x] = out[x].result
      BY <1>1, <1>2, <2>2, <3>2 DEF Sent
    <3>3. CASE x # r.index /\ Waiting(x)
      <4>1. PICK i \in 1..Len(resultCh) : resultCh[i].index = x
        BY <3>3 DEF Waiting
      <4>2. i # 1
        BY <3>3, <4>1
      <4>3. i - 1 \in 1..Len(resultCh') /\ resultCh'[i - 1] = resultCh[i]
        BY <1>2, <4>1, <4>2
      <4> QED
        BY <4>1, <4>3 DEF Waiting
    <3> QED
      BY <1>1, <2>2, <3>1, <3>2, <3>3 DEF RInv, GatherInv
  <2>3. received' + Len(resultCh') = Cardinality(Sent)
    BY <1>1, <1>2 DEF RInv, GatherInv
  <2> QED
    BY <1>1, <1>3, <2>1, <2>2, <2>3 DEF GatherInv
<1>7. ResultsAreTheWorkers' /\ FillInv'
  BY <1>1 DEF ResultsAreTheWorkers, FillInv
<1> QED
  BY <1>3, <1>5, <1>6, <1>7 DEF RInv

\* Begin, SeeCancelled and Abandon only move the collector.
LEMMA MoveRInv ==
    ASSUME RInv, IInv', Begin \/ SeeCancelled \/ Abandon
    PROVE  RInv'
<1>1. /\ UNCHANGED <<out, resultCh, results, received, parentDone>>
      /\ cpc # "returned" /\ cpc' # "returned"
      /\ cpc' = "fill" => parentDone
  BY DEF Begin, SeeCancelled, Abandon, cancelVars, collectVars
<1>2. Sent' = Sent /\ NothingEarly'
  <2>1. CASE Begin
    <3>1. \A c \in Calls : pc[c] = "unborn" /\ pc'[c] = "acquire"
      BY <2>1 DEF Begin, RInv, IInv, SemInv
    <3> QED
      BY <1>1, <3>1 DEF Sent, RInv, NothingEarly
  <2>2. CASE SeeCancelled \/ Abandon
    BY <2>2 DEF SeeCancelled, Abandon, Sent, RInv, NothingEarly
  <2> QED
    BY <2>1, <2>2
<1> QED
  BY <1>1, <1>2, QuietStep

\* When one result per call was received every worker has sent and nothing waits
\* in the channel.
LEMMA NothingMissing ==
    ASSUME RInv, cpc # "returned", ~Missing
    PROVE  Sent = Calls /\ \A c \in Calls : results[c] = out[c].result
<1>1. /\ received \in Nat /\ Len(resultCh) \in Nat
      /\ received + Len(resultCh) = Cardinality(Sent)
  BY DEF RInv, GatherInv, IInv, TypeOK
<1>2. Sent \subseteq Calls /\ IsFiniteSet(Calls)
  BY ToolExecAssumption DEF Sent
<1>3. Cardinality(Sent) \in Nat /\ Cardinality(Calls) \in Nat
  BY <1>2, SentFinite, FS_CardinalityType
<1>4. Cardinality(Sent) >= Cardinality(Calls)
  BY <1>1, <1>3 DEF Missing
<1>5. Sent = Calls
  BY <1>2, <1>3, <1>4, FS_Subset
<1>6. Len(resultCh) = 0
  BY <1>1, <1>3, <1>5 DEF Missing
<1> QED
  BY <1>5, <1>6 DEF RInv, GatherInv, Waiting

LEMMA ReturnRInv ==
    ASSUME RInv, IInv', Return
    PROVE  RInv'
<1>1. /\ UNCHANGED <<pc, out, resultCh, received, parentDone>>
      /\ cpc # "returned" /\ cpc' = "returned"
      /\ results \in [Calls -> Results]
      /\ \A c \in Calls :
            results'[c] = IF results[c] = "nil" THEN "cancelled" ELSE results[c]
  BY DEF Return, RInv, IInv, TypeOK
<1>2. Sent' = Sent /\ NothingEarly'
  BY <1>1 DEF Sent, RInv, NothingEarly
<1>3. ChannelInv' /\ GatherInv' /\ FillInv'
  BY <1>1, <1>2 DEF RInv, ChannelInv, GatherInv, FillInv
<1>4. ResultsAreTheWorkers'
  <2> SUFFICES ASSUME NEW c \in Calls
               PROVE  \/ results'[c] = AnswerOf(c)' /\ c \in Sent'
                      \/ parentDone' /\ results'[c] = "cancelled"
    BY DEF ResultsAreTheWorkers, Sent
  <2>1. CASE cpc # "fill"
    <3>1. Sent = Calls /\ results[c] = out[c].result
      BY <2>1, NothingMissing DEF Return
    <3> QED
      BY <1>1, <1>2, <3>1 DEF AnswerOf
  <2>2. CASE cpc = "fill"
    <3>1. parentDone
      BY <2>2 DEF RInv, FillInv
    <3>2. CASE results[c] = "nil"
      BY <1>1, <3>1, <3>2
    <3>3. CASE results[c] # "nil"
      <4>1. c \in Sent
        BY <1>1, <3>3 DEF RInv, GatherInv
      <4>2. ~Waiting(c)
        BY <1>1, <3>3 DEF RInv, ChannelInv, Waiting
      <4>3. results[c] = out[c].result
        BY <1>1, <4>1, <4>2 DEF RInv, GatherInv
      <4> QED
        BY <1>1, <1>2, <3>3, <4>1, <4>3 DEF AnswerOf
    <3> QED
      BY <3>2, <3>3
  <2> QED
    BY <2>1, <2>2
<1> QED
  BY <1>2, <1>3, <1>4 DEF RInv

-----------------------------------------------------------------------------
LEMMA NextRInv == RInv /\ [Next]_vars => RInv'
<1> SUFFICES ASSUME RInv, [Next]_vars PROVE RInv'
  OBVIOUS
<1>0. IInv'
  BY NextIInv DEF RInv
<1>1. CASE Steer \/ Cancel \/ SetStepMode \/ StepRespond \/ UNCHANGED vars
  BY <1>0, <1>1, EnvironmentRInv
<1>2. CASE Collector
  BY <1>0, <1>2, TakeRInv, MoveRInv, ReturnRInv DEF Collector
<1>3. ASSUME NEW c \in Calls, Worker(c) \/ Finish(c) PROVE RInv'
  BY <1>0, <1>3, WorkRInv, SendRInv, ReleaseRInv DEF Worker
<1> QED
  BY <1>1, <1>2, <1>3 DEF Next

THEOREM ResultsInvariance == Spec => []RInv
  BY InitRInv, NextRInv, PTL DEF Spec

\* However many calls there are and whatever is cancelled: a batch that returned
\* answers every call with what its own worker delivered, and reports a call as
\* cancelled only if its tool never ran or the whole run was cancelled.
THEOREM OwnResults == Spec => []ResultsAreTheWorkers
<1>1. RInv => ResultsAreTheWorkers
  BY DEF RInv
<1> QED
  BY <1>1, ResultsInvariance, PTL

\* No answer is overwritten, and late workers change nothing.
THEOREM FinalAnswers == Spec => AnswersAreFinal
<1> DEFINE A == /\ \A c \in Calls : results[c] # "nil" => results'[c] = results[c]
                /\ cpc = "returned" => UNCHANGED <<results, steering, received>>
<1>1. ASSUME RInv, [Next]_vars PROVE [A]_vars
  <2>1. CASE Steer \/ Cancel \/ SetStepMode \/ StepRespond \/ UNCHANGED vars
    BY <2>1 DEF Steer, Cancel, SetStepMode, StepRespond, vars, collectVars
  <2>2. ASSUME NEW c \in Calls, Worker(c) \/ Finish(c) PROVE A
    BY <2>2 DEF Worker, Acquire, GiveUp, GateAnswer, GateCancelled, DequeueSteer, Send,
                Release, Finish, collectVars
  <2>3. CASE Begin \/ SeeCancelled \/ Abandon
    BY <2>3 DEF Begin, SeeCancelled, Abandon
  <2>4. CASE Receive \/ Collect
    <3>1. /\ resultCh # <<>> /\ resultCh \in Seq(ExecResult)
          /\ results \in [Calls -> Results]
          /\ results' = [results EXCEPT ![Head(resultCh).index] = Head(resultCh).result]
          /\ cpc # "returned"
      BY <1>1, <2>4 DEF Receive, Collect, Take, RInv, IInv, TypeOK
    <3>2. results[Head(resultCh).index] = "nil"
      <4>1. 1 \in 1..Len(resultCh) /\ Head(resultCh) = resultCh[1]
        BY <3>1
      <4> QED
        BY <1>1, <3>1, <4>1 DEF RInv, ChannelInv
    <3> QED
      BY <3>1, <3>2
  <2>5. CASE Return
    BY <1>1, <2>5 DEF Return, RInv, IInv, TypeOK
  <2> QED
    BY <1>1, <2>1, <2>2, <2>3, <2>4, <2>5 DEF Next, Collector
<1> QED
  BY <1>1, ResultsInvariance, PTL DEF Spec, AnswersAreFinal

-----------------------------------------------------------------------------
(***************************************************************************)
(* executeTools keeps the contract of ToolBatch: every step of ToolExec is a *)
(* step of ToolBatch or leaves what ToolBatch sees alone.                  *)
(***************************************************************************)

\* Bundles of steering messages: only a worker that succeeded has one, from then
\* on, and the results channel carries it unchanged.
BundleInv ==
    /\ \A c \in Calls :
          /\ pc[c] \in {"unborn", "acquire", "gate", "exec", "dequeue"} =>
                out[c].steer = <<>>
          /\ out[c].steer # <<>> => out[c].result = "ok"
    /\ \A i \in 1..Len(resultCh) : resultCh[i].steer = out[resultCh[i].index].steer

\* The parts of the refinement mapping that are more than a variable.
Outcome == [c \in Calls |-> IF Ended(c) THEN out[c].result ELSE "none"]
Bundles == {out[c].steer : c \in Calls} \ {<<>>}
batchVars == <<steerQ, parentDone, Outcome, Bundles, results, steering, cpc = "returned">>

-----------------------------------------------------------------------------
LEMMA InitBundleInv == Init => BundleInv
  BY DEF Init, BundleInv, NoOut

\* A worker that works delivers a bundle at most once, when it succeeded.
LEMMA WorkBundleInv ==
    ASSUME RInv, BundleInv, NEW c \in Calls,
           Acquire(c) \/ GateAnswer(c) \/ GateCancelled(c) \/ Finish(c) \/ DequeueSteer(c)
    PROVE  BundleInv'
<1> USE DEF Goto, Deliver, LookUp
<1>1. /\ pc \in [Calls -> WorkerSteps] /\ out \in [Calls -> Delivery]
      /\ pc[c] \in {"acquire", "gate", "exec", "dequeue"}
      /\ UNCHANGED resultCh
  BY DEF RInv, IInv, TypeOK, Acquire, GateAnswer, GateCancelled, Finish, DequeueSteer
<1>2. \A x \in Calls : x # c => out'[x] = out[x] /\ pc'[x] = pc[x]
  BY <1>1 DEF Acquire, GateAnswer, GateCancelled, Finish, DequeueSteer
<1>3. /\ pc'[c] # "send" => out'[c] = out[c]
      /\ out'[c].steer # <<>> => out'[c].result = "ok"
      /\ pc'[c] \in {"gate", "exec", "dequeue", "send"}
  BY <1>1 DEF BundleInv, Acquire, GateAnswer, GateCancelled, Finish, DequeueSteer
<1>4. \A i \in 1..Len(resultCh) : resultCh[i].index \in Calls /\ resultCh[i].index # c
  BY <1>1 DEF RInv, ChannelInv, Sent
<1> QED
  BY <1>1, <1>2, <1>3, <1>4 DEF BundleInv

\* A worker that sends puts its bundle beside its result.
LEMMA SendBundleInv ==
    ASSUME RInv, BundleInv, NEW c \in Calls, GiveUp(c) \/ Send(c)
    PROVE  BundleInv'
<1>1. /\ pc \in [Calls -> WorkerSteps] /\ resultCh \in Seq(ExecResult)
      /\ out \in [Calls -> Delivery] /\ UNCHANGED out
      /\ \E step \in {"release", "done"} : pc' = [pc EXCEPT ![c] = step]
  BY DEF RInv, IInv, TypeOK, GiveUp, Send, Goto
<1>2. PICK r \in ExecResult :
          resultCh' = Append(resultCh, r) /\ r.index = c /\ r.steer = out[c].steer
  <2>1. CASE GiveUp(c)
    <3>1. [index |-> c, result |-> "nil", steer |-> <<>>] \in ExecResult
      BY EmptyBundle DEF ExecResult, Outcomes
    <3>2. out[c].steer = <<>>
      BY <2>1 DEF GiveUp, BundleInv
    <3> QED
      BY <2>1, <3>1, <3>2 DEF GiveUp
  <2>2. CASE Send(c)
    <3>1. [index |-> c, result |-> out[c].result, steer |-> out[c].steer] \in ExecResult
      BY <1>1 DEF ExecResult, Delivery
    <3> QED
      BY <2>2, <3>1 DEF Send
  <2> QED
    BY <2>1, <2>2
<1>3. /\ Len(resultCh) \in Nat
      /\ Len(resultCh') = Len(resultCh) + 1
      /\ \A i \in 1..Len(resultCh) : resultCh'[i] = resultCh[i]
      /\ resultCh'[Len(resultCh) + 1] = r
  BY <1>1, <1>2, AppendProperties
<1>4. \A i \in 1..Len(resultCh') : resultCh'[i].steer = out'[resultCh'[i].index].steer
  BY <1>1, <1>2, <1>3 DEF BundleInv
<1> QED
  BY <1>1, <1>4 DEF BundleInv

\* Receive and Collect shorten the channel.
LEMMA TakeBundleInv ==
    ASSUME RInv, BundleInv, Receive \/ Collect
    PROVE  BundleInv'
<1>1. /\ UNCHANGED <<pc, out>> /\ Take /\ resultCh \in Seq(ExecResult)
  BY DEF Receive, Collect, RInv, IInv, TypeOK
<1>2. /\ Len(resultCh) \in Nat /\ Len(resultCh') = Len(resultCh) - 1
      /\ \A i \in 1..Len(resultCh') : resultCh'[i] = resultCh[i + 1]
  BY <1>1, HeadTailProperties DEF Take
<1>3. \A i \in 1..Len(resultCh') : i + 1 \in 1..Len(resultCh)
  BY <1>2
<1> QED
  BY <1>1, <1>2, <1>3 DEF BundleInv

LEMMA NextBundleInv == RInv /\ BundleInv /\ [Next]_vars => BundleInv'
<1> SUFFICES ASSUME RInv, BundleInv, [Next]_vars PROVE BundleInv'
  OBVIOUS
<1>1. CASE Steer \/ Cancel \/ SetStepMode \/ StepRespond \/ UNCHANGED vars
  BY <1>1 DEF Steer, Cancel, SetStepMode, StepRespond, vars, BundleInv
<1>2. CASE Begin
  BY <1>2 DEF Begin, BundleInv, RInv, IInv, SemInv
<1>3. CASE SeeCancelled \/ Abandon \/ Return
  BY <1>3 DEF SeeCancelled, Abandon, Return, BundleInv
<1>4. CASE Receive \/ Collect
  BY <1>4, TakeBundleInv
<1>5. ASSUME NEW c \in Calls, Worker(c) \/ Finish(c) PROVE BundleInv'
  <2>1. CASE Release(c)
    BY <2>1 DEF Release, Goto, BundleInv, RInv, IInv, TypeOK
  <2> QED
    BY <1>5, <2>1, WorkBundleInv, SendBundleInv DEF Worker
<1> QED
  BY <1>1, <1>2, <1>3, <1>4, <1>5 DEF Next, Collector

THEOREM BundleInvariance == Spec => [](RInv /\ BundleInv)
<1>1. Init => RInv /\ BundleInv
  BY InitRInv, InitBundleInv
<1>2. RInv /\ BundleInv /\ [Next]_vars => (RInv /\ BundleInv)'
  BY NextRInv, NextBundleInv
<1> QED
  BY <1>1, <1>2, PTL DEF Spec

-----------------------------------------------------------------------------
(***************************************************************************)
(* The steps.                                                              *)
(***************************************************************************)

\* What a step of ToolExec has to be for ToolBatch.
BatchStep == Batch!Next \/ UNCHANGED batchVars

LEMMA InitBatch == Init => Batch!Init
  BY DEF Init, Batch!Init, NoOut, Ended

LEMMA EnvironmentBatch ==
    ASSUME RInv, Steer \/ Cancel \/ SetStepMode \/ StepRespond \/ UNCHANGED vars
    PROVE  BatchStep
<1>1. UNCHANGED <<Outcome, Bundles, results, steering, cpc>>
  BY DEF Steer, Cancel, SetStepMode, StepRespond, vars, collectVars, Outcome, Bundles, Ended
<1>2. CASE Steer
  <2>1. sent + 1 \in Messages
    BY <1>2, ToolExecAssumption DEF Steer, Messages, RInv, IInv, TypeOK
  <2> QED
    BY <1>1, <1>2, <2>1
    DEF Steer, BatchStep, Batch!Next, Batch!Ask, Outcome, Bundles
<1>3. CASE Cancel
  BY <1>1, <1>3 DEF Cancel, agentVars, BatchStep, Batch!Next, Batch!Cancel, Outcome, Bundles
<1>4. CASE SetStepMode \/ StepRespond \/ UNCHANGED vars
  BY <1>1, <1>4 DEF SetStepMode, StepRespond, vars, cancelVars, BatchStep, batchVars
<1> QED
  BY <1>2, <1>3, <1>4

\* A worker that works may pick up a bundle; nothing else of it shows.
LEMMA WorkBatch ==
    ASSUME RInv, BundleInv, NEW c \in Calls,
           Acquire(c) \/ GateAnswer(c) \/ GateCancelled(c) \/ Finish(c) \/ DequeueSteer(c)
    PROVE  BatchStep
<1> USE DEF Goto, Deliver, LookUp
<1>1. /\ pc \in [Calls -> WorkerSteps] /\ out \in [Calls -> Delivery]
      /\ UNCHANGED <<parentDone, results, steering, cpc>>
      /\ pc[c] \in {"acquire", "gate", "exec", "dequeue"}
      /\ out[c].steer = <<>>
  BY DEF RInv, IInv, TypeOK, BundleInv, Acquire, GateAnswer, GateCancelled, Finish,
         DequeueSteer, collectVars, cancelVars
<1>2. UNCHANGED Outcome
  BY <1>1 DEF Outcome, Ended, Acquire, GateAnswer, GateCancelled, Finish, DequeueSteer
<1>3. CASE Acquire(c) \/ GateAnswer(c) \/ GateCancelled(c) \/ Finish(c)
  <2>1. UNCHANGED steerQ
    BY <1>3 DEF Acquire, GateAnswer, GateCancelled, Finish, agentVars
  <2>2. \A x \in Calls : out'[x].steer = out[x].steer
    BY <1>1, <1>3 DEF Acquire, GateAnswer, GateCancelled, Finish
  <2>3. UNCHANGED Bundles
    BY <2>2 DEF Bundles
  <2> QED
    BY <1>1, <1>2, <2>1, <2>3 DEF BatchStep, batchVars
<1>4. CASE DequeueSteer(c)
  <2>1. /\ steerQ' = <<>>
        /\ out'[c].steer = steerQ
        /\ \A x \in Calls : x # c => out'[x].steer = out[x].steer
    BY <1>1, <1>4 DEF DequeueSteer
  <2>2. Bundles' = (Bundles \cup {steerQ}) \ {<<>>}
    BY <1>1, <2>1 DEF Bundles
  <2>3. CASE steerQ = <<>>
    <3>1. Bundles' = Bundles
      BY <2>2, <2>3 DEF Bundles
    <3> QED
      BY <1>1, <1>2, <2>1, <2>3, <3>1 DEF BatchStep, batchVars
  <2>4. CASE steerQ # <<>>
    <3>1. Bundles' = Bundles \cup {steerQ}
      BY <2>2, <2>4 DEF Bundles
    <3> QED
      BY <1>1, <1>2, <2>1, <2>4, <3>1
      DEF BatchStep, Batch!Next, Batch!PickUp, Outcome, Bundles
  <2> QED
    BY <2>3, <2>4
<1> QED
  BY <1>3, <1>4

\* A worker that sends ends its call.
LEMMA SendBatch ==
    ASSUME RInv, BundleInv, NEW c \in Calls, GiveUp(c) \/ Send(c)
    PROVE  BatchStep
<1>1. /\ pc \in [Calls -> WorkerSteps] /\ out \in [Calls -> Delivery]
      /\ UNCHANGED <<steerQ, parentDone, out, results, steering, cpc>>
      /\ pc[c] \in {"acquire", "send"}
      /\ \E step \in {"release", "done"} : pc' = [pc EXCEPT ![c] = step]
  BY DEF RInv, IInv, TypeOK, GiveUp, Send, Goto, agentVars, cancelVars, collectVars
<1>2. Outcome[c] = "none" /\ Outcome' = [Outcome EXCEPT ![c] = out[c].result]
  BY <1>1 DEF Outcome, Ended
<1>3. out[c].result \in {"nil", "ok", "error"} /\ UNCHANGED Bundles
  BY <1>1 DEF Delivery, Outcomes, Bundles
<1>4. \E r \in {"nil", "ok", "error"} : Batch!End(c, r)
  BY <1>1, <1>2, <1>3 DEF Batch!End, Outcome, Bundles
<1> QED
  BY <1>4 DEF BatchStep, Batch!Next

LEMMA ReleaseBatch ==
    ASSUME RInv, NEW c \in Calls, Release(c)
    PROVE  BatchStep
<1>1. /\ pc \in [Calls -> WorkerSteps] /\ pc[c] = "release"
      /\ UNCHANGED <<steerQ, parentDone, out, results, steering, cpc>>
      /\ pc' = [pc EXCEPT ![c] = "done"]
  BY DEF RInv, IInv, TypeOK, Release, Goto, agentVars, cancelVars, collectVars
<1>2. UNCHANGED <<Outcome, Bundles>>
  BY <1>1 DEF Outcome, Bundles, Ended
<1> QED
  BY <1>1, <1>2 DEF BatchStep, batchVars

\* The collector learns how one call ended; the first bundle is kept.
LEMMA TakeBatch ==
    ASSUME RInv, BundleInv, Receive \/ Collect
    PROVE  BatchStep
<1>1. /\ UNCHANGED <<steerQ, parentDone, pc, out, cpc>> /\ Take
      /\ cpc # "returned" /\ resultCh \in Seq(ExecResult)
      /\ results \in [Calls -> Results] /\ out \in [Calls -> Delivery]
  BY DEF Receive, Collect, agentVars, cancelVars, RInv, IInv, TypeOK
<1> DEFINE r == resultCh[1]
<1>2. /\ 1 \in 1..Len(resultCh) /\ Head(resultCh) = r
      /\ r.index \in Calls
      /\ results' = [results EXCEPT ![r.index] = r.result]
  <2>1. resultCh # <<>>
    BY <1>1 DEF Take
  <2>2. /\ 1 \in 1..Len(resultCh) /\ Head(resultCh) = r /\ r \in ExecResult
    BY <1>1, <2>1
  <2> QED
    BY <1>1, <2>2 DEF Take, ExecResult
<1>3. /\ Ended(r.index) /\ results[r.index] = "nil"
      /\ r.result = out[r.index].result /\ r.steer = out[r.index].steer
  BY <1>1, <1>2 DEF RInv, ChannelInv, BundleInv, Sent, Ended
<1>4. UNCHANGED <<Outcome, Bundles>> /\ Outcome[r.index] = r.result
  BY <1>1, <1>2, <1>3 DEF Outcome, Bundles, Ended
<1>5. \/ UNCHANGED steering
      \/ steering = <<>> /\ steering' \in Bundles /\ r.result = "ok"
  BY <1>2, <1>3 DEF Receive, Collect, Bundles, BundleInv
<1>6. CASE r.result = "nil"
  <2>1. results' = results /\ UNCHANGED steering
    BY <1>1, <1>2, <1>3, <1>5, <1>6
  <2> QED
    BY <1>1, <1>4, <2>1 DEF BatchStep, batchVars
<1>7. CASE r.result \in {"ok", "error"}
  <2>1. Batch!Answer(r.index)
    BY <1>1, <1>2, <1>3, <1>4, <1>5, <1>7 DEF Batch!Answer, Outcome, Bundles
  <2> QED
    BY <1>2, <2>1 DEF BatchStep, Batch!Next
<1> QED
  BY <1>1, <1>2, <1>3, <1>6, <1>7 DEF Delivery, Outcomes

\* Begin, SeeCancelled and Abandon show nothing.
LEMMA MoveBatch ==
    ASSUME RInv, Begin \/ SeeCancelled \/ Abandon
    PROVE  BatchStep
<1>1. /\ UNCHANGED <<steerQ, parentDone, out, results, steering>>
      /\ cpc # "returned" /\ cpc' # "returned"
  BY DEF Begin, SeeCancelled, Abandon, agentVars, cancelVars, collectVars
<1>2. \A c \in Calls : Ended(c)' <=> Ended(c)
  BY DEF Begin, SeeCancelled, Abandon, Ended, RInv, IInv, SemInv
<1>3. UNCHANGED <<Outcome, Bundles>>
  BY <1>1, <1>2 DEF Outcome, Bundles
<1> QED
  BY <1>1, <1>3 DEF BatchStep, batchVars

\* The batch closes: with all answers, or because the run was cancelled.
LEMMA ReturnBatch ==
    ASSUME RInv, Return
    PROVE  BatchStep
<1>1. /\ UNCHANGED <<steerQ, parentDone, pc, out, steering>>
      /\ cpc # "returned" /\ cpc' = "returned"
      /\ results' = [c \in Calls |-> IF results[c] = "nil" THEN "cancelled" ELSE results[c]]
  BY DEF Return, agentVars
<1>2. UNCHANGED <<Outcome, Bundles>>
  BY <1>1 DEF Outcome, Bundles, Ended
<1>3. \/ parentDone
      \/ \A c \in Calls :
            (results[c] # "nil" /\ results[c] = Outcome[c]) \/ Outcome[c] = "nil"
  <2>1. CASE cpc = "fill"
    BY <2>1 DEF RInv, FillInv
  <2>2. CASE cpc # "fill"
    <3>1. Sent = Calls /\ \A c \in Calls : results[c] = out[c].result
      BY <1>1, <2>2, NothingMissing DEF Return
    <3>2. \A c \in Calls : Outcome[c] = results[c]
      BY <3>1 DEF Outcome, Sent, Ended
    <3> QED
      BY <3>2
  <2> QED
    BY <2>1, <2>2
<1>4. Batch!Close
  BY <1>1, <1>2, <1>3 DEF Batch!Close, Outcome, Bundles
<1> QED
  BY <1>4 DEF BatchStep, Batch!Next

-----------------------------------------------------------------------------
LEMMA NextBatch == RInv /\ BundleInv /\ [Next]_vars => BatchStep
<1> SUFFICES ASSUME RInv, BundleInv, [Next]_vars PROVE BatchStep
  OBVIOUS
<1>1. CASE Steer \/ Cancel \/ SetStepMode \/ StepRespond \/ UNCHANGED vars
  BY <1>1, EnvironmentBatch
<1>2. CASE Collector
  BY <1>2, TakeBatch, MoveBatch, ReturnBatch DEF Collector
<1>3. ASSUME NEW c \in Calls, Worker(c) \/ Finish(c) PROVE BatchStep
  BY <1>3, WorkBatch, SendBatch, ReleaseBatch DEF Worker
<1> QED
  BY <1>1, <1>2, <1>3 DEF Next

\* For any number of calls, workers, steering messages and gates, executeTools
\* keeps the contract of ToolBatch: each call is answered once and with how it
\* ended, the batch closes early only for a cancelled run, and a steering message
\* leaves the queue only in the bundle of one worker.
THEOREM Contract == Spec => BatchContract
<1>1. Init => Batch!Init
  BY InitBatch
<1>2. RInv /\ BundleInv /\ [Next]_vars => [Batch!Next]_(Batch!vars)
  BY NextBatch DEF BatchStep, batchVars, Batch!vars, Outcome, Bundles
<1> QED
  BY <1>1, <1>2, BundleInvariance, PTL DEF Spec, BatchContract, Batch!Spec
=============================================================================
