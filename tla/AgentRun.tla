------------------------------ MODULE AgentRun ------------------------------
(***************************************************************************)
(* Agent.run and runTurns (core/agent.go) with the retry loop of stream.go *)
(* and the background compaction of compact.go, over several runs of one   *)
(* agent.  The run goroutine edits the history one critical section of     *)
(* Agent.mu at a time; beside it work the compaction goroutine, the tool   *)
(* workers that take steering messages, and the callers of Steer, FollowUp *)
(* and Cancel.                                                             *)
(*                                                                         *)
(* executeTools is seen through what ToolExec shows it promises: one       *)
(* result per call, and at most one of the bundles of steering messages    *)
(* its workers took.  The provider and OnCompact are external: any answer. *)
(***************************************************************************)
EXTENDS Naturals, FiniteSets, Sequences

CONSTANTS
    MaxTurns,      \* AgentConfig.MaxTurns, 0 = unlimited
    MaxMessages,   \* AgentConfig.MaxMessages, 0 = unlimited
    CapFloor,      \* 4 in the code
    MaxRetries,    \* AgentConfig.maxRetries()
    CompactOn,     \* CompactAt > 0 and OnCompact is set
    CompactMin,    \* fewest messages worth compacting: 8 in the code
    MaxCalls,      \* bound: tool calls of one assistant message
    MaxAsst,       \* bound: assistant messages that call tools
    MaxSteer,      \* bound: steering messages
    MaxFollow,     \* bound: follow-up messages
    MaxRuns        \* bound: calls of Start

ASSUME AgentRunAssumption ==
    /\ {MaxTurns, MaxMessages, MaxCalls, MaxAsst, MaxSteer, MaxFollow, MaxRuns} \subseteq Nat
    /\ {MaxRetries, CompactMin} \subseteq Nat \ {0} /\ CapFloor \in Nat \ {0, 1}
    /\ CompactOn \in BOOLEAN

VARIABLES
    messages,      \* Agent.messages
    steerQ,        \* Agent.steerQ
    followQ,       \* Agent.followQ
    turnContext,   \* Agent.turnContext: which injection waits; 0 = none
    pc,            \* where the run goroutine is
    ctxDone,       \* the run's context is cancelled
    turnCount,     \* runTurns: turns taken
    attempt,       \* streamWithRetry: failed attempts
    pending,       \* runTurns: messages the next turn begins with
    fromTools,     \* runTurns: steeringFromTools
    hadCalls,      \* runTurns: number of calls of the last message
    grabs,         \* bundles of steering messages the batch's workers took
    late,          \* workers of an abandoned batch that still run
    snapshot,      \* maybeCompact: the copy of the history it took
    compactor,     \* where the compaction goroutine is
    job,           \* the snapshot it works on
    \* what the behaviour did so far
    sentS, sentF, runs, nAsst, nSum,
    log,           \* every message that was ever in the history
    gist,          \* what each summary stands for
    stale          \* a compaction started from an outdated snapshot

runVars == <<turnCount, attempt, pending, fromTools, hadCalls>>
compactVars == <<snapshot, compactor, job, nSum, gist, stale>>
vars == <<messages, steerQ, followQ, turnContext, pc, ctxDone, turnCount, attempt,
          pending, fromTools, hadCalls, grabs, late, snapshot, compactor, job, sentS,
          sentF, runs, nAsst, nSum, log, gist, stale>>

\* A message: its kind, its number among that kind, and for a tool result the
\* position of the call, for an assistant message the number of its calls.
Msg(kind, n, call) == [kind |-> kind, n |-> n, call |-> call]
Kinds == {"prompt", "steer", "follow", "asst", "failed", "tool", "summary"}
Message == [kind : Kinds, n : Nat, call : Nat]

Elements(s) == {s[i] : i \in DOMAIN s}
Larger(a, b) == IF a >= b THEN a ELSE b
Suffix(s, k) == SubSeq(s, k + 1, Len(s))

RunSteps == {"idle", "prompt", "begin", "turn", "stream", "streaming", "retry", "tools",
             "cap", "snapshot", "launch", "next", "follow", "end", "wait"}

TypeOK ==
    /\ messages \in Seq(Message)
    /\ steerQ \in Seq(Message) /\ followQ \in Seq(Message)
    /\ turnContext \in 0..MaxRuns
    /\ pc \in RunSteps
    /\ ctxDone \in BOOLEAN /\ stale \in BOOLEAN
    /\ turnCount \in Nat /\ attempt \in 0..(MaxRetries - 1)
    /\ pending \in Seq(Message) /\ fromTools \in Seq(Message)
    /\ hadCalls \in 0..MaxCalls
    /\ grabs \in Seq(Seq(Message))
    /\ late \in 0..(MaxCalls * MaxAsst)
    /\ snapshot \in Seq(Message) /\ job \in Seq(Message)
    /\ compactor \in {"off", "working", "exiting"}
    /\ sentS \in 0..MaxSteer /\ sentF \in 0..MaxFollow /\ runs \in 0..MaxRuns
    /\ nAsst \in Nat /\ nSum \in Nat
    /\ log \subseteq Message
    /\ gist \in Seq(SUBSET Message)

Init ==
    /\ messages = <<>> /\ steerQ = <<>> /\ followQ = <<>>
    /\ turnContext = 0
    /\ pc = "idle" /\ ctxDone = FALSE
    /\ turnCount = 0 /\ attempt = 0 /\ pending = <<>> /\ fromTools = <<>> /\ hadCalls = 0
    /\ grabs = <<>> /\ late = 0
    /\ snapshot = <<>> /\ compactor = "off" /\ job = <<>>
    /\ sentS = 0 /\ sentF = 0 /\ runs = 0 /\ nAsst = 0 /\ nSum = 0
    /\ log = {} /\ gist = <<>> /\ stale = FALSE

Extend(new) == messages' = messages \o new /\ log' = log \union Elements(new)

-----------------------------------------------------------------------------
(***************************************************************************)
(* The callers.                                                            *)
(***************************************************************************)

\* A Start that has to wait for an earlier run is in AgentLifecycle.
Start ==
    /\ pc = "idle"
    /\ runs < MaxRuns
    /\ runs' = runs + 1
    /\ pc' = "prompt"
    /\ ctxDone' = FALSE
    /\ UNCHANGED <<messages, steerQ, followQ, turnContext, runVars, grabs, late,
                   compactVars, sentS, sentF, nAsst, log>>

\* The shell hands over what its message hooks inject, before it calls Start.
SetTurnContext ==
    /\ pc = "idle"
    /\ runs < MaxRuns
    /\ turnContext # runs + 1
    /\ turnContext' = runs + 1
    /\ UNCHANGED <<messages, steerQ, followQ, pc, ctxDone, runVars, grabs, late,
                   compactVars, sentS, sentF, runs, nAsst,
                   log>>

Steer ==
    /\ sentS < MaxSteer
    /\ sentS' = sentS + 1
    /\ steerQ' = Append(steerQ, Msg("steer", sentS + 1, 0))
    /\ UNCHANGED <<messages, followQ, turnContext, pc, ctxDone, runVars, grabs, late,
                   compactVars, sentF, runs, nAsst, log>>

FollowUp ==
    /\ sentF < MaxFollow
    /\ sentF' = sentF + 1
    /\ followQ' = Append(followQ, Msg("follow", sentF + 1, 0))
    /\ UNCHANGED <<messages, steerQ, turnContext, pc, ctxDone, runVars, grabs, late,
                   compactVars, sentS, runs, nAsst, log>>

Cancel ==
    /\ pc # "idle" /\ ~ctxDone
    /\ ctxDone' = TRUE
    /\ UNCHANGED <<messages, steerQ, followQ, turnContext, pc, runVars, grabs, late,
                   compactVars, sentS, sentF, runs, nAsst, log>>

-----------------------------------------------------------------------------
(***************************************************************************)
(* The run goroutine.                                                      *)
(***************************************************************************)

Goto(step) == pc' = step
counters == <<sentS, sentF, runs>>

AppendPrompt ==
    /\ pc = "prompt"
    /\ Extend(<<Msg("prompt", runs, 0)>>)
    /\ Goto("begin")
    /\ UNCHANGED <<steerQ, followQ, turnContext, ctxDone, runVars, grabs, late,
                   compactVars, counters, nAsst>>

\* runTurns is entered: dequeueSteer.
BeginTurns ==
    /\ pc = "begin"
    /\ turnCount' = 0
    /\ pending' = steerQ
    /\ steerQ' = <<>>
    /\ Goto("turn")
    /\ UNCHANGED <<messages, followQ, turnContext, ctxDone, attempt, fromTools, hadCalls,
                   grabs, late, compactVars, counters, nAsst, log>>

\* The top of the turn loop: stop when cancelled, else add what is pending.
TurnStart ==
    /\ pc = "turn"
    /\ ~ctxDone
    /\ Extend(pending)
    /\ pending' = <<>>
    /\ attempt' = 0
    /\ Goto("stream")
    /\ UNCHANGED <<steerQ, followQ, turnContext, ctxDone, turnCount, fromTools, hadCalls,
                   grabs, late, compactVars, counters, nAsst>>

TurnCancelled ==
    /\ pc = "turn"
    /\ ctxDone
    /\ pending' = <<>>
    /\ Goto("end")
    /\ UNCHANGED <<messages, steerQ, followQ, turnContext, ctxDone, turnCount, attempt,
                   fromTools, hadCalls, grabs, late, compactVars, counters, nAsst, log>>

\* streamOnce: the request takes the injected context and clears it.
StreamOnce ==
    /\ pc = "stream"
    /\ turnContext' = 0
    /\ Goto("streaming")
    /\ UNCHANGED <<messages, steerQ, followQ, ctxDone, runVars, grabs, late, compactVars,
                   counters, nAsst, log>>

\* The provider answers.  An answer that stopped on an error ends the run.
StreamDone ==
    /\ pc = "streaming"
    /\ \E calls \in 0..MaxCalls, failed \in BOOLEAN :
          /\ calls > 0 => nAsst < MaxAsst
          /\ nAsst' = nAsst + 1
          /\ hadCalls' = calls
          /\ fromTools' = <<>>
          /\ Extend(<<Msg(IF failed THEN "failed" ELSE "asst", nAsst + 1, calls)>>)
          /\ Goto(IF failed THEN "end" ELSE IF calls > 0 THEN "tools" ELSE "cap")
    /\ UNCHANGED <<steerQ, followQ, turnContext, ctxDone, turnCount, attempt, pending,
                   grabs, late, compactVars, counters>>

\* The stream fails: stop when cancelled or out of attempts, else wait.
StreamError ==
    /\ pc = "streaming"
    /\ IF ctxDone \/ attempt >= MaxRetries - 1
       THEN Goto("end") /\ UNCHANGED attempt
       ELSE Goto("retry") /\ attempt' = attempt + 1
    /\ UNCHANGED <<messages, steerQ, followQ, turnContext, ctxDone, turnCount, pending,
                   fromTools, hadCalls, grabs, late, compactVars, counters, nAsst, log>>

\* The retry timer fires, or the context is done first.
RetryWait ==
    /\ pc = "retry"
    /\ \/ Goto("stream")
       \/ ctxDone /\ Goto("end")
    /\ UNCHANGED <<messages, steerQ, followQ, turnContext, ctxDone, runVars, grabs, late,
                   compactVars, counters, nAsst, log>>

\* Mutation: dequeueSteer does not clear the queue.
WorkerDequeuesKeeps ==
    /\ pc = "tools"
    /\ Len(grabs) < hadCalls
    /\ steerQ # <<>>
    /\ grabs' = Append(grabs, steerQ)
    /\ steerQ' = steerQ
    /\ UNCHANGED <<messages, followQ, turnContext, pc, ctxDone, runVars, late,
                   compactVars, counters, nAsst, log>>

\* executeTools: a worker whose tool succeeded takes the queued messages.
WorkerDequeues ==
    /\ pc = "tools"
    /\ Len(grabs) < hadCalls
    /\ steerQ # <<>>
    /\ grabs' = Append(grabs, steerQ)
    /\ steerQ' = <<>>
    /\ UNCHANGED <<messages, followQ, turnContext, pc, ctxDone, runVars, late,
                   compactVars, counters, nAsst, log>>

\* executeTools returns and the results are added to the history.  The batch
\* keeps one bundle of steering messages; none when an error or the end of the
\* context made the collector stop looking.  On cancellation it leaves workers
\* behind.
ExecuteTools ==
    /\ pc = "tools"
    /\ \E kept \in Elements(grabs) \union {<<>>} :
          /\ kept = <<>> => grabs = <<>> \/ ctxDone \/ Len(grabs) < hadCalls
          /\ fromTools' = kept
    /\ grabs' = <<>>
    /\ \E left \in 0..(IF ctxDone THEN hadCalls - Len(grabs) ELSE 0) : late' = late + left
    /\ Extend([i \in 1..hadCalls |-> Msg("tool", nAsst, i)])
    /\ Goto("cap")
    /\ UNCHANGED <<steerQ, followQ, turnContext, ctxDone, turnCount, attempt, pending,
                   hadCalls, compactVars, counters, nAsst>>

\* A worker the batch left behind ends: with an error, or with whatever is
\* queued by then.
LateWorker ==
    /\ late > 0
    /\ late' = late - 1
    /\ steerQ' \in {steerQ, <<>>}
    /\ UNCHANGED <<messages, followQ, turnContext, pc, ctxDone, runVars, grabs,
                   compactVars, counters, nAsst, log>>

\* Mutation: the first message is dropped with the oldest.
CappedDropsFirst(s) ==
    LET cap == Larger(MaxMessages, CapFloor)
    IN  IF Len(s) <= cap THEN s ELSE Suffix(s, Len(s) - cap)

\* The hard cap keeps the first message and the most recent ones.
Capped(s) ==
    LET cap == Larger(MaxMessages, CapFloor)
    IN  IF Len(s) <= cap THEN s ELSE <<Head(s)>> \o Suffix(s, Len(s) - cap + 1)

EnforceMessageCap ==
    /\ pc = "cap"
    /\ messages' = IF MaxMessages > 0 THEN Capped(messages) ELSE messages
    /\ Goto(IF CompactOn THEN "snapshot" ELSE "next")
    /\ UNCHANGED <<steerQ, followQ, turnContext, ctxDone, runVars, grabs, late,
                   compactVars, counters, nAsst, log>>

\* maybeCompact, under Agent.mu: copy the history if it is long and the latest
\* answer reported enough tokens.
MaybeCompact ==
    /\ pc = "snapshot"
    /\ \/ Goto("next") /\ UNCHANGED snapshot
       \/ /\ Len(messages) >= CompactMin
          /\ snapshot' = messages
          /\ Goto("launch")
    /\ UNCHANGED <<messages, steerQ, followQ, turnContext, ctxDone, runVars, grabs, late,
                   compactor, job, nSum, gist, stale, counters, nAsst, log>>

\* maybeCompact, under compactMu: at most one compaction at a time.
LaunchCompaction ==
    /\ pc = "launch"
    /\ IF compactor = "off"
       THEN compactor' = "working" /\ job' = snapshot /\ stale' = (stale \/ snapshot # messages)
       ELSE UNCHANGED <<compactor, job, stale>>
    /\ snapshot' = <<>>
    /\ Goto("next")
    /\ UNCHANGED <<messages, steerQ, followQ, turnContext, ctxDone, runVars, grabs, late,
                   nSum, gist, counters, nAsst, log>>

\* Mutation: the queue goes before the messages the workers took earlier.
NextTurnNewestFirst ==
    /\ pc = "next"
    /\ turnCount' = turnCount + 1
    /\ fromTools' = <<>>
    /\ IF MaxTurns > 0 /\ turnCount + 1 >= MaxTurns
       THEN Goto("end") /\ UNCHANGED <<pending, steerQ>>
       ELSE /\ IF fromTools # <<>>
               THEN pending' = steerQ \o fromTools /\ steerQ' = <<>>
               ELSE pending' = steerQ /\ steerQ' = <<>>
            /\ Goto(IF hadCalls = 0 /\ pending' = <<>> THEN "follow" ELSE "turn")
    /\ UNCHANGED <<messages, followQ, turnContext, ctxDone, attempt, hadCalls, grabs,
                   late, compactVars, counters, nAsst, log>>

\* The end of a turn: the turn limit, then what the next turn begins with.
NextTurn ==
    /\ pc = "next"
    /\ turnCount' = turnCount + 1
    /\ fromTools' = <<>>
    /\ IF MaxTurns > 0 /\ turnCount + 1 >= MaxTurns
       THEN Goto("end") /\ UNCHANGED <<pending, steerQ>>
       ELSE /\ IF fromTools # <<>>
               THEN pending' = fromTools /\ UNCHANGED steerQ
               ELSE pending' = steerQ /\ steerQ' = <<>>
            /\ Goto(IF hadCalls = 0 /\ pending' = <<>> THEN "follow" ELSE "turn")
    /\ UNCHANGED <<messages, followQ, turnContext, ctxDone, attempt, hadCalls, grabs,
                   late, compactVars, counters, nAsst, log>>

\* run: the follow-ups start another round of turns, or the run ends.
DequeueFollow ==
    /\ pc = "follow"
    /\ Extend(followQ)
    /\ followQ' = <<>>
    /\ Goto(IF followQ = <<>> THEN "end" ELSE "begin")
    /\ UNCHANGED <<steerQ, turnContext, ctxDone, runVars, grabs, late, compactVars,
                   counters, nAsst>>

EmitAgentEnd ==
    /\ pc = "end"
    /\ Goto("wait")
    /\ UNCHANGED <<messages, steerQ, followQ, turnContext, ctxDone, runVars, grabs, late,
                   compactVars, counters, nAsst, log>>

\* Mutation: the run does not wait for the compaction.
FinishAtOnce ==
    /\ pc = "wait"
    /\ Goto("idle")
    /\ UNCHANGED <<messages, steerQ, followQ, turnContext, ctxDone, runVars, grabs, late,
                   compactVars, counters, nAsst, log>>

\* The deferred function: compactWg.Wait(), then running = false.
Finish ==
    /\ pc = "wait"
    /\ compactor = "off"
    /\ Goto("idle")
    /\ UNCHANGED <<messages, steerQ, followQ, turnContext, ctxDone, runVars, grabs, late,
                   compactVars, counters, nAsst, log>>

Run ==
    \/ AppendPrompt \/ BeginTurns \/ TurnStart \/ TurnCancelled \/ StreamOnce
    \/ StreamDone \/ StreamError \/ RetryWait \/ ExecuteTools \/ EnforceMessageCap
    \/ MaybeCompact \/ LaunchCompaction \/ NextTurn \/ DequeueFollow \/ EmitAgentEnd
    \/ Finish

-----------------------------------------------------------------------------
(***************************************************************************)
(* The compaction goroutine.                                               *)
(***************************************************************************)

\* Mutation: the tail begins one message early.
MergedOverlaps(summary) == <<summary>> \o Suffix(messages, Len(job) - 1)

\* Mutation: the tail is forgotten.
MergedDropsTail(summary) == <<summary>>

\* The messages beyond the length of the snapshot are kept.
Merged(summary) == <<summary>> \o Suffix(messages, Len(job))

\* OnCompact answered with a summary: the history becomes the summary and the
\* messages beyond the length of the snapshot.  A history that is shorter by
\* now is left alone, without an event.
CompactDone ==
    /\ compactor = "working"
    /\ IF Len(job) > Len(messages)
       THEN compactor' = "off" /\ UNCHANGED <<messages, log, nSum, gist>>
       ELSE /\ nSum' = nSum + 1
            /\ gist' = Append(gist, Elements(job) \union
                     UNION {gist[m.n] : m \in {x \in Elements(job) : x.kind = "summary"}})
            /\ LET summary == Msg("summary", nSum + 1, 0)
               IN  /\ messages' = Merged(summary)
                   /\ log' = log \union {summary}
            /\ compactor' = "exiting"
    /\ job' = <<>>
    /\ UNCHANGED <<steerQ, followQ, turnContext, pc, ctxDone, runVars, grabs, late,
                   snapshot, stale, counters, nAsst>>

\* OnCompact failed, timed out or returned nothing.
CompactFailed ==
    /\ compactor = "working"
    /\ compactor' = "off"
    /\ job' = <<>>
    /\ UNCHANGED <<messages, steerQ, followQ, turnContext, pc, ctxDone, runVars, grabs,
                   late, snapshot, nSum, gist, stale, counters, nAsst, log>>

\* Mutation: compactWg.Done is never called.
EmitCompactStuck ==
    /\ compactor = "exiting"
    /\ FALSE
    /\ compactor' = "off"
    /\ UNCHANGED <<messages, steerQ, followQ, turnContext, pc, ctxDone, runVars, grabs,
                   late, snapshot, job, nSum, gist, stale, counters, nAsst,
                   log>>

\* EventCompact is emitted and the deferred functions run.
EmitCompact ==
    /\ compactor = "exiting"
    /\ compactor' = "off"
    /\ UNCHANGED <<messages, steerQ, followQ, turnContext, pc, ctxDone, runVars, grabs,
                   late, snapshot, job, nSum, gist, stale, counters, nAsst,
                   log>>

Compaction == CompactDone \/ CompactFailed \/ EmitCompact

-----------------------------------------------------------------------------
Next == Start \/ SetTurnContext \/ Steer \/ FollowUp \/ Cancel \/ Run \/ WorkerDequeues \/ LateWorker \/ Compaction

\* Goroutines are scheduled, streams and tools end, and OnCompact has 30 s.
Fairness == WF_vars(Run) /\ WF_vars(Compaction)

Spec == Init /\ [][Next]_vars /\ Fairness

-----------------------------------------------------------------------------
(***************************************************************************)
(* Properties.                                                             *)
(***************************************************************************)

Queued == steerQ \o pending \o fromTools
InGrabs(m) == {i \in DOMAIN grabs : m \in Elements(grabs[i])}
Times(s, m) == Cardinality({i \in DOMAIN s : s[i] = m})

\* No message is in the history twice, and a steering message is in the history,
\* in the queue, with a worker or with the run goroutine, never in two of them:
\* compaction, retries, late workers and follow-up rounds duplicate nothing.
NoMessageTwice ==
    /\ \A i, j \in DOMAIN messages : i # j => messages[i] # messages[j]
    /\ \A n \in 1..sentS :
          LET m == Msg("steer", n, 0)
          IN  Times(messages, m) + Times(Queued, m) + Cardinality(InGrabs(m)) <= 1

\* Steering messages are in the history in the order they were sent, and so are
\* follow-ups and prompts, however the turns consumed them.
SentInOrder ==
    \A i, j \in DOMAIN messages :
        i < j /\ messages[i].kind = messages[j].kind
              /\ messages[i].kind \in {"steer", "follow", "prompt"}
        => messages[i].n < messages[j].n

\* Without a message cap, and while every compaction began from a current
\* snapshot: each tool result sits right behind its assistant message and every
\* executed call has its result, with a compaction running at any moment.
Paired ==
    MaxMessages = 0 /\ ~stale =>
        \A i \in DOMAIN messages :
            LET m == messages[i]
            IN  /\ m.kind = "tool" =>
                      /\ m.call < i
                      /\ messages[i - m.call].kind = "asst"
                      /\ messages[i - m.call].n = m.n
                /\ m.kind = "asst" /\ ~(pc = "tools" /\ m.n = nAsst) =>
                      \A k \in 1..m.call :
                          /\ i + k \in DOMAIN messages
                          /\ messages[i + k] = Msg("tool", m.n, k)

Remembered(m) ==
    \/ m \in Elements(messages)
    \/ \E s \in Elements(messages) : s.kind = "summary" /\ m \in gist[s.n]

\* Under the same two conditions the conversation forgets nothing: every message
\* that was ever in the history still is, or a summary in it stands for it.
HistoryPreserved ==
    MaxMessages = 0 /\ ~stale => \A m \in log : Remembered(m)

\* An agent that is not running has no compaction at work on its history.
CompactionWithinRun == pc = "idle" => compactor = "off" /\ job = <<>>

\* A message cap never costs the agent its first message, nor the message the
\* turn ended with.
CapKeepsEnds ==
    [][pc = "cap" /\ pc' # "cap" =>
          /\ Head(messages') = Head(messages)
          /\ messages'[Len(messages')] = messages[Len(messages)]]_vars

\* With a turn limit every run ends.
RunEnds == pc # "idle" ~> pc = "idle"

=============================================================================
