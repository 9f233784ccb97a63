# A verification project for piglet

Piglet is a coding assistant for the terminal: a Go core that streams answers
from a model, runs the tools the model asks for, and is driven by a shell, by
extensions in child processes and by a terminal interface.  This directory
holds TLA+ models of its concurrent parts, the TLC configurations that check
them on small instances, and TLAPS proofs of most of their safety properties
for every instance.

Run everything from this directory:

    tlc -config MCToolExec.cfg MCToolExec
    tlapm ToolExec_proofs.tla

## Inventory

| Part | State it keeps | Operations | Interacts with | What makes it correct | Module |
|---|---|---|---|---|---|
| tool executor, `core/tool_executor.go` | per batch: semaphore, results channel, results, steering | `executeTools`, one worker per call, the step gate | run loop calls it; workers take from `Agent.steerQ` and emit events | each call gets its own result, once; bounded concurrency; cancellation always ends the batch | ToolExec, ToolBatch |
| run loop, `core/agent.go`, `stream.go`, `compact.go` | history, steering and follow-up queues, injected context, the compaction in flight | `run`, `runTurns`, `streamWithRetry`, `maybeCompact`, `runCompaction`, `enforceMessageCap`, `Steer`, `FollowUp` | provider (stream), tool executor, `OnCompact` | nothing duplicated, reordered or forgotten; results stay behind their calls; runs end | AgentRun |
| lifecycle, `core/agent.go` | `running`, `done`, `events`, `cancel` | `Start`, `Cancel`, `Stop`, the deferred function of `run`, `emit` | every caller of the agent, every goroutine of a run | one run at a time; each run closes its own channels; `Stop` returns | AgentLifecycle |
| shell, `shell/`, with the terminal front end that drives it, `tui/` | `running`, input queue, background agents, `heldBackEnd`, actions, notifications | `Submit`, `ProcessEvent`, `ProcessBgEvent`, `Steer`, `Abort`, `StopBackground`, draining of the queue | agent, extension app, session store | no input lost or submitted twice; running is true exactly while there is a run; held-back ends and queues are served | Shell |
| idle signal, `ext/idle.go` | `idle`, waiters | `WaitForIdle`, `SignalIdle`, `ClearIdle` | shell, extensions | no waiter sleeps through a signal | Shell |
| session store, `session/`, and the repair of histories, `shell/repair.go` | tree of entries, leaf, labels, title; the JSONL file and its lock | `Append`, `AppendCompact`, `AppendLabel`, `Branch`, `ResetLeaf`, `SetTitle`, `Open`; `repairMessageSequence` | shell, file system, other processes | the file replays to the state in memory, a crash loses little, every call has its result | Session |
| external host, `ext/external/host_rpc.go`, `lifecycle.go`, `stream.go`, with `sdk/` at the other end | pending requests, delta channels, two pipes, the process | `request`, `readLoop`, `Stop`, provider streams; the extension's reader, handlers and requests back | extension process | each request returns and leaves no entry behind; streams lose nothing; `Stop` ends | HostRpc |
| supervisor and watcher, `ext/external/supervisor.go`, `watcher.go` | current host, restart budget, pending reload, `stopped` | `Start`, `Stop`, `Reload`, `watch`, `restart` | external host, extension app | one process at a time; the newest version runs; watch ends after `Stop` | Supervisor |
| extension app, `ext/` | tables of tools, hooks and so on; `extInfos` | `RegisterTool`, `RegisterMessageHook`, `RegisterExtInfo`, `UnregisterExtension` | supervisor, shell | registrations belong to the newest process and to no other | Supervisor |
| piglet-cron, `extensions/cron/`, `cmd/piglet-cron/` | lock file, history of runs | `Acquire`, `Release`, `selectDueTasks`, `executeTasks`, `recordResults`, `RotateHistory` | other processes of its kind, the clock | one process at a time; a task runs once per period; the history keeps what decides it | Cron |
| command line, providers, built-in tools, configuration, bundled extensions | their own | input and output, text | through the parts above | not protocol state | none |

What is hard here: goroutines that outlive the run that started them, history
edited by two goroutines under a lock that is released between reading and
writing, queues drained by several consumers, fields of `Agent` that are
replaced by the next run, an end of a run that is completed by the event of
another agent, two programs that write into each other's pipes, a restart that
`Stop` and a reload run into, files that several processes append to, and a lock
that is a file with a name somebody may take away.  The
list with the exact lines is in `PROJECT.json` under `hazards`.

## Modules

How they fit together: ToolExec implements ToolBatch, whose promises AgentRun
builds in.  What AgentRun and AgentLifecycle show of a run (it ends, it closes
its channel, it emits one end) is the agent of Shell.  HostRpc is the inside of
one host, Supervisor the sequence of hosts of each extension.  Session is the
file behind what Shell calls `saved`.  Cron is a program of its own.

### ToolExec: one batch of tool calls

One action per step of a goroutine.  `pc[c]` is the place of the worker of call
`c` in `executeOneToolWorker`/`executeOneTool`; `cpc` the place of the goroutine
that called `executeTools`.  `sem` and `resultCh` are the two channels,
`results`, `received` and `steering` the local variables, `steerQ`, `stepGate`
the fields of the agent.  A Go `select` with several ready cases takes any of
them, so `Acquire` and `GiveUp` are both enabled for a cancelled worker: as in
the code, a tool may still start after the batch was cancelled.  The context of
the batch is a child of the run's (`ToolCtxDone`).  The environment steers,
cancels, switches step mode and answers the gate at any moment; each
`SetStepMode(true)` makes a new gate, so a batch may hold an old one.

Results are seen as what they are to the collector: nil, a success or an error.
The filler of missing results is told apart ("cancelled") although in the code
it is an ordinary error result, because the properties need to know who wrote
it.  The text of results and all events are left out.

### ToolBatch: what a batch promises

The contract of `executeTools` without goroutines, semaphore, gate or channels.
Calls end, once each; an open batch turns ends into answers, for good; it
returns when every call that ended has its answer, or when the run was
cancelled; it hands over at most one of the bundles of steering messages that
tools picked up.  The refinement mapping of ToolExec (`Batch`) reads the outcome
of a call off a worker that has sent its result, the bundles off what the
workers took, the answers off `results`, and closed off the collector's place.

### AgentRun: the history over several runs

The run goroutine moves through `pc`; one step is one critical section of
`Agent.mu` or of the queues' mutex (or what lies between two).  `messages` is the
history as a sequence of messages that are told apart by kind and number; a tool
result knows its call.  The compaction goroutine (`compactor`, `job`) and the
workers of a batch are separate processes.  `executeTools` appears as what
ToolBatch says of it: one result per call and at most one of the bundles of
steering messages its workers took (`WorkerDequeues`, `ExecuteTools`), and on
cancellation workers are left behind that may still empty the steering queue
during a later turn or run (`LateWorker`).  `OnCompact` is external: it returns
a summary, or fails; the variable `gist` remembers what a summary stands for.
The provider is external: an answer with any number of calls, an answer that
stopped on an error, or a failure.  `StreamDone` includes the append of the
answer, because between the end of the stream and the append the run
goroutine reads nothing shared.

### AgentLifecycle: starting, stopping, ending

`Agent.done`, `Agent.events` and `Agent.cancel` are replaced together by every
`Start`; they are named by the number of the run that made them (`current`).  The
deferred function of `run` takes one step per critical section: it clears
`running`, then closes whatever channel `done` is by then, then whatever
`events` is.  Sending on or closing a closed channel sets `panicked`, after which
no step is taken.  A run that was cancelled may leave workers behind, which
emit one event each.  `overtaken` remembers whether a run was ever started while
an earlier one still had channels to close.

### Shell: from input to run

Inputs are numbers in the order of acceptance, with a kind: a typed prompt or
command, a message that is steered, one that an extension sends.  The front end
is one goroutine (bubbletea's `Update`), which takes one message at a time: an
input (`SubmitPrompt`, `SubmitQueued`, `SubmitCommand`), an event of the run
(`ToolEnd`, `TurnEnd`, `AgentEnd`), the end of its channel (`ChannelClosed`), the
end of a background task (`BgEnd`).  What the shell does with it is cut
wherever another goroutine can act in between (`front.at`): the agent is
started, then idle is cleared, then running is set; the queue is drained, then
actions, then notifications are applied.  Extensions steer, send messages,
start and stop background tasks, abort and wait for idle concurrently; the two
critical sections of `Steer` and of `StartBackgroundNamed` are two steps.
`Shell.queue` is kept by priority, as `queue` (prompts) and `later` (commands):
nothing depends on the order between the two but the sort of `drainQueue`, which
keeps the order of prompts unless there are more than `SortKeeps` items and one
of them waits behind a command (`MayMix`; for a message that an extension sent
the model does not know what it was queued behind, and lets it count).  `saved` is
what is in the session, in order.  `persistMessage` only logs a write that fails,
and does nothing without a session, and the agent is started all the same: such
inputs are `unsaved`; which may become so is the bound `Unsafe` (`Save`).  There
is one session throughout; what is in it of calls, results and compactions is the
matter of Session.  A command drains the actions, unless it is unknown or fails
(`SubmitCommand`, `DrainQueue`).  `agent.Start` waits for the run before; when the
program is told to stop meanwhile it returns a channel that is closed and starts
no run (`StartGivesUp`).  That it may find `running` reset while that run still has
its channels to close is in AgentLifecycle and left out here.  Of the
agent there is its phase, its events channel (an `emit` on a full channel drops
the event, as it does after 250 ms), its steering queue and what it has seen.
Steering messages go into the history, or are lost: with the second bundle of a
batch or at the turn limit (`RunTakesSteering`), with a cancelled run, or with a
worker such a run left behind (`CancelledTakesSteering`), at any time from then on.
That AgentRun treats them so, and in no other way, is proved (`SteeringAsInShell`).
`odd` names what has happened that the liveness properties have to except: an
end event that never comes, dropped or of a run that was given up before it began
("missed"), an end that was held back ("held"), two
background tasks at once ("crowded"), a task stopped before the front end
followed it ("unfollowed").  `QueueServed` and `WaiterWoken` promise nothing after
any of them, `HeldBackCompletes` nothing after the last two.

### Session: the tree in a file

The file is a sequence of pieces of lines: an append writes the head of its
line and then the rest.  A crash or an error in between leaves nothing, a part,
or all but the newline, and whatever is appended next continues that line.
`Starts` are the lines that the scanner of `Open` reads and `Readable` their
entries; `Replay` is the tree that `replayEntry` builds, where the last line of
a kind wins (`LastRead`).  `Path` is the walk of `buildBranch` from the leaf to the
root, as the least set closed under parents, and `Branch` the entries it shows:
the last checkpoint on the way, first, and the messages behind it.  `History` is
the list of messages `buildBranch` makes of them: those the checkpoint holds, then
one of each entry.  `Repaired`, a fold over the history, is `repairMessageSequence`:
`Unanswered` is its first pass, `Mended` what it writes for one message.  Each
process has its own tree, leaf, labels and title (`mem`); the lock of the file is
held during a write only.  `alone` remembers that nobody else wrote since the
process opened the file.

What a checkpoint holds, and which calls and results are appended when, is decided
by the agent of the process and by the events the shell has still to process
(`agent[p]`).  `told` are its messages, `running` the call of its current turn, `due`
what the ends of turns have to store.  `BeginTurn` makes a call, `EndTurn` ends the
turn with its result or, broken off, without; `AppendTurn` processes the event.
`AppendCompact` stores what the agent has when `EventCompact` is processed, which
may hold the call and the result of a turn whose end is processed later and
appends them once more.  `EndRun` repairs the agent's messages and tells the
session nothing.  A history is adopted, repaired, when the file is opened and when
the leaf was moved (`Open`, `Adopt`).  Abstracted: an assistant message has one
call at most; the messages without call or result that the agent got since it
adopted a history or compacted are left out of `told`; a compaction, or the
message cap, leaves some text and any suffix of what was there.

### HostRpc: a host and its process

Each request is a goroutine of the host (`cpc`): it registers, writes, and waits
for its response, the end of its context or of the host.  A stream has a second
goroutine (`spc`) that forwards deltas.  `ReadLoop` and `Stop` go step by step
through `readLoop` and the shutdown of `lifecycle.go`.  In the extension one
reader starts one handler goroutine per request, handlers may call the host
back and send deltas.  A handler gets its context, writes its request, waits, and
takes the answer, in a step each (`Handle`, `Ask`, `TakeAnswer`).  The reader
answers such a request itself, or a goroutine (a tool, a model, an agent, the wait
for idle) or the callback of a dialog does so `later`, at any time or never
(`ReadAsk`, `AnswerLater`).  A cancellation aborts what a handler waits for, also
when the answer is there already, and the handler then sends a cancellation of its
own, which the host reads and does not know (`AskAborts`, `AskCancels`,
`ReadCancel`); the 50 ms it then still waits only decide whether it takes an answer
it has been sent, and it ends either way.  Pipes hold `PipeCap`
messages; a writer waits while they are full.  The process may die, its
connection may break and it may hang at any step.

### Supervisor: a sequence of hosts

`pc[e]` is the place of `watch`, or of the loader before it.  `hosts[e]` are the
hosts made so far with their process and the version of the files it was
started from, or was to be: a start that failed is among them, without a process
(`SpawnFails`).  What a version declares may differ from what the one before did
(`Declares[e][v]`).  `cur` is `Supervisor.host` and `seen` what `watch` read of it.
Spawning, the handshake, the bridge that registers tools one by one, the
back-off, the stop of the old host and `UnregisterExtension` are steps of their
own; `Stop` closes, takes the host and kills it in three.  Tools stand for the
tables with one owner per name, hooks for the lists.  The watcher debounces
changes of files into one signal.

### Cron: a program started every minute

`pc[p]` is the place of a process between `Acquire` and `Release`; `only[p]` the
task it was given with `--task`, which runs whatever its schedule says.  A lock
made by `flock` belongs to the open file, so files are numbered: `path` is the
one with the name of the lock file, `fd[p]` the one a process has open, `owner`
who has locked each.  `Release` unlocks and then removes the name, in two steps;
an error of `Run` ends the process without it, as `os.Exit` does.  The history is a
sequence of lines, each a success and its time (failures are lines of no task:
nothing reads them); appending, the copy that `RotateHistory` makes and the
rename are steps, and each may fail or be the last of its process.  A write that
is cut short, by an error or a death, leaves nothing of its line, a piece (`torn`),
or all but the newline (`rest`), which can be read until something is appended.
The next line is glued to a piece, without an error, and `ReadHistory` skips both
(`CutShort`, `Record`, `Lines`); a trimmed copy has its newlines again.  Time passes
at any moment, in units of which a day has `DayLen`.  `written`, `acked`, `cuts`,
`good`, `ran` and `lost` remember what was written, with or without an error, and
what succeeded, and `stolen` that a lock file
was removed while another process had it open.

### Proof modules

Eight modules hold the theorems, each about the module it extends:
`ToolExec_proofs` (with the refinement to ToolBatch), `AgentRun_proofs`,
`AgentLifecycle_proofs`, `Shell_proofs`, `Session_proofs`, `HostRpc_proofs`,
`Supervisor_proofs` and `Cron_proofs`; see below.

The operators whose comment begins with "Mutation" are wrong versions of the
definition that follows them, each the plausible bug that the property named in
`PROJECT.json` under `mutants` finds.  No specification uses them.

## Runs

| Run | What it asks | Bounds |
|---|---|---|
| toolexec | Does each call of a batch get its own answer, once and for good? Is the concurrency bounded, with one tool at a time in step mode? Does the batch keep the contract of ToolBatch, end, and leave nobody behind? | 2 calls (one of an unregistered tool), 2 at a time, 2 gates, 1 steering message |
| agent_history | Is the history complete, ordered and well formed with a compaction at any moment? | 1 run, answers with 0 to 2 calls, 2 answers with calls, 2 steering messages, 1 follow-up, compaction from 3 messages on, 1 attempt, no cap |
| agent_runs | Do runs end, with nothing at work behind them? Does the cap keep the first and the last message? | 2 runs, 2 turns each, cap 4, 2 attempts |
| lifecycle | One run at a time, own channels, `Stop` returns | 2 callers, 3 runs, 1 late worker per run |
| shell | Is every input in one place, are prompts in order, does the session tell what the agent saw, once and in its order? | 4 inputs, a write of one of which may fail, queue of 3, of which a sort keeps 2 in order, channel of 2, 1 end of a tool or turn per run, both queue modes |
| shell_bg | Is running the truth? Are the queue, a held-back end and a waiter for idle served? | 2 inputs, 1 background task, channel of 1 |
| session | Is memory what the file says? Can each process read its branch? How much is lost? Has every call of a history its answer after repair, and which may be there twice? | 2 symmetric processes, 3 entries, 1 tool call, 2 writes cut short, opened once more |
| hostrpc | Are the tables clean, and do streams keep their deltas? | 1 request whose handler calls back, 1 stream of 2 deltas, pipes and buffers of 1 |
| hostrpc_ends | Do requests and `Stop` return? | 2 requests whose handlers call back, each answered at once, later or never, pipes of 1 |
| supervisor | Do registrations follow the process, is there one process, is a start of the newest version attempted, does `watch` end? | 1 extension, whose tool has one of two names by version, 1 restart, 2 failures, 2 changes of files |
| cron | Does one process run tasks at a time? Does the history keep its newest lines, but for one behind each cut write? Does a task run once per period? | 2 symmetric processes started 3 times, a task that is daily or weekly and may be run by hand, one at every tick, days of 2 ticks, weeks of 2 days, 4 ticks, a history of 2 lines, 1 fault |
| tools_do_not_crash | refutes a sentence of a comment, see below | as lifecycle |

Why the bounds are enough.  Two calls with the limit of one in step mode is the
least in which a worker waits while another works, and two gates let a batch
wait at one that was replaced; the safety properties of this run are proved for
every number of calls, steering messages and gates, and were checked with three
calls and two messages too.  In the history run every compaction may overlap the
rest of its run, two summaries may follow each other, and the second may
swallow the first.  Three runs let a third start while the second closes the
wrong channel.  `CompactMin` is 8 in the code; the tests of the length are the
same with 3 or 4.  `MaxRetries` of 1 in agent_history keeps retries out of a run
that is not about them; agent_runs has them.  One input runs while three fill the
queue: two prompts, and a command between them, are the least that a sort puts
out of order, and it keeps two items here and twelve in the code.  The input
whose write may fail has others before and behind it.  Three entries are a torn
line, the entry that is lost with it and one after; or a checkpoint that holds a
call, the call and its result once more behind it.  A pipe of one message makes every writer wait as
soon as the other side does not read.  One restart and two failures reach the
limit; two changes let one come during the reload of the other.  A history of two lines is full after two ticks, and four ticks
are two days, or a week and a day; three starts are a process at work, one that
is refused or takes over, and one more.  The run stops where a lock file has been
removed under another process (`CONSTRAINT NotStolen`), because no property says
anything of what follows.  Three inputs with two ends of tools and a queue of two (989 thousand
states), one process with four entries and one fault (6.6 million), and two
extensions that share the name of a tool until one of them changes its own (one
failure, one change of files, 5.0 million, safety only) were checked
as well, with the same results.

`CHECK_DEADLOCK FALSE`: every instance stops when its bounded work is done, and
an agent, a shell or a host really is at rest when nobody calls it.  What must
not stop is stated as liveness.

### Fairness

Weak fairness of every goroutine's steps: Go runs what can run.  Nothing is
assumed of users, extensions, the timing of steering or of the answer at the
gate, and no fault ever has to happen.

* A tool need not return: `CancelReturns` holds without it,
  `CancelLeavesNoWorker` and `BatchEnds` say so in front (`ToolsReturn`).
* In AgentRun a stream and a compaction end, because the first is bound to a
  context and the second has 30 seconds; `RunEnds` is checked with a turn limit
  only, since without one a model may call tools for ever.  In AgentLifecycle a
  run ends once it is cancelled, which is what ToolExec and AgentRun show.
* In Shell the messages that reach the front end are served with strong
  fairness: bubbletea delivers them through one channel, and the sender that
  waits longest is served, whatever the user types meanwhile.
* In HostRpc and Supervisor every behaviour is finite because what can be done
  is bounded, so weak fairness of all fair steps together is weak fairness of
  each.  A process that hangs takes no further step; the end of a process
  reaches the reader of its pipe.  What a goroutine or a dialog of the host owes
  the extension need not come.

### What the runs found

* A tool that ignores cancellation can bring the program down
  (tools_do_not_crash; `findings` quotes the comment it contradicts).

Some properties carry an exception, because without it the code violates them:

* `PromptsInOrder` excludes (`displaced`) the messages that a run left in the
  steering queue when it ended, because the next run carries them after its own
  prompt, and those that `drainQueue` put out of order.  It sorts by priority with
  `slices.SortFunc` (shell/queue.go:41), which is an insertion sort up to twelve
  items and not stable beyond.  With thirteen items, one command among the first
  twelve and prompts in the fourth, seventh and tenth place, the prompt in the
  seventh comes first and the one that was first takes its place, before all
  are merged to one message; docs/commands.md:224 says of queued messages
  "they're processed in order".
* `Paired` and `HistoryPreserved` exclude the message cap and compactions that
  started from an outdated snapshot.  With a cap the history may shrink under a
  compaction and grow back; the merge compares lengths only and drops messages,
  although core/compact.go:62 says "Preserve any messages appended while
  compaction was running."  `maybeCompact` copies under one lock and tests
  `compacting` under another, with the same effect.
* `CleanEnd` excludes a run that was started after an earlier one cleared
  `running` and before it closed its channels: the earlier one then closes the
  channels of the later (core/agent.go:322-323), while core/agent.go:128 says "The
  channel is closed when the agent finishes."
* `RequestsReturn` and `HostStopEnds` exclude a hung extension with a
  full pipe: `request`, `sendCancel` and the first write of `Stop` then wait
  without a time limit, so the "best-effort" notification keeps `Stop` from
  "Force-kill if it doesn't exit" (ext/external/lifecycle.go:109-112).
  `RequestsReturn` also excepts a caller nobody cancels whose handler waits for
  what the host does not answer: the agent never becomes idle, or a dialog is left
  open.  ext/external/dialog_handlers.go:39 says that a "5-minute hostRequestTimeout
  on the extension side handles" the latter, and session_handlers.go:266-267 that
  "the extension's request will time out", but the SDK has no such timeout: its
  `request` waits for the answer or its own context.
* `SessionAgrees` excludes inputs whose own write failed, which the session lacks
  although the agent works on them (shell/shell.go:259-261 only logs the error),
  messages extensions steer, which are never stored, and the order of what a run
  left in the steering queue: it is in the session before the prompt of the next
  run and after it in the history.
* `RepairComplete` promises one call and one result only for calls of which the
  checkpoint shown holds nothing.  `EventCompact` stores what the agent has when the
  event is processed, and the end of a turn that is processed after it appends its
  call and result again (shell/process.go:28-34 and 45-46); the repair adds results
  and removes nothing, so an adopted history has both twice.  If the call came into
  the checkpoint without its result, the result behind it counts as its answer.
* `LossBounded` allows one acknowledged entry per write that was cut short: the
  next entry is appended to the incomplete line and both are skipped on
  reading (docs/sessions.md:31 has "messages are never deleted").  What hangs on
  the lost entry is then cut off from its history, because the path to the root
  ends at a missing entry.
* `HeldBackCompletes` and `QueueServed` exclude two background tasks at a time
  (the front end follows one and attributes events to it) and tasks stopped
  before the front end followed them: the end stays held back.
* `RunIsInHand` excepts runs after an end was held back.  The front end goes on reading
  the channel of such a run, which is closed then; when the close arrives after the
  next run was started, it stops the display of that next run (tui/handlers.go:25),
  and after its next event the run is not read any more.
* `OneAtATime` and the other properties of Cron except a lock file that was
  removed under another process: `Release` removes it after unlocking, so one
  process may have locked the file without a name and the next one the new file
  (extensions/cron/lock.go:21 says "Returns error if already locked").
* `HistoryKept` allows one line per write that was cut short: it leaves a piece
  without a newline (extensions/cron/history.go:62), the next result is appended to
  it, without an error, and lines 89-91 skip both.
* `OncePerPeriod` speaks of successes that are on record, in a line that can be
  read: one that was glued to a piece is not, and its task runs again.  The history keeps its
  last 1000 lines, whoever wrote them: a task that runs every minute displaces
  success of a daily task in less than 17 hours.  If that task has its time in
  the early morning, it then counts as never run and runs again before midnight
  (extensions/cron/schedules.go:39 says "runs once per day").
* `OneProcess` speaks of processes that serve the program.  When `Stop` comes
  during a restart, the new host is installed after `Stop` returned and its
  process goes on, while ext/external/supervisor.go:68 says that Stop
  "terminates the supervised extension"; when a connection breaks, the old
  process is neither killed nor reaped.

Observed while modelling, and not stated as properties:

* Agent.  A retry of a request goes out without the injected context, which
  `streamOnce` clears first (core/stream.go:54).  Of two bundles of steering
  messages of one batch the later is lost (core/tool_executor.go:56); a turn
  limit drops the messages the workers took, and a run cancelled before its
  first turn those it dequeued.  `EventAgentEnd` is emitted before the wait for
  the compaction, so an `EventCompact` may follow it.  `Stop` on an agent that
  was never started waits for ever (no caller does it).  The cap may separate a
  result from its call.  All emitters share one timer.
* Shell.  A full queue drops an input and still answers that it is queued.  A
  queued prompt that is steered into a run that ends is carried by the next
  run, or lost with a cancelled one, or, during a later run, with a worker that a
  cancelled one left behind.  A message an extension sends while a run
  is at its end is passed over by the front end, which is still streaming
  (tui/actions.go:224; docs/protocol.md:238 says it is queued).  Steered messages
  and what a compaction leaves are not stored as such.  A prompt whose write to the
  session failed is answered like any other.  When a run is given up before it
  began, because the program stops, its channel is closed without an end, and the
  shell says running from then on.
* Supervisor.  After a crash one failed restart ends the attempts; the next
  reload tries again.  `NewestRuns` therefore speaks of attempts: one that fails
  leaves no host until the next change.  Giving up leaves the registrations of the dead process.
  `UnregisterExtension` removes by name, whoever serves it by then.
* Host.  A cancellation may overtake the registration of the handler it is meant
  for.  Subscriptions made after the clean-up of `Stop`, or of a host that
  crashed, stay.  `handleHostRunBackground` and `handleHostAppendCustomMessage`
  always answer with an error, because they wrap a nil one
  (agent_handlers.go:139-143, session_handlers.go:121-122).

* Cron.  A history that cannot be read, or only in part, makes tasks look as if
  they had never run.  A task that missed its time by more than a day runs as soon as it can,
  before the time of that day, and then at its time once more; that is a period
  each for `OncePerPeriod`.  A task run by hand or catching up between the two
  counts like any other.

## Proofs

TLAPS checks the following for every value of the constants, under the one named
assumption of each module, which TLC evaluates in every run: sets of calls,
requests, tasks, extensions and tools are finite; capacities, limits of
concurrency, `MaxRetries` and `CompactMin` are positive; `CapFloor` is at least 2
(it is 4 in the code; with 1 the cap could not keep both ends); bounds are
naturals; the values that stand for nobody are nobody.  Callers of the agent,
processes and the number of anything are free.

Each module proves `TypeOK` and the properties named in parentheses from one
inductive invariant, `IInv`, whose parts are defined at its beginning.  TLC
checked every `IInv` on the instances of the runs before it was proved.

* `ToolExec_proofs`.  `Bounded` (ConcurrencyBounded) adds to the types that `sem`
  is the number of workers between `Acquire` and `Release`, and that no worker
  exists before `Begin`, which fixes the limit: with a worker alive it could be
  lowered below `sem`.  `OwnResults` (ResultsAreTheWorkers) and `FinalAnswers`
  (AnswersAreFinal): a returned batch is only as good as the count that lets it
  return, so the invariant accounts for every result.  It is with its worker, in
  the channel, or gathered, and `received + Len(resultCh)` is the number of
  workers that have sent.  When nothing is missing, every worker has therefore
  sent and the channel is empty; a call without a result is possible only after
  `Abandon`, which needs the run to be cancelled.  `Contract` (BatchContract), that
  ToolExec implements ToolBatch: every action is a step of the contract or a
  stutter under the mapping.  Sending a result is the end of a call, receiving
  it the answer, taking messages off the queue the pick-up of a bundle.
* `AgentRun_proofs`.  `NothingTwice` (NoMessageTwice), `InOrder` (SentInOrder),
  `ResultsFollow` (Paired), `NothingForgotten` (HistoryPreserved), `IdleIsIdle`
  (CompactionWithinRun) and the action property `EndsAreKept` (CapKeepsEnds).  That
  no message is there twice follows from its number: numbers are given out in
  order (`Numbers`), queues hold them in order, and whatever holds steering
  messages (history, `pending`, `fromTools`, the bundles of a batch, the queue) is
  older than what is drained after it (`Steers`).  That results stay behind their
  message needs the job of a compaction: while it works, the history begins with
  the job, and no message of the job has results beyond it (`JobInv`), so that a
  merge cuts between groups.  It fails, and the theorems have the same two
  exceptions as the properties, when the cap shortens the history under a
  compaction or a snapshot is stale.  The types contain the number of workers left
  behind, which is bounded by the batches there were (`LateInv`).
  `SteeringAsInShell` is what Shell takes for granted of this component.  What goes
  into the history as a steering message was in the queue or on the way from it,
  and a message leaves that way without getting there only where Shell allows it
  too: a tool worker took it, the run that took it was cancelled, or a worker
  left behind by a cancelled run found it in the queue (`SteeringFate`).  When the
  run has ended, no message is in hand (`NothingInHand`).  It rests on `Places`,
  which says in which steps of the run `pending`, `fromTools` and the bundles can
  hold anything.
* `AgentLifecycle_proofs`.  `Exclusive` (OneRunAtATime), `OwnChannels` (CleanEnd),
  `PanicCauses` (PanicNeedsRace).  The invariant adds that `current` is the number
  of runs started, that outside of the window all earlier runs have ended (so
  that a run that closes is the current one), and that only cancelled runs have
  workers left.
* `Shell_proofs`.  `InputsOnceHolds` (InputsOnce): the property compares the number
  of elements of nine sequences laid end to end with the length of the whole, which
  no step preserves by itself.  The invariant says instead that no sequence has an
  element twice (`NoneTwice`) and that no two places share one (`Placed`); each
  operation moves inputs from one place to the next, and there is a lemma for each.
  `PromptsInOrderHolds` (PromptsInOrder): the history, the steering queue, what the
  front end carries and the queue are in order one behind the other (`OrderInv`).
  A prompt that is submitted at once would overtake one in the queue, so the
  invariant also says that none waits there unless the shell is running, or about
  to drain the queue, or about to be running again.  `SessionAgreesHolds`
  (SessionAgrees): what is carried, steered or in the history was stored or its
  write failed, unless it is a message an extension steers, which is known by its
  place until it is queued (`KindsKnown`, `SavedInv`); what still waits to be
  submitted is not in the session; and the history, the steering queue and what the
  front end carries, each and one behind the other, agree with the order of the
  session (`StoryInv`), so that what is written next may stand last in both.
  `RunningIsTrueHolds` (RunningIsTrue): the end of a run is the last event of its
  channel, an end that is held back is no longer in it, and the shell is not
  running while it drains and starts (`RunningInv`).
  Three theorems say what safety is behind the liveness of Shell, for states in which
  the front end rests (`front = Ready`), so that only an event can make it go on:
  `NoWakeUpLost` that somebody who waits for the agent to be idle is behind a channel
  that is read, `HeldBackIsInHand` that an end held back is behind the one task that
  is read, `RunIsInHand` that a run is read and nothing else is.  Their invariant
  (`Followed`) follows the channels through the steps of an operation: which run
  and which task the front end displays and reads (`Alone`, `WakeInv`), what a
  held-back end waits for while an operation goes on (`HeldInv`), and how an
  operation that ends a run and starts the next passes from one to the other
  (`FollowInv`).  What is left for liveness to say is that polls, runs and tasks
  go on, which is the fairness; what the theorems except is narrower than what the
  liveness properties except (`WaiterWoken` is about `odd = {}`, `NoWakeUpLost`
  excepts two tasks at once only).
* `Session_proofs`.  `LossIsBounded` (LossBounded): a fault pays for one entry, or
  for the unfinished line at the end of the file that has not cost one yet
  (`LossInv`); the property alone is not inductive, because the entry is lost by
  the next append.  `ReplayIsTheMemory` (ReplayIsMemory): what a memory holds is
  what the file says before the line being written, and the effect of that line
  on `LastRead` and `Labelled` is the effect of the append.  `BranchIsReadable`
  (BranchReadable): memories are closed under parents and their entries can be
  read, so the least closed set is the same in both.  `RepairIsComplete`
  (RepairComplete) has three parts.  `RepairIs` is about the fold alone: by induction
  on the messages, the repair is laid out with each message at a rising position,
  its made-up result right behind it, and nothing else (`Layout`).  `HistoryIs` says
  which entry each message of a history comes from, so that behind the checkpoint
  the order of messages is that of entries.  That a call is there once, with one
  result behind it, is a matter of who appends (`CallsInv`): a call is made by one
  agent, and there is at most one entry of it and one of its result, the result
  younger, of one process, and none while they are still to be appended.  A call
  that is shown without its result, because the process of that result died, its
  write was lost or the other process shows another branch, gets one that is made
  up, and it stays the only one (`ShownOnce`, `RepairOf`).
* `HostRpc_proofs`.  `NothingIsLeft` (NothingLeft): an entry of a table belongs to a
  caller that is still there, and a request is in the pipe once, before its
  handler starts.  `StreamIsComplete` (StreamComplete): a delta is forwarded, in
  the channel, dropped or in the pipe, in the order sent (`DeltasInOrder`,
  `PipeInOrder`), nothing is missing while the stream is open, and once a response
  exists no delta is behind it.
* `Supervisor_proofs`.  `NeverTwo` (OneProcess): all hosts but the newest are gone,
  and all are gone at the places where `watch` has none; a host that `Stop` has
  taken counts as gone.  `TablesAreCurrent` (RegistrationsCurrent): entries belong
  to the newest host, what is recorded is what was declared, and at the places
  between the removal and the next installation nothing is left (`Vacant`).  What the
  App has recorded of an extension is what the version of its newest host declares,
  or nothing, and nothing from the start of a newer host until it is bridged
  (`Recorded`, `Unrecorded`), so that nothing of an older version stays behind.  Tools that several extensions declare, in some
  version, are `Contested`.
* `Cron_proofs`.  `LockExcludes` (OneAtATime): until a lock file was removed under
  another process, the file somebody has locked is the one with the name.
  `LinesAreKept` (HistoryKept): lines have rising numbers, those that are missing among
  the lines that end with a newline (`Gone`), and a piece that has not cost one yet,
  are no more than the writes cut short, and who trims has all lines, because it
  works alone (`LinesKept`).
  `OncePerTime` (OncePerPeriod, an action property): the line of the last success
  of a task is later than that success and no line of the task is later; with it
  the arithmetic of schedules for every length of the day and the week.

Induction over numbers and sequences is by the least counterexample: the library
states that `<` on the naturals is well founded, and that a set of such numbers
has a least one (`HasLeast`), without an operator parameter.  What a fold computes
is proved from its equation, which has a solution by the same induction
(`FoldingExists`, `RepairedSteps`).

Only model-checked: all liveness, which is out of this prover's reach like
ENABLED.

## Plan

The modules are complete as far as the plan goes, and every invariant and every
action property that a run checks is proved.  What could follow:

1. More of the contract between Shell and the agent as theorems of AgentRun and
   AgentLifecycle: steering is there (`SteeringAsInShell`), and that the latest run is
   the one at work and closes its channels (`OneRunAtATime`, `CleanEnd`); the events
   channel with one end as its last event is not.
2. The end of one run and the start of the next in Shell with an end held back: what
   is then read, beyond what `NoWakeUpLost` says (see the findings).

## Not modelled

Rendering and keys (`tui/`), wiring (`cmd/`), HTTP and the parsing of streams
(`provider/`), file and process tools (`tool/`), configuration, prompts and
error texts, the translation of protocol methods into calls of the app, and
the bundled extensions other than cron: input and output or text without shared protocol state.
Most of the repository's lines are of this kind.

Within the modelled parts: events are left out of the models of the core (the
buffer of 100, and the 250 ms after which `emit` drops one; Shell has their
effect on the end of a run).  The setters of the agent's configuration
(`SetTools`, `SetModel`, ...) replace one field under the lock.  What Session
has of the agent is what decides the calls and results that are stored; the merge of
a compaction and the histories of AgentRun are not composed with it.  Shell leaves out transformers and hooks of input, images, and the
second front end without a screen (`cmd/piglet/repl.go`), which does not poll
background tasks.  Session leaves out `Fork`, which writes a new file nobody else
has open, lines without an identifier of an older format, lines of more than 10
MB, a checkpoint of no messages, and the swap to another session, which is another
file.  HostRpc leaves out the handshake, the
subscriptions to the event bus and the meaning of methods.  Supervisor has
two of the ten kinds of registrations, one per way of keeping them.  The circuit
breaker of `ext/compact.go` is a counter around the compaction.  Cron leaves out what a task does, tasks that
are disabled or whose schedule is invalid, the tools that edit `schedules.yaml`,
and a clock that is set back or changes to
summer time.
