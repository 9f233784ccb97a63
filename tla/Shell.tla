-------------------------------- MODULE Shell --------------------------------
(***************************************************************************)
(* The shell between a front end and the agent (package shell), with the   *)
(* terminal front end that drives it (tui/events.go, tui/handlers.go,      *)
(* tui/actions.go) and the idle signal of the extension app (ext/idle.go). *)
(*                                                                         *)
(* The front end is one goroutine: it submits input and hands the shell    *)
(* one event after the other.  Its operations are cut into steps where     *)
(* another goroutine can come in between: extensions steer the agent, send *)
(* messages, start and stop background tasks and wait for the agent to be  *)
(* idle; the agent's run and the background tasks go on by themselves.     *)
(*                                                                         *)
(* An input is a number, in the order of acceptance; Len(kind) of them     *)
(* have been accepted.  The agent is abstracted to what the shell sees of  *)
(* it: AgentRun and AgentLifecycle model it in full.                       *)
(***************************************************************************)
EXTENDS Naturals, FiniteSets, SequencesExt

CONSTANTS
    Tasks,         \* names of background tasks
    NoTask,        \* the empty bgTaskName of the front end
    QueueCap,      \* maxQueueSize
    SortKeeps,     \* how many items slices.SortFunc sorts by insertion, 12
    ChanCap,       \* EventBufferSize
    MaxInputs,     \* bound: inputs accepted
    MaxTools,      \* bound: ends of tools and turns a run reports
    Unsafe,        \* bound: the inputs at which a write to the session may fail
    Waits          \* bound: whether callers wait for the agent to be idle

ASSUME ShellAssumption ==
    /\ NoTask \notin Tasks
    /\ QueueCap \in Nat \ {0} /\ ChanCap \in Nat \ {0} /\ SortKeeps \in Nat
    /\ MaxInputs \in Nat /\ MaxTools \in Nat /\ Waits \in BOOLEAN
    /\ Unsafe \subseteq 1..MaxInputs

Inputs == 1..MaxInputs

VARIABLES
    kind,          \* the inputs accepted: typed prompt or command, steered, sent
    mode,          \* Shell.queueMode
    running,       \* Shell.running
    queue,         \* the prompts in Shell.queue (priorityNext)
    later,         \* the commands in it (priorityLater)
    heldBack,      \* Shell.heldBackEnd
    bgTasks,       \* the names in Shell.bgTasks
    notes,         \* NotifySendMessage entries of Shell.notifications
    saved,         \* the session: inputs stored, in the order of its file
    unsaved,       \* inputs whose write to it failed, or that had no session
    ran,           \* commands executed
    actions,       \* ActionSendMessage entries of App.actions
    idle,          \* App.idle
    waiting,       \* whether a WaitForIdle caller waits
    ext,           \* what an extension's call has still to do
    front,         \* what the front end is doing
    streaming,     \* Model.streaming
    evCh,          \* Model.eventCh, by the number of its run
    polls,         \* runs whose channel a pollEvents command reads
    bgSel,         \* Model.bgTaskName (and bgEventCh)
    bgPolls,       \* tasks whose channel a pollBgEvents command reads
    runs,          \* runs started
    phase,         \* where the latest run is
    tools,         \* ends of tools and turns it reported
    cancelled,     \* whether a run was cancelled, which may leave workers behind
    chan,          \* its events channel; those of earlier runs are closed
    steerQ,        \* Agent.steerQ
    history,       \* inputs that went into Agent.messages
    bg,            \* the background agents
    dropped,       \* inputs given up by the queue, the front end or a run
    displaced,     \* what a run left to the next one, or a sort put elsewhere
    odd            \* unusual things that have happened

shell == <<mode, running, queue, later, heldBack, bgTasks, notes, saved, unsaved,
           ran>>
app == <<actions, idle, waiting, ext>>
tui == <<front, streaming, evCh, polls, bgSel, bgPolls>>
agent == <<runs, phase, tools, cancelled, chan, steerQ, history, bg>>
vars == <<kind, shell, app, tui, agent, dropped, displaced, odd>>

Kinds == {"prompt", "command", "steer", "send"}
Steps == {"ready", "start", "clear", "set", "steer", "signal", "drain", "actions",
          "apply", "finish"}
\* at: the next step; op: the operation; batch: the inputs it carries; via: what
\* started the agent; done: the shell said that the run is complete.
At(at, op, batch, via, done) ==
    [at |-> at, op |-> op, batch |-> batch, via |-> via, done |-> done]
Ready == At("ready", "none", <<>>, "none", FALSE)
\* An end of a run that never comes (it was not delivered, or the run not started);
\* an end held back; two background tasks at once; a task stopped that the front end
\* did not follow.
Oddities == {"missed", "held", "crowded", "unfollowed"}
NoCall == [at |-> "none", on |-> 0, task |-> NoTask]

TypeOK ==
    /\ kind \in BoundedSeq(Kinds, MaxInputs)
    /\ mode \in {"all", "one"}
    /\ {queue, later} \subseteq BoundedSeq(Inputs, QueueCap)
    /\ Len(queue) + Len(later) <= QueueCap
    /\ {running, heldBack, idle, waiting, streaming, cancelled} \subseteq BOOLEAN
    /\ bgTasks \subseteq Tasks /\ bgPolls \subseteq Tasks /\ bgSel \in Tasks \union {NoTask}
    /\ {unsaved, ran, dropped, displaced} \subseteq SUBSET Inputs
    /\ odd \subseteq Oddities
    /\ {saved, notes, actions, steerQ, history} \subseteq BoundedSeq(Inputs, MaxInputs)
    /\ ext \in [at : {"none", "deliver", "enqueue", "insert"}, on : 0..MaxInputs,
                task : Tasks \union {NoTask}]
    /\ front \in [at : Steps, op : {"none", "submit", "event", "bg"},
                  batch : BoundedSeq(Inputs, MaxInputs),
                  via : {"none", "submit", "drain"}, done : BOOLEAN]
    /\ runs \in Nat /\ evCh \in 0..runs /\ polls \subseteq 1..runs
    /\ phase \in {"none", "body", "ending", "over"}
    /\ tools \in 0..MaxTools
    /\ chan \in BoundedSeq({"toolEnd", "turnEnd", "agentEnd"}, ChanCap)
    /\ bg \in [Tasks -> {"none", "running", "ended"}]

Init ==
    /\ kind = <<>> /\ mode \in {"all", "one"}
    /\ running = FALSE /\ queue = <<>> /\ later = <<>> /\ heldBack = FALSE /\ bgTasks = {}
    /\ notes = <<>> /\ saved = <<>> /\ unsaved = {} /\ ran = {}
    /\ actions = <<>> /\ idle = TRUE /\ waiting = FALSE /\ ext = NoCall
    /\ front = Ready /\ streaming = FALSE /\ evCh = 0 /\ polls = {}
    /\ bgSel = NoTask /\ bgPolls = {}
    /\ runs = 0 /\ phase = "none" /\ tools = 0 /\ cancelled = FALSE /\ chan = <<>>
    /\ steerQ = <<>> /\ history = <<>> /\ bg = [t \in Tasks |-> "none"]
    /\ dropped = {} /\ displaced = {} /\ odd = {}

-----------------------------------------------------------------------------
(***************************************************************************)
(* Inputs and the queue.                                                   *)
(***************************************************************************)

\* The next input is of kind k and its number x.
Accept(k, x) ==
    /\ Len(kind) < MaxInputs
    /\ x = Len(kind) + 1
    /\ kind' = Append(kind, k)

Prefix(s, n) == SubSeq(s, 1, n)
Suffix(s, n) == SubSeq(s, n + 1, Len(s))

\* What is queued is kept by priority: the order between a prompt and a command
\* decides nothing.
Room == QueueCap - (Len(queue) + Len(later))

\* Mutation: a prompt that finds the queue full takes the place of the last one.
EnqueueReplaces(xs) ==
    /\ queue' = IF Len(xs) <= Room THEN queue \o xs
                ELSE Prefix(queue, Len(queue) - 1) \o <<Last(xs)>>
    /\ UNCHANGED <<later, dropped>>

\* Mutation: what comes last is queued first.
EnqueueFirst(xs) ==
    LET n == IF Len(xs) < Room THEN Len(xs) ELSE Room
    IN  /\ queue' = Prefix(xs, n) \o queue
        /\ dropped' = dropped \union ToSet(Suffix(xs, n))
        /\ UNCHANGED later

\* A full queue refuses what comes, without a word to who sent it.
Enqueue(xs) ==
    LET n == IF Len(xs) < Room THEN Len(xs) ELSE Room
    IN  /\ queue' = queue \o Prefix(xs, n)
        /\ dropped' = dropped \union ToSet(Suffix(xs, n))
        /\ UNCHANGED later

EnqueueCommand(x) ==
    /\ IF Room > 0 THEN later' = Append(later, x) /\ UNCHANGED dropped
                   ELSE dropped' = dropped \union {x} /\ UNCHANGED later
    /\ UNCHANGED queue

\* How many a drain at the end of a run takes, in the mode of the queue: all, or
\* (drainOne) the oldest prompt, or else the oldest command.
OneOf(s) == IF s = <<>> THEN 0 ELSE 1
PromptsDrained == IF mode = "all" THEN Len(queue) ELSE OneOf(queue)
CommandsDrained ==
    IF mode = "all" THEN Len(later) ELSE IF queue = <<>> THEN OneOf(later) ELSE 0

\* drainQueue sorts by priority, and may put prompts out of order when there are
\* more items than are sorted by insertion, and one waits behind a command.
MayMix ==
    /\ mode = "all" /\ Len(queue) + Len(later) > SortKeeps
    /\ \E x \in ToSet(queue), y \in ToSet(later) : y < x \/ kind[x] # "prompt"
Mixed(s) == {[i \in DOMAIN s |-> s[f[i]]] : f \in Bijection(DOMAIN s, DOMAIN s)}
Sorted == IF MayMix THEN Mixed(queue) ELSE {Prefix(queue, PromptsDrained)}

\* drainActions: a message is queued during a run; otherwise the front end is to
\* submit it.
DrainActions(isRunning) ==
    /\ actions' = <<>>
    /\ IF isRunning
         THEN Enqueue(actions) /\ UNCHANGED notes
         ELSE notes' = notes \o actions /\ UNCHANGED <<queue, later, dropped>>

-----------------------------------------------------------------------------
(***************************************************************************)
(* Submit and the start of a run, by the front end.                        *)
(***************************************************************************)

\* Mutation: what could not be written is written behind the next message.
SaveRetried(xs) ==
    \/ saved' = saved \o xs \o SetToSeq(unsaved) /\ unsaved' = {}
    \/ /\ ToSet(xs) \intersect Unsafe # {}
       /\ unsaved' = unsaved \union ToSet(xs) /\ UNCHANGED saved

\* persistMessage: inputs that make one message are written together, or not at all:
\* an error is logged and no more, and without a session nothing is stored.
Save(xs) ==
    \/ saved' = saved \o xs /\ UNCHANGED unsaved
    \/ /\ ToSet(xs) \intersect Unsafe # {}
       /\ unsaved' = unsaved \union ToSet(xs) /\ UNCHANGED saved

\* The user types x.  The test of running and the queueing are two critical
\* sections in the code; only this goroutine changes running in between.
SubmitQueued(k, x) ==
    /\ front = Ready /\ running
    /\ \/ k = "prompt" /\ Accept(k, x) /\ Enqueue(<<x>>)
       \/ k = "command" /\ Accept(k, x) /\ EnqueueCommand(x)
    /\ front' = At("apply", "submit", <<>>, "none", FALSE)
    /\ UNCHANGED <<mode, running, heldBack, bgTasks, notes, saved, unsaved, ran, app,
                   streaming, evCh, polls, bgSel, bgPolls, agent, displaced, odd>>

\* A command with Immediate set runs although the agent does.  One that is unknown
\* or fails leaves the actions undrained.
SubmitCommand(x) ==
    /\ front = Ready
    /\ Accept("command", x)
    /\ ran' = ran \union {x}
    /\ \E at \in {"actions", "apply"} : front' = At(at, "submit", <<>>, "none", FALSE)
    /\ UNCHANGED <<mode, running, queue, later, heldBack, bgTasks, notes, saved, unsaved,
                   app, streaming, evCh, polls, bgSel, bgPolls, agent, dropped, displaced,
                   odd>>

SubmitPrompt(x) ==
    /\ front = Ready /\ ~running
    /\ Accept("prompt", x)
    /\ Save(<<x>>)
    /\ front' = At("start", "submit", <<x>>, "submit", FALSE)
    /\ UNCHANGED <<mode, running, queue, later, heldBack, bgTasks, notes, ran, app, streaming,
                   evCh, polls, bgSel, bgPolls, agent, dropped, displaced, odd>>

\* agent.Start waits for the run before to be over.  (That it can already see running
\* reset when the channels are yet to be closed is in module AgentLifecycle.)
StartAgent ==
    /\ front.at = "start"
    /\ phase \in {"none", "over"}
    /\ runs' = runs + 1
    /\ phase' = "body" /\ tools' = 0 /\ chan' = <<>>
    /\ displaced' = displaced \union ToSet(steerQ)
    /\ history' = history \o front.batch
    /\ front' = [front EXCEPT !.at = "clear", !.batch = <<>>]
    /\ UNCHANGED <<kind, shell, app, streaming, evCh, polls, bgSel, bgPolls, cancelled,
                   steerQ, bg, dropped, odd>>

\* The program is told to stop while Start waits, and gets a channel that is closed:
\* that of a run which is over before it began.
StartGivesUp ==
    /\ front.at = "start"
    /\ phase = "ending"
    /\ runs' = runs + 1
    /\ phase' = "over" /\ tools' = 0 /\ chan' = <<>>
    /\ dropped' = dropped \union ToSet(front.batch)
    /\ odd' = odd \union {"missed"}
    /\ front' = [front EXCEPT !.at = "clear", !.batch = <<>>]
    /\ UNCHANGED <<kind, shell, app, streaming, evCh, polls, bgSel, bgPolls, cancelled,
                   steerQ, history, bg, displaced>>

ClearIdle ==
    /\ front.at = "clear"
    /\ idle' = FALSE
    /\ front' = [front EXCEPT !.at = "set"]
    /\ UNCHANGED <<kind, shell, actions, waiting, ext, streaming, evCh, polls, bgSel, bgPolls,
                   agent, dropped, displaced, odd>>

\* A run that Submit started is streamed at once; one that a drain started when
\* the operation is finished.
SetRunning ==
    /\ front.at = "set"
    /\ running' = TRUE
    /\ IF front.via = "submit"
         THEN /\ front' = [front EXCEPT !.at = "apply"]
              /\ streaming' = TRUE /\ evCh' = runs /\ polls' = polls \union {runs}
         ELSE /\ front' = [front EXCEPT !.at = "actions"]
              /\ UNCHANGED <<streaming, evCh, polls>>
    /\ UNCHANGED <<kind, mode, queue, later, heldBack, bgTasks, notes, saved, unsaved, ran,
                   app, bgSel, bgPolls, agent, dropped, displaced, odd>>

-----------------------------------------------------------------------------
(***************************************************************************)
(* ProcessEvent and ProcessBgEvent.                                        *)
(***************************************************************************)

\* The channel of an earlier run, or of one that is over, is closed when empty.
Closed(r) == r < runs \/ (phase = "over" /\ chan = <<>>)

\* A poll delivers the next event of the latest run.
Receive(e) ==
    /\ front = Ready
    /\ runs \in polls
    /\ chan # <<>> /\ Head(chan) = e
    /\ chan' = Tail(chan)
    /\ polls' = polls \ {runs}

\* EventToolEnd: the queued prompts are taken to steer the run.
ToolEnd ==
    /\ Receive("toolEnd")
    /\ queue' = <<>>
    /\ Save(queue)
    /\ front' = At(IF queue = <<>> THEN "actions" ELSE "steer", "event", queue, "none", FALSE)
    /\ UNCHANGED <<kind, mode, running, later, heldBack, bgTasks, notes, ran, app, streaming,
                   evCh, bgSel, bgPolls, runs, phase, tools, cancelled, steerQ, history, bg,
                   dropped, displaced, odd>>

\* EventTurnEnd: messages of the turn are stored, actions are drained.
TurnEnd ==
    /\ Receive("turnEnd")
    /\ front' = At("actions", "event", <<>>, "none", FALSE)
    /\ UNCHANGED <<kind, shell, app, streaming, evCh, bgSel, bgPolls, runs, phase, tools,
                   cancelled, steerQ, history, bg, dropped, displaced, odd>>

SteerPrompts ==
    /\ front.at = "steer"
    /\ steerQ' = steerQ \o front.batch
    /\ front' = [front EXCEPT !.at = "actions", !.batch = <<>>]
    /\ UNCHANGED <<kind, shell, app, streaming, evCh, polls, bgSel, bgPolls, runs, phase, tools,
                   cancelled, chan, history, bg, dropped, displaced, odd>>

BgRunning == \E t \in bgTasks : bg[t] = "running"

\* EventAgentEnd: held back while a background task is at work, otherwise the
\* shell stops running.  (The repair of the history is in module Session.)
AgentEnd ==
    /\ Receive("agentEnd")
    /\ IF BgRunning
         THEN /\ heldBack' = TRUE
              /\ odd' = odd \union {"held"}
              /\ front' = At("actions", "event", <<>>, "none", FALSE)
              /\ UNCHANGED running
         ELSE /\ running' = FALSE
              /\ front' = At("signal", "event", <<>>, "drain", FALSE)
              /\ UNCHANGED <<heldBack, odd>>
    /\ UNCHANGED <<kind, mode, queue, later, bgTasks, notes, saved, unsaved, ran, app,
                   streaming, evCh, bgSel, bgPolls, runs, phase, tools, cancelled, steerQ,
                   history, bg, dropped, displaced>>

\* Mutation: a held-back end is completed only if the task was still in the table.
BgEndForgotten(t) ==
    /\ front = Ready
    /\ t \in bgPolls /\ bg[t] = "ended"
    /\ bgPolls' = bgPolls \ {t}
    /\ bgTasks' = bgTasks \ {bgSel}
    /\ IF heldBack /\ bgTasks' = {} /\ bgTasks # {}
         THEN /\ heldBack' = FALSE /\ running' = FALSE
              /\ front' = At("signal", "bg", <<>>, "drain", FALSE)
         ELSE /\ front' = At("apply", "bg", <<>>, "none", TRUE)
              /\ UNCHANGED <<heldBack, running>>
    /\ UNCHANGED <<kind, mode, queue, later, notes, saved, unsaved, ran, app, streaming,
                   evCh, polls, bgSel, agent, dropped, displaced, odd>>

\* Mutation: a held-back end is completed and stays held back.
BgEndStillHeld(t) ==
    /\ front = Ready
    /\ t \in bgPolls /\ bg[t] = "ended"
    /\ bgPolls' = bgPolls \ {t}
    /\ bgTasks' = bgTasks \ {bgSel}
    /\ IF heldBack /\ bgTasks' = {}
         THEN /\ running' = FALSE /\ UNCHANGED heldBack
              /\ front' = At("signal", "bg", <<>>, "drain", FALSE)
         ELSE /\ front' = At("apply", "bg", <<>>, "none", TRUE)
              /\ UNCHANGED <<heldBack, running>>
    /\ UNCHANGED <<kind, mode, queue, later, notes, saved, unsaved, ran, app, streaming,
                   evCh, polls, bgSel, agent, dropped, displaced, odd>>

\* The end of task t (its event, or its channel closed), taken for the end of the
\* task the front end has selected.
BgEnd(t) ==
    /\ front = Ready
    /\ t \in bgPolls /\ bg[t] = "ended"
    /\ bgPolls' = bgPolls \ {t}
    /\ bgTasks' = bgTasks \ {bgSel}
    /\ IF heldBack /\ bgTasks' = {}
         THEN /\ heldBack' = FALSE /\ running' = FALSE
              /\ front' = At("signal", "bg", <<>>, "drain", FALSE)
         ELSE /\ front' = At("apply", "bg", <<>>, "none", TRUE)
              /\ UNCHANGED <<heldBack, running>>
    /\ UNCHANGED <<kind, mode, queue, later, notes, saved, unsaved, ran, app, streaming,
                   evCh, polls, bgSel, agent, dropped, displaced, odd>>

\* Any other event of task t.
BgEvent(t) ==
    /\ front = Ready
    /\ t \in bgPolls /\ bg[t] = "running"
    /\ bgPolls' = bgPolls \ {t}
    /\ front' = At("apply", "bg", <<>>, "none", FALSE)
    /\ UNCHANGED <<kind, shell, app, streaming, evCh, polls, bgSel, agent, dropped, displaced,
                   odd>>

\* Mutation: nothing is submitted at the end of a run.
SignalIdleOnly ==
    /\ front.at = "signal"
    /\ idle' = TRUE /\ waiting' = FALSE
    /\ front' = [front EXCEPT !.at = "actions"]
    /\ UNCHANGED <<kind, shell, actions, ext, streaming, evCh, polls, bgSel, bgPolls, agent,
                   dropped, displaced, odd>>

\* stopRunning wakes those who wait for the agent to be idle.
SignalIdle ==
    /\ front.at = "signal"
    /\ idle' = TRUE /\ waiting' = FALSE
    /\ front' = [front EXCEPT !.at = "drain"]
    /\ UNCHANGED <<kind, shell, actions, ext, streaming, evCh, polls, bgSel, bgPolls, agent,
                   dropped, displaced, odd>>

\* drainAndSubmitQueued: the commands run, each draining the actions unless it is
\* unknown or fails; the prompts become one turn.
DrainQueue ==
    /\ front.at = "drain"
    /\ \E prompts \in Sorted :
       LET commands == Prefix(later, CommandsDrained)
       IN  /\ queue' = Suffix(queue, PromptsDrained)
           /\ later' = Suffix(later, CommandsDrained)
           /\ ran' = ran \union ToSet(commands)
           /\ \/ commands # <<>> /\ actions' = <<>> /\ notes' = notes \o actions
              \/ UNCHANGED <<actions, notes>>
           /\ Save(prompts)
           /\ front' = IF prompts = <<>>
                         THEN [front EXCEPT !.at = "actions", !.done = TRUE]
                         ELSE [front EXCEPT !.at = "start", !.batch = prompts]
           /\ displaced' = IF prompts = Prefix(queue, PromptsDrained) THEN displaced
                           ELSE displaced \union ToSet(prompts)
    /\ UNCHANGED <<kind, mode, running, heldBack, bgTasks, idle, waiting, ext, streaming, evCh,
                   polls, bgSel, bgPolls, agent, dropped, odd>>

ProcessActions ==
    /\ front.at = "actions"
    /\ DrainActions(running)
    /\ front' = [front EXCEPT !.at = "apply"]
    /\ UNCHANGED <<kind, mode, running, heldBack, bgTasks, saved, unsaved, ran, idle,
                   waiting, ext, streaming, evCh, polls, bgSel, bgPolls, agent, displaced,
                   odd>>

-----------------------------------------------------------------------------
(***************************************************************************)
(* The front end after an operation of the shell.                          *)
(***************************************************************************)

\* applyShellNotifications: a message is submitted, unless the front end is still
\* streaming: then it is gone.
ApplyNote ==
    /\ front.at = "apply" /\ notes # <<>>
    /\ LET x == Head(notes)
       IN  /\ notes' = Tail(notes)
           /\ IF streaming
                THEN /\ dropped' = dropped \union {x}
                     /\ UNCHANGED <<queue, later, saved, unsaved, front>>
                ELSE IF running
                       THEN Enqueue(<<x>>) /\ UNCHANGED <<saved, unsaved, front>>
                       ELSE /\ Save(<<x>>)
                            /\ front' = [front EXCEPT !.at = "start", !.batch = <<x>>,
                                                      !.via = "submit"]
                            /\ UNCHANGED <<queue, later, dropped>>
    /\ UNCHANGED <<kind, mode, running, heldBack, bgTasks, ran, app, streaming, evCh, polls,
                   bgSel, bgPolls, agent, displaced, odd>>

\* It then selects a background task other than the one it follows.
SelectTask ==
    /\ front.at = "apply" /\ notes = <<>>
    /\ front' = [front EXCEPT !.at = "finish"]
    /\ \/ \E t \in bgTasks \ {bgSel} : bgSel' = t /\ bgPolls' = bgPolls \union {t}
       \/ bgTasks \subseteq {bgSel} /\ UNCHANGED <<bgSel, bgPolls>>
    /\ UNCHANGED <<kind, shell, app, streaming, evCh, polls, agent, dropped, displaced, odd>>

\* stopStreaming, and the poll that goes on if the front end streams.
StopStreaming ==
    /\ streaming' = FALSE /\ idle' = TRUE /\ waiting' = FALSE

\* After an event: a run that the shell restarted is followed from now on.
FinishEvent ==
    /\ front.at = "finish" /\ front.op = "event"
    /\ front' = Ready
    /\ evCh' = IF running THEN runs ELSE evCh
    /\ IF front.done
         THEN StopStreaming /\ UNCHANGED polls
         ELSE /\ streaming' = (streaming \/ evCh' # evCh)
              /\ polls' = IF streaming' THEN polls \union {evCh'} ELSE polls
              /\ UNCHANGED <<idle, waiting>>
    /\ UNCHANGED <<kind, shell, actions, ext, bgSel, bgPolls, agent, dropped, displaced, odd>>

\* After an event of a background task.
FinishBg ==
    /\ front.at = "finish" /\ front.op = "bg"
    /\ front' = Ready
    /\ IF front.done
         THEN /\ bgSel' = NoTask
              /\ UNCHANGED bgPolls
              /\ IF running /\ evCh # runs
                   THEN /\ evCh' = runs /\ streaming' = TRUE /\ polls' = polls \union {runs}
                        /\ UNCHANGED <<idle, waiting>>
                   ELSE /\ UNCHANGED <<evCh, polls>>
                        /\ IF running THEN UNCHANGED <<streaming, idle, waiting>>
                                      ELSE StopStreaming
         ELSE /\ bgPolls' = bgPolls \union ({bgSel} \ {NoTask})
              /\ UNCHANGED <<bgSel, evCh, streaming, polls, idle, waiting>>
    /\ UNCHANGED <<kind, shell, actions, ext, agent, dropped, displaced, odd>>

FinishSubmit ==
    /\ front.at = "finish" /\ front.op = "submit"
    /\ front' = Ready
    /\ UNCHANGED <<kind, shell, app, streaming, evCh, polls, bgSel, bgPolls, agent, dropped,
                   displaced, odd>>

\* A poll finds its channel closed.
ChannelClosed(r) ==
    /\ front = Ready
    /\ r \in polls /\ Closed(r)
    /\ polls' = polls \ {r}
    /\ StopStreaming
    /\ UNCHANGED <<kind, shell, actions, ext, front, evCh, bgSel, bgPolls, agent, dropped,
                   displaced, odd>>

FrontStep ==
    \/ StartAgent \/ StartGivesUp
    \/ ClearIdle \/ SetRunning \/ SteerPrompts \/ SignalIdle \/ DrainQueue
    \/ ProcessActions \/ ApplyNote \/ SelectTask \/ FinishEvent \/ FinishBg \/ FinishSubmit

-----------------------------------------------------------------------------
(***************************************************************************)
(* Extensions.                                                             *)
(***************************************************************************)

\* Steer reads running and hands the message over afterwards.
Steer(x) ==
    /\ ext = NoCall
    /\ Accept("steer", x)
    /\ ext' = [NoCall EXCEPT !.at = IF running THEN "deliver" ELSE "enqueue", !.on = x]
    /\ UNCHANGED <<shell, actions, idle, waiting, tui, agent, dropped, displaced, odd>>

SteerDelivers ==
    /\ ext.at = "deliver"
    /\ steerQ' = Append(steerQ, ext.on)
    /\ ext' = NoCall
    /\ UNCHANGED <<kind, shell, actions, idle, waiting, tui, runs, phase, tools, cancelled, chan,
                   history, bg, dropped, displaced, odd>>

SteerQueues ==
    /\ ext.at = "enqueue"
    /\ Enqueue(<<ext.on>>)
    /\ ext' = NoCall
    /\ UNCHANGED <<kind, mode, running, heldBack, bgTasks, notes, saved, unsaved, ran,
                   actions, idle, waiting, tui, agent, displaced, odd>>

\* SendMessage: an action that waits for the next drain.
SendMessage(x) ==
    /\ ext = NoCall
    /\ Accept("send", x)
    /\ actions' = Append(actions, x)
    /\ UNCHANGED <<shell, idle, waiting, ext, tui, agent, dropped, displaced, odd>>

\* StartBackgroundNamed: the agent is started between two critical sections.
StartBackground(t) ==
    /\ ext = NoCall
    /\ t \notin bgTasks /\ bg[t] = "none"
    /\ bg' = [bg EXCEPT ![t] = "running"]
    /\ odd' = IF bgTasks # {} \/ bgPolls # {} \/ bgSel # NoTask THEN odd \union {"crowded"} ELSE odd
    /\ ext' = [NoCall EXCEPT !.at = "insert", !.task = t]
    /\ UNCHANGED <<kind, shell, actions, idle, waiting, tui, runs, phase, tools, cancelled, chan,
                   steerQ, history, dropped, displaced>>

InsertBackground ==
    /\ ext.at = "insert"
    /\ bgTasks' = bgTasks \union {ext.task}
    /\ ext' = NoCall
    /\ UNCHANGED <<kind, mode, running, queue, later, heldBack, notes, saved, unsaved, ran,
                   actions, idle, waiting, tui, agent, dropped, displaced, odd>>

\* StopBackground waits, with Shell.mu held, for every task to end.
StopBackground ==
    /\ ext = NoCall
    /\ bgTasks # {}
    /\ bg' = [t \in Tasks |-> IF t \in bgTasks THEN "ended" ELSE bg[t]]
    /\ bgTasks' = {}
    /\ odd' = IF bgTasks \subseteq {bgSel} THEN odd ELSE odd \union {"unfollowed"}
    /\ UNCHANGED <<kind, mode, running, queue, later, heldBack, notes, saved, unsaved, ran,
                   app, tui, runs, phase, tools, cancelled, chan, steerQ, history, dropped,
                   displaced>>

\* Mutation: the caller waits without a look at idle.
WaitForIdleBlindly ==
    /\ Waits /\ ~waiting
    /\ waiting' = TRUE
    /\ UNCHANGED <<kind, shell, actions, idle, ext, tui, agent, dropped, displaced, odd>>

\* WaitForIdle: a caller that finds the app busy waits.
WaitForIdle ==
    /\ Waits /\ ~waiting
    /\ ~idle
    /\ waiting' = TRUE
    /\ UNCHANGED <<kind, shell, actions, idle, ext, tui, agent, dropped, displaced, odd>>

\* Abort, by the user or by an extension.
Abort ==
    /\ phase \in {"body", "ending"} /\ ~cancelled
    /\ cancelled' = TRUE
    /\ UNCHANGED <<kind, shell, app, tui, runs, phase, tools, chan, steerQ, history, bg, dropped,
                   displaced, odd>>

Extension ==
    \/ \E x \in Inputs : Steer(x) \/ SendMessage(x)
    \/ SteerDelivers \/ SteerQueues \/ InsertBackground
    \/ \E t \in Tasks : StartBackground(t)
    \/ StopBackground \/ WaitForIdle \/ Abort

-----------------------------------------------------------------------------
(***************************************************************************)
(* The agent and the background agents, as far as the shell sees them.     *)
(***************************************************************************)

\* emit: with the channel full the event is dropped when the time is over.
Emit(e) == chan' = IF Len(chan) < ChanCap THEN Append(chan, e) ELSE chan

RunReports ==
    /\ phase = "body" /\ tools < MaxTools
    /\ tools' = tools + 1
    /\ Emit("toolEnd") \/ Emit("turnEnd")
    /\ UNCHANGED <<kind, shell, app, tui, runs, phase, cancelled, steerQ, history, bg, dropped,
                   displaced, odd>>

\* The steering messages go into the history with the next turn.  Those that tool
\* workers took may be lost: of the bundles of a batch one is kept, and at the turn
\* limit none.
RunTakesSteering ==
    /\ phase = "body" /\ steerQ # <<>>
    /\ steerQ' = <<>>
    /\ \/ history' = history \o steerQ /\ UNCHANGED dropped
       \/ tools > 0 /\ dropped' = dropped \union ToSet(steerQ) /\ UNCHANGED history
    /\ UNCHANGED <<kind, shell, app, tui, runs, phase, tools, cancelled, chan, bg, displaced, odd>>

\* A cancelled run loses what it took, and a worker it left behind what it finds in
\* the queue later, whatever run is at work by then.
CancelledTakesSteering ==
    /\ cancelled /\ steerQ # <<>>
    /\ steerQ' = <<>>
    /\ dropped' = dropped \union ToSet(steerQ)
    /\ UNCHANGED <<kind, shell, app, tui, runs, phase, tools, cancelled, chan, history, bg,
                   displaced, odd>>

RunEmitsEnd ==
    /\ phase = "body"
    /\ phase' = "ending"
    /\ Emit("agentEnd")
    /\ odd' = IF Len(chan) < ChanCap THEN odd ELSE odd \union {"missed"}
    /\ UNCHANGED <<kind, shell, app, tui, runs, tools, cancelled, steerQ, history, bg, dropped,
                   displaced>>

\* The deferred function: the compaction is awaited, the channel closed.
RunEnds ==
    /\ phase = "ending"
    /\ phase' = "over"
    /\ UNCHANGED <<kind, shell, app, tui, runs, tools, cancelled, chan, steerQ, history, bg,
                   dropped, displaced, odd>>

TaskEnds(t) ==
    /\ bg[t] = "running"
    /\ bg' = [bg EXCEPT ![t] = "ended"]
    /\ UNCHANGED <<kind, shell, app, tui, runs, phase, tools, cancelled, chan, steerQ, history,
                   dropped, displaced, odd>>

Agent ==
    \/ RunReports \/ RunTakesSteering \/ CancelledTakesSteering \/ RunEmitsEnd \/ RunEnds
    \/ \E t \in Tasks : TaskEnds(t)

-----------------------------------------------------------------------------
User == \E x \in Inputs :
    SubmitCommand(x) \/ SubmitPrompt(x) \/ \E k \in Kinds : SubmitQueued(k, x)

Next ==
    \/ User \/ FrontStep \/ ToolEnd \/ TurnEnd \/ AgentEnd \/ Extension \/ Agent
    \/ \E t \in Tasks : BgEnd(t) \/ BgEvent(t)
    \/ \E r \in Inputs : ChannelClosed(r)

\* Runs and tasks end (what AgentRun shows); the front end goes on with what it
\* has begun and serves every message that arrives for ever; calls of extensions
\* go on.
Fairness ==
    /\ WF_vars(FrontStep)
    /\ SF_vars(ToolEnd) /\ SF_vars(TurnEnd) /\ SF_vars(AgentEnd)
    /\ \A r \in Inputs : SF_vars(ChannelClosed(r))
    /\ \A t \in Tasks : SF_vars(BgEnd(t)) /\ WF_vars(TaskEnds(t))
    /\ WF_vars(RunEmitsEnd) /\ WF_vars(RunEnds)
    /\ WF_vars(SteerDelivers \/ SteerQueues \/ InsertBackground)

Spec == Init /\ [][Next]_vars /\ Fairness
-----------------------------------------------------------------------------
(***************************************************************************)
(* Properties.                                                             *)
(***************************************************************************)

\* Every input is at one place: it waits in one of the queues, somebody carries
\* it, the agent has it, it ran as a command, or it was given up.  None is
\* submitted twice and none vanishes, whatever front end, extensions and run do
\* at the same time.
InputsOnce ==
    LET kept == queue \o later \o notes \o actions \o steerQ \o history \o front.batch
                \o (IF ext.on = 0 THEN <<>> ELSE <<ext.on>>)
    IN  /\ Cardinality(ToSet(kept)) = Len(kept)
        /\ ToSet(kept) \union ran \union dropped = DOMAIN kind
        /\ ran \intersect dropped = {} /\ ToSet(kept) \intersect (ran \union dropped) = {}

\* The prompts of the user reach the agent in the order they were typed, by the
\* start of a run or as steering, except those a run left to the next one and
\* those that a drain of a long queue put out of order among themselves.
PromptsInOrder ==
    \A i, j \in DOMAIN history :
        /\ i < j
        /\ kind[history[i]] = "prompt" /\ kind[history[j]] = "prompt"
        /\ {history[i], history[j]} \intersect displaced = {}
        => history[i] < history[j]

\* The session tells the story of the agent.  Whatever way an input came, it was
\* stored before the agent has it, unless its own write failed or an extension steers
\* it past the session; nothing is stored twice; and a session that is resumed shows
\* what it has in the order in which the agent saw it, a failed write putting nothing
\* else out of order.  What a run left to the next one is in the session before the
\* prompt of that run, and after it in the history.
SessionAgrees ==
    /\ \A x \in ToSet(steerQ \o history) :
          kind[x] # "steer" => x \in ToSet(saved) \union unsaved
    /\ IsInjective(saved)
    /\ \A i, j \in DOMAIN history, k, l \in DOMAIN saved :
          /\ i < j /\ history[i] = saved[k] /\ history[j] = saved[l]
          /\ {saved[k], saved[l]} \intersect displaced = {}
          => k < l

\* The shell says running whenever a run is at work, and says so only as long as
\* the end of a run is to be processed or is held back: otherwise a second run
\* would be started over the first, or every input be queued for ever.
RunningIsTrue ==
    /\ phase = "body" => running \/ front.at \in {"clear", "set"}
    /\ running /\ front = Ready =>
          \/ phase = "body" \/ "agentEnd" \in ToSet(chan) \/ heldBack \/ "missed" \in odd

\* A prompt queued during a run leaves the queue, when nothing unusual happens.
QueueServed ==
    \A x \in Inputs :
        (x \in ToSet(queue) /\ running) ~> (x \notin ToSet(queue) \/ odd # {})

\* A held-back end is completed, as long as the background tasks come one at a
\* time and are not stopped before the front end follows them.
HeldBackCompletes ==
    heldBack ~> (~heldBack \/ odd \intersect {"crowded", "unfollowed"} # {})

\* Who waits for the agent to be idle is told so, when nothing unusual happens.
WaiterWoken == waiting ~> (~waiting \/ odd # {})

=============================================================================
