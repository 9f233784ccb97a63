------------------------------ MODULE HostRpc ------------------------------
(***************************************************************************)
(* A host and its extension process: JSON-RPC over two pipes.              *)
(*                                                                         *)
(* Host side (ext/external): request, the reader readLoop, the ordered     *)
(* shutdown Stop (lifecycle.go) and streams of deltas (stream.go).  Other  *)
(* side (sdk): the read loop Run, one goroutine per request, requests back *)
(* to the host.  The process may die, its connection may break and it may  *)
(* hang, neither reading nor writing, at any moment.                       *)
(*                                                                         *)
(* A write appends a whole message when the pipe has room, and waits       *)
(* otherwise; who waits for writeMu and who waits for room are the same.   *)
(* The handshake is over; Supervisor models what surrounds this.           *)
(***************************************************************************)
EXTENDS Naturals, Sequences, FiniteSets

CONSTANTS
    Callers,    \* requests, each by a goroutine of its own; also their ids
    Streams,    \* those that are provider/stream requests
    Asks,       \* those whose handler calls the host back once
    None,
    PipeCap,    \* bound: messages a pipe holds (bytes in the system)
    DeltaCap,   \* capacity of a delta channel, 256 in the code
    MaxDeltas   \* bound: deltas a handler sends

ASSUME HostRpcAssumption ==
    /\ IsFiniteSet(Callers) /\ Streams \subseteq Callers /\ Asks \subseteq Callers
    /\ PipeCap \in Nat \ {0} /\ DeltaCap \in Nat \ {0} /\ MaxDeltas \in Nat
    /\ None \notin Callers
    /\ None \notin {"response", "ctx", "closed", "write", "done", "error", "stop", "reader"}

VARIABLES
    cpc,         \* where a caller is in request
    result,      \* what request returned
    ctxDone,     \* the caller's context is cancelled or timed out
    pending,     \* Host.pending, the ids in it
    answered,    \* ids whose response channel holds the response
    spc,         \* where the goroutine of stream is
    deltaChans,  \* Host.deltaChans, the ids in it
    deltaBuf,    \* what the delta channel of a stream holds
    out,         \* the deltas a stream forwarded
    final,       \* the event that ended a stream
    dropped,     \* history: deltas that met a full channel
    toExt,       \* pipe host -> extension
    toHost,      \* pipe extension -> host
    stdinClosed, \* Host.stdin is closed
    rpc, rid,    \* readLoop: where it is, the id it answers
    later,       \* asks a goroutine or a callback of the host has to answer
    readDone,    \* Host.readDone is closed
    closed,      \* Host.closed is closed
    once,        \* who took Host.closeOnce
    stopPc,      \* where Stop is
    alive, hung, \* the process
    hpc,         \* the goroutine that handles a request in the extension
    cancels,     \* Extension.cancels, the ids in it
    cancelled,   \* handlers whose context was cancelled
    sent         \* deltas a handler sent

callVars   == <<cpc, result, ctxDone, answered>>
streamVars == <<spc, deltaBuf, out, final, dropped>>
readVars   == <<rpc, rid, later, readDone>>
stopVars   == <<stdinClosed, closed, once, stopPc>>
extVars    == <<hpc, cancels, cancelled, sent>>
vars == <<callVars, pending, streamVars, deltaChans, toExt, toHost, readVars,
          stopVars, alive, hung, extVars>>

Message == [type : {"request", "cancel", "shutdown", "answer",
                    "response", "ask"}, id : Callers \cup {None}]
           \cup [type : {"delta"}, id : Callers, n : 1..MaxDeltas]
Msg(t, c) == [type |-> t, id |-> c]

TypeOK ==
    /\ cpc \in [Callers -> {"idle", "register", "send", "wait", "cancel", "returned"}]
    /\ result \in [Callers -> {None, "response", "ctx", "closed", "write"}]
    /\ ctxDone \in [Callers -> BOOLEAN]
    /\ pending \subseteq Callers /\ answered \subseteq Callers
    /\ spc \in [Streams -> {"idle", "open", "finished"}]
    /\ deltaChans \subseteq Streams
    /\ deltaBuf \in [Streams -> Seq(1..MaxDeltas)]
    /\ \A c \in Streams : Len(deltaBuf[c]) <= DeltaCap
    /\ out \in [Streams -> Seq(1..MaxDeltas)]
    /\ final \in [Streams -> {None, "done", "error"}]
    /\ dropped \in [Streams -> SUBSET (1..MaxDeltas)]
    /\ toExt \in Seq(Message) /\ Len(toExt) <= PipeCap
    /\ toHost \in Seq(Message) /\ Len(toHost) <= PipeCap
    /\ stdinClosed \in BOOLEAN /\ readDone \in BOOLEAN /\ closed \in BOOLEAN
    /\ rpc \in {"read", "respond", "exit", "ended"} /\ rid \in Callers \cup {None}
    /\ later \subseteq Callers
    /\ once \in {None, "stop", "reader"}
    /\ stopPc \in {"idle", "shutdown", "stdin", "wait", "kill", "read", "done"}
    /\ alive \in BOOLEAN /\ hung \in BOOLEAN
    /\ hpc \in [Callers -> {"none", "spawned", "asks", "asked", "woken", "aborts",
                            "running", "ended"}]
    /\ cancels \subseteq Callers /\ cancelled \subseteq Callers
    /\ sent \in [Callers -> 0..MaxDeltas]

Init ==
    /\ cpc = [c \in Callers |-> "idle"] /\ result = [c \in Callers |-> None]
    /\ ctxDone = [c \in Callers |-> FALSE] /\ pending = {} /\ answered = {}
    /\ spc = [c \in Streams |-> "idle"] /\ deltaChans = {}
    /\ deltaBuf = [c \in Streams |-> <<>>] /\ out = [c \in Streams |-> <<>>]
    /\ final = [c \in Streams |-> None] /\ dropped = [c \in Streams |-> {}]
    /\ toExt = <<>> /\ toHost = <<>> /\ stdinClosed = FALSE
    /\ rpc = "read" /\ rid = None /\ later = {} /\ readDone = FALSE /\ closed = FALSE
    /\ once = None /\ stopPc = "idle" /\ alive = TRUE /\ hung = FALSE
    /\ hpc = [c \in Callers |-> "none"] /\ cancels = {} /\ cancelled = {}
    /\ sent = [c \in Callers |-> 0]

-----------------------------------------------------------------------------
(* send: succeeds when there is room, fails when nobody can read any more.  *)

Broken == ~alive \/ stdinClosed
Full == Len(toExt) = PipeCap
Write(m) == ~Broken /\ ~Full /\ toExt' = Append(toExt, m)
WriteFails == Broken /\ UNCHANGED toExt

-----------------------------------------------------------------------------
(* request                                                                  *)

CallGoes(c, l) == cpc' = [cpc EXCEPT ![c] = l]
Returns(c, r) == CallGoes(c, "returned") /\ result' = [result EXCEPT ![c] = r]

Call(c) ==
    /\ cpc[c] = "idle" /\ c \notin Streams
    /\ CallGoes(c, "register")
    /\ UNCHANGED <<result, ctxDone, answered, pending, streamVars, deltaChans, toExt,
                   toHost, readVars, stopVars, alive, hung, extVars>>

\* h.pending[id] = ch
Register(c) ==
    /\ cpc[c] = "register"
    /\ pending' = pending \cup {c} /\ CallGoes(c, "send")
    /\ UNCHANGED <<result, ctxDone, answered, streamVars, deltaChans, toExt, toHost,
                   readVars, stopVars, alive, hung, extVars>>

SendRequest(c) ==
    /\ cpc[c] = "send"
    /\ \/ Write(Msg("request", c)) /\ CallGoes(c, "wait") /\ UNCHANGED <<result, pending>>
       \/ WriteFails /\ Returns(c, "write") /\ pending' = pending \ {c}
    /\ UNCHANGED <<ctxDone, answered, streamVars, deltaChans, toHost, readVars,
                   stopVars, alive, hung, extVars>>

\* <-ch
GetResponse(c) ==
    /\ cpc[c] = "wait" /\ c \in answered
    /\ answered' = answered \ {c} /\ Returns(c, "response")
    /\ UNCHANGED <<ctxDone, pending, streamVars, deltaChans, toExt, toHost, readVars,
                   stopVars, alive, hung, extVars>>

\* <-ctx.Done(): the entry goes first, then the extension is told.
SeeContext(c) ==
    /\ cpc[c] = "wait" /\ ctxDone[c]
    /\ pending' = pending \ {c} /\ CallGoes(c, "cancel")
    /\ UNCHANGED <<result, ctxDone, answered, streamVars, deltaChans, toExt, toHost,
                   readVars, stopVars, alive, hung, extVars>>

SendCancel(c) ==
    /\ cpc[c] = "cancel"
    /\ Write(Msg("cancel", c)) \/ WriteFails
    /\ Returns(c, "ctx")
    /\ UNCHANGED <<ctxDone, answered, pending, streamVars, deltaChans, toHost, readVars,
                   stopVars, alive, hung, extVars>>

\* Mutation: the end of the host leaves the entry in the table.
SeeClosedKeeps(c) ==
    /\ cpc[c] = "wait" /\ closed
    /\ Returns(c, "closed")
    /\ UNCHANGED <<ctxDone, answered, pending, streamVars, deltaChans, toExt, toHost,
                   readVars, stopVars, alive, hung, extVars>>

\* <-h.closed
SeeClosed(c) ==
    /\ cpc[c] = "wait" /\ closed
    /\ pending' = pending \ {c} /\ Returns(c, "closed")
    /\ UNCHANGED <<ctxDone, answered, streamVars, deltaChans, toExt, toHost, readVars,
                   stopVars, alive, hung, extVars>>

\* The caller's time is over, or somebody cancels it.
ContextEnds(c) ==
    /\ cpc[c] \in {"register", "send", "wait"} /\ ~ctxDone[c]
    /\ ctxDone' = [ctxDone EXCEPT ![c] = TRUE]
    /\ UNCHANGED <<cpc, result, answered, pending, streamVars, deltaChans, toExt, toHost,
                   readVars, stopVars, alive, hung, extVars>>

Request(c) == \/ Register(c) \/ SendRequest(c) \/ GetResponse(c) \/ SeeContext(c)
              \/ SendCancel(c) \/ SeeClosed(c)

-----------------------------------------------------------------------------
(* stream                                                                   *)

\* A stopped host is refused; otherwise the delta channel is registered
\* before the request goes out in a goroutine of its own.
StreamStart(c) ==
    /\ spc[c] = "idle"
    /\ IF closed
       THEN /\ spc' = [spc EXCEPT ![c] = "finished"]
            /\ final' = [final EXCEPT ![c] = "error"]
            /\ UNCHANGED <<cpc, deltaChans>>
       ELSE /\ spc' = [spc EXCEPT ![c] = "open"]
            /\ deltaChans' = deltaChans \cup {c} /\ CallGoes(c, "register")
            /\ UNCHANGED final
    /\ UNCHANGED <<result, ctxDone, answered, pending, deltaBuf, out, dropped, toExt,
                   toHost, readVars, stopVars, alive, hung, extVars>>

Forward(c) ==
    /\ spc[c] = "open" /\ deltaBuf[c] # <<>>
    /\ out' = [out EXCEPT ![c] = Append(@, Head(deltaBuf[c]))]
    /\ deltaBuf' = [deltaBuf EXCEPT ![c] = Tail(@)]
    /\ UNCHANGED <<callVars, pending, spc, final, dropped, deltaChans, toExt, toHost,
                   readVars, stopVars, alive, hung, extVars>>

\* Mutation: the channel is released and not drained.
StreamEndsUndrained(c) ==
    /\ spc[c] = "open" /\ cpc[c] = "returned"
    /\ spc' = [spc EXCEPT ![c] = "finished"] /\ deltaChans' = deltaChans \ {c}
    /\ \E f \in IF result[c] = "response" THEN {"done", "error"} ELSE {"error"} :
         final' = [final EXCEPT ![c] = f]
    /\ UNCHANGED <<callVars, pending, deltaBuf, out, dropped, toExt, toHost,
                   readVars, stopVars, alive, hung, extVars>>

\* <-respCh: release the channel, forward what it still holds, end with the
\* message or with the error the response carries.
StreamEnds(c) ==
    /\ spc[c] = "open" /\ cpc[c] = "returned"
    /\ spc' = [spc EXCEPT ![c] = "finished"] /\ deltaChans' = deltaChans \ {c}
    /\ out' = [out EXCEPT ![c] = @ \o deltaBuf[c]]
    /\ deltaBuf' = [deltaBuf EXCEPT ![c] = <<>>]
    /\ \E f \in IF result[c] = "response" THEN {"done", "error"} ELSE {"error"} :
         final' = [final EXCEPT ![c] = f]
    /\ UNCHANGED <<callVars, pending, dropped, toExt, toHost, readVars, stopVars,
                   alive, hung, extVars>>

\* <-ctx.Done() or <-host.closed; the request goroutine goes its own way.
StreamAborts(c) ==
    /\ spc[c] = "open" /\ (ctxDone[c] \/ closed)
    /\ spc' = [spc EXCEPT ![c] = "finished"] /\ deltaChans' = deltaChans \ {c}
    /\ final' = [final EXCEPT ![c] = "error"]
    /\ UNCHANGED <<callVars, pending, deltaBuf, out, dropped, toExt, toHost,
                   readVars, stopVars, alive, hung, extVars>>

Stream(c) == Forward(c) \/ StreamEnds(c) \/ StreamAborts(c)

-----------------------------------------------------------------------------
(* readLoop                                                                 *)

ReadsNext(t) == rpc = "read" /\ toHost # <<>> /\ Head(toHost).type = t

\* A response: the entry goes and the channel, which has room for it, gets
\* it; nothing happens when the caller has left.
ReadResponse ==
    /\ ReadsNext("response") /\ toHost' = Tail(toHost)
    /\ LET c == Head(toHost).id IN
       /\ pending' = pending \ {c}
       /\ answered' = IF c \in pending THEN answered \cup {c} ELSE answered
    /\ UNCHANGED <<cpc, result, ctxDone, streamVars, deltaChans, toExt, readVars,
                   stopVars, alive, hung, extVars>>

\* provider/delta: never waits; a delta too many is dropped.
ReadDelta ==
    /\ ReadsNext("delta") /\ toHost' = Tail(toHost)
    /\ LET c == Head(toHost).id
           n == Head(toHost).n IN
       IF c \notin deltaChans THEN UNCHANGED <<deltaBuf, dropped>>
       ELSE IF Len(deltaBuf[c]) < DeltaCap
       THEN deltaBuf' = [deltaBuf EXCEPT ![c] = Append(@, n)] /\ UNCHANGED dropped
       ELSE dropped' = [dropped EXCEPT ![c] = @ \cup {n}] /\ UNCHANGED deltaBuf
    /\ UNCHANGED <<callVars, pending, spc, out, final, deltaChans, toExt, readVars,
                   stopVars, alive, hung, extVars>>

\* A request of the extension: the reader answers it itself, or a goroutine
\* (a tool, a model, the idle agent) or a callback (a dialog) does later.
ReadAsk ==
    /\ ReadsNext("ask") /\ toHost' = Tail(toHost)
    /\ \/ rpc' = "respond" /\ rid' = Head(toHost).id /\ UNCHANGED later
       \/ later' = later \cup {Head(toHost).id} /\ UNCHANGED <<rpc, rid>>
    /\ UNCHANGED <<callVars, pending, streamVars, deltaChans, toExt, readDone,
                   stopVars, alive, hung, extVars>>

\* $/cancelRequest, a notification the host does not know.
ReadCancel ==
    /\ ReadsNext("cancel") /\ toHost' = Tail(toHost)
    /\ UNCHANGED <<callVars, pending, streamVars, deltaChans, toExt, readVars,
                   stopVars, alive, hung, extVars>>

\* respond: waits for room; an error is ignored.
Respond ==
    /\ rpc = "respond" /\ (Write(Msg("answer", rid)) \/ WriteFails)
    /\ rpc' = "read" /\ rid' = None
    /\ UNCHANGED <<callVars, pending, streamVars, deltaChans, toHost, later, readDone,
                   stopVars, alive, hung, extVars>>

\* The tool, the model or the user is done: respond, out of readLoop.
AnswerLater(c) ==
    /\ c \in later /\ (Write(Msg("answer", c)) \/ WriteFails)
    /\ later' = later \ {c}
    /\ UNCHANGED <<callVars, pending, streamVars, deltaChans, toHost, rpc, rid, readDone,
                   stopVars, alive, hung, extVars>>

\* Mutation: the reader waits for closeOnce before it says that it is done.
ReadEndsLate ==
    /\ rpc = "read" /\ (alive \/ toHost = <<>>)
    /\ once = None \/ stopPc = "done"
    /\ rpc' = "exit" /\ readDone' = TRUE
    /\ UNCHANGED <<callVars, pending, streamVars, deltaChans, toExt, toHost, rid, later,
                   stopVars, alive, hung, extVars>>

\* The pipe is empty and nobody can write to it any more; or a line is too
\* long, or the extension closed its end.
ReadEnds ==
    /\ rpc = "read" /\ (alive \/ toHost = <<>>)
    /\ rpc' = "exit" /\ readDone' = TRUE
    /\ UNCHANGED <<callVars, pending, streamVars, deltaChans, toExt, toHost, rid, later,
                   stopVars, alive, hung, extVars>>

\* closeOnce.Do(close(h.closed)); while Stop is in its own it waits.
ReaderCloses ==
    /\ rpc = "exit" /\ (once = None \/ stopPc = "done")
    /\ once' = IF once = None THEN "reader" ELSE once
    /\ closed' = TRUE /\ rpc' = "ended"
    /\ UNCHANGED <<callVars, pending, streamVars, deltaChans, toExt, toHost, rid,
                   later, readDone, stdinClosed, stopPc, alive, hung, extVars>>

LateAnswers == \E c \in Callers : AnswerLater(c)
ReadLoop == \/ ReadResponse \/ ReadDelta \/ ReadAsk \/ ReadCancel \/ Respond
            \/ (ReadEnds /\ ~alive) \/ ReaderCloses

-----------------------------------------------------------------------------
(* Stop                                                                     *)

StopGoes(a, b) == stopPc = a /\ stopPc' = b
StopUnchanged == UNCHANGED <<callVars, pending, streamVars, deltaChans, toHost,
                             readVars, hung, extVars>>

\* closeOnce, if the reader has not had it: nothing is done otherwise.
StopBegins ==
    /\ StopGoes("idle", IF once = None THEN "shutdown" ELSE "done")
    /\ once' = IF once = None THEN "stop" ELSE once
    /\ UNCHANGED <<toExt, stdinClosed, closed, alive>> /\ StopUnchanged

StopSends ==
    /\ StopGoes("shutdown", "stdin")
    /\ Write(Msg("shutdown", None)) \/ WriteFails
    /\ UNCHANGED <<stdinClosed, closed, once, alive>> /\ StopUnchanged

StopClosesStdin ==
    /\ StopGoes("stdin", "wait") /\ stdinClosed' = TRUE
    /\ UNCHANGED <<toExt, closed, once, alive>> /\ StopUnchanged

\* <-exited, within the 200 ms or after the kill
StopSeesExit ==
    /\ stopPc \in {"wait", "kill"} /\ ~alive /\ stopPc' = "read"
    /\ UNCHANGED <<toExt, stdinClosed, closed, once, alive>> /\ StopUnchanged

\* The timer: Process.Kill.
StopKills ==
    /\ StopGoes("wait", "kill") /\ alive' = FALSE
    /\ UNCHANGED <<toExt, stdinClosed, closed, once>> /\ StopUnchanged

\* <-h.readDone, then close(h.closed)
StopCloses ==
    /\ StopGoes("read", "done") /\ readDone /\ closed' = TRUE
    /\ UNCHANGED <<toExt, stdinClosed, once, alive>> /\ StopUnchanged

Stopper == \/ StopSends \/ StopClosesStdin \/ StopSeesExit \/ StopKills
           \/ StopCloses

-----------------------------------------------------------------------------
(* The extension: sdk/run.go, handlers.go, rpc.go.                          *)

Awake == alive /\ ~hung
ExtWrites(m) == Len(toHost) < PipeCap /\ toHost' = Append(toHost, m)
HandlerGoes(c, l) == hpc' = [hpc EXCEPT ![c] = l]
HostUnchanged == UNCHANGED <<callVars, pending, streamVars, deltaChans, readVars,
                             stopVars>>

\* Mutation: the read loop handles requests itself, one after the other.
ExtReadsInline ==
    /\ Awake /\ toExt # <<>> /\ toExt' = Tail(toExt)
    /\ \A c \in Callers : hpc[c] \in {"none", "ended"}
    /\ LET m == Head(toExt) IN
       CASE m.type = "request" ->
              HandlerGoes(m.id, "spawned") /\ UNCHANGED <<cancels, cancelled>>
         [] m.type = "cancel" /\ m.id \in cancels ->
              /\ cancelled' = cancelled \cup {m.id} /\ cancels' = cancels \ {m.id}
              /\ UNCHANGED hpc
         [] m.type = "answer" /\ hpc[m.id] = "asked" ->
              HandlerGoes(m.id, "woken") /\ UNCHANGED <<cancels, cancelled>>
         [] OTHER -> UNCHANGED <<hpc, cancels, cancelled>>
    /\ UNCHANGED <<toHost, alive, hung, sent>> /\ HostUnchanged

\* The read loop: a request gets a goroutine; a cancellation reaches a
\* handler that has made its context and is lost on any other; an answer
\* goes to the channel of the handler that has not given it up; shutdown
\* has no id and is passed over.
ExtReads ==
    /\ Awake /\ toExt # <<>> /\ toExt' = Tail(toExt)
    /\ LET m == Head(toExt) IN
       CASE m.type = "request" ->
              HandlerGoes(m.id, "spawned") /\ UNCHANGED <<cancels, cancelled>>
         [] m.type = "cancel" /\ m.id \in cancels ->
              /\ cancelled' = cancelled \cup {m.id} /\ cancels' = cancels \ {m.id}
              /\ UNCHANGED hpc
         [] m.type = "answer" /\ hpc[m.id] = "asked" ->
              HandlerGoes(m.id, "woken") /\ UNCHANGED <<cancels, cancelled>>
         [] OTHER -> UNCHANGED <<hpc, cancels, cancelled>>
    /\ UNCHANGED <<toHost, alive, hung, sent>> /\ HostUnchanged

\* requestCtx; the handler will call back, or starts to work.
Handle(c) ==
    /\ Awake /\ hpc[c] = "spawned"
    /\ cancels' = cancels \cup {c}
    /\ HandlerGoes(c, IF c \in Asks THEN "asks" ELSE "running")
    /\ UNCHANGED <<toExt, toHost, alive, hung, cancelled, sent>> /\ HostUnchanged

\* The handler writes its own request, then waits for the answer.
Ask(c) ==
    /\ Awake /\ hpc[c] = "asks"
    /\ ExtWrites(Msg("ask", c)) /\ HandlerGoes(c, "asked")
    /\ UNCHANGED <<toExt, alive, hung, cancels, cancelled, sent>> /\ HostUnchanged

\* <-ch
TakeAnswer(c) ==
    /\ Awake /\ hpc[c] = "woken" /\ HandlerGoes(c, "running")
    /\ UNCHANGED <<toExt, toHost, alive, hung, cancels, cancelled, sent>>
    /\ HostUnchanged

\* <-ctx.Done(), also when the answer is there: the handler takes its entry
\* away, then tells the host, which has nothing to cancel.  The 50 ms of
\* grace only get it an answer that the channel already holds.
AskAborts(c) ==
    /\ Awake /\ hpc[c] \in {"asked", "woken"} /\ c \in cancelled
    /\ HandlerGoes(c, "aborts")
    /\ UNCHANGED <<toExt, toHost, alive, hung, cancels, cancelled, sent>>
    /\ HostUnchanged

AskCancels(c) ==
    /\ Awake /\ hpc[c] = "aborts"
    /\ ExtWrites(Msg("cancel", c)) /\ HandlerGoes(c, "running")
    /\ UNCHANGED <<toExt, alive, hung, cancels, cancelled, sent>> /\ HostUnchanged

SendDelta(c) ==
    /\ Awake /\ hpc[c] = "running" /\ c \in Streams /\ sent[c] < MaxDeltas
    /\ ExtWrites([type |-> "delta", id |-> c, n |-> sent[c] + 1])
    /\ sent' = [sent EXCEPT ![c] = @ + 1]
    /\ UNCHANGED <<toExt, alive, hung, hpc, cancels, cancelled>> /\ HostUnchanged

\* sendResponse or sendError, then the deferred cleanup of the context.
Answer(c) ==
    /\ Awake /\ hpc[c] = "running"
    /\ ExtWrites(Msg("response", c)) /\ HandlerGoes(c, "ended")
    /\ cancels' = cancels \ {c}
    /\ UNCHANGED <<toExt, alive, hung, cancelled, sent>> /\ HostUnchanged

\* The input ends: Run returns and the process leaves.
ExtLeaves ==
    /\ Awake /\ stdinClosed /\ toExt = <<>> /\ alive' = FALSE
    /\ UNCHANGED <<toExt, toHost, hung, extVars>> /\ HostUnchanged

Extension == \/ ExtReads \/ ExtLeaves
             \/ \E c \in Callers : \/ Handle(c) \/ Ask(c) \/ TakeAnswer(c)
                                  \/ AskAborts(c) \/ AskCancels(c) \/ Answer(c)

ExtDies ==
    /\ alive /\ alive' = FALSE
    /\ UNCHANGED <<toExt, toHost, hung, extVars>> /\ HostUnchanged

ExtHangs ==
    /\ Awake /\ hung' = TRUE
    /\ UNCHANGED <<toExt, toHost, alive, extVars>> /\ HostUnchanged
-----------------------------------------------------------------------------
Next ==
    \/ \E c \in Callers : Call(c) \/ ContextEnds(c) \/ Request(c)
    \/ \E c \in Streams : StreamStart(c) \/ Stream(c)
    \/ \E c \in Streams : SendDelta(c)
    \/ ReadLoop \/ ReadEnds \/ LateAnswers
    \/ StopBegins \/ Stopper
    \/ Extension \/ ExtDies \/ ExtHangs

\* Every goroutine runs and a handler answers in the end, unless the process
\* hangs; nobody has to call, cancel, stop or fail, and what the extension
\* asked for may never come (a dialog nobody closes, an agent that is never
\* idle, a tool that ignores its time limit).  Every step uses up
\* something there is a bounded amount of, so weak fairness of them all
\* together is weak fairness of each: behaviours end, and end only where no
\* goroutine can go on.
Fairness == WF_vars(\/ \E c \in Callers : Request(c)
                    \/ \E c \in Streams : Stream(c)
                    \/ ReadLoop \/ Stopper \/ Extension)

Spec == Init /\ [][Next]_vars /\ Fairness

-----------------------------------------------------------------------------
(* Properties.                                                              *)

\* A hung extension whose pipe is full makes every writer wait.
Blocked == hung /\ alive /\ Full

\* A request returns: with its response when the extension works, although
\* its handler calls back while readers and writers wait for each other's
\* pipes, and after a cancellation, a crash or Stop whatever it does; only
\* a hung extension or an answer that a tool or a dialog of the host owes it
\* keeps a caller that nobody cancels, and a full pipe that nobody reads one
\* that must write (request, readLoop, Run).
RequestsReturn == \A c \in Callers :
    cpc[c] # "idle" ~> \/ cpc[c] = "returned"
                       \/ (hung \/ c \in later) /\ alive /\ ~ctxDone[c]
                       \/ Blocked

\* Stop ends: also when the extension ignores the end of its input, when it
\* has died, and when the reader is closing the host at the same time; only
\* a full pipe that nobody reads holds it up (Stop, readLoop).
HostStopEnds == stopPc # "idle" ~> stopPc = "done" \/ Blocked

\* When a caller has returned, however it did, neither table has an entry
\* for it; nor is there a response for it that nobody will ever take, unless
\* its context ended or the host closed meanwhile (request, releaseDeltaChan).
NothingLeft ==
    /\ \A c \in Callers : cpc[c] = "returned" =>
         /\ c \notin pending
         /\ c \in answered => result[c] \in {"ctx", "closed"}
    /\ \A c \in Streams : spc[c] = "finished" => c \notin deltaChans

\* A stream forwards deltas in the order they were sent, none twice, and one
\* that ends with its message has forwarded every delta the extension sent
\* before it, but for those that met a full channel (stream, drainDeltas,
\* readLoop).
StreamComplete == \A c \in Streams :
    /\ \A i, j \in 1..Len(out[c]) : i < j => out[c][i] < out[c][j]
    /\ final[c] = "done" =>
         {out[c][i] : i \in 1..Len(out[c])} = (1..sent[c]) \ dropped[c]
=============================================================================
