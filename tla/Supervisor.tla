---------------------------- MODULE Supervisor ----------------------------
(***************************************************************************)
(* The supervisors of the external extensions (ext/external/supervisor.go, *)
(* watcher.go), loaded by LoadAll (bridge.go), and the tables of ext.App   *)
(* they share (ext/registry.go, ext/unregister.go).                        *)
(*                                                                         *)
(* Each extension has a goroutine, watch, that restarts its process after  *)
(* a crash and replaces it when the watcher of its directory asks for a    *)
(* reload; Stop may come at any moment of a restart.  A host, one process  *)
(* with its pipes, is only what a supervisor sees of it: HostRpc models    *)
(* the inside.  Time is left out: a timer may fire at any moment, and      *)
(* whether a crashed host had been up long enough to be called stable is   *)
(* a choice.                                                               *)
(***************************************************************************)
EXTENDS Naturals, Sequences, FiniteSets

CONSTANTS
    Exts,         \* the extensions LoadAll found
    Tools,        \* names of tools
    Declares,     \* Declares[e][v]: the tools that version v of the files of e
                  \* registers in the handshake
    None,         \* no host, no entry
    Builtin,      \* the owner of a tool that was compiled in
    MaxRestarts,  \* maxRestarts, 5 in the code
    MaxFaults,    \* bound: failures of processes and of their starts
    MaxChanges    \* bound: changes of the files of one extension

\* What an entry of the App's tables points at: a host of an extension.
Entry == [ext : Exts, host : Nat]

ASSUME SupervisorAssumption ==
    /\ IsFiniteSet(Exts) /\ IsFiniteSet(Tools)
    /\ Exts \subseteq DOMAIN Declares
    /\ \A e \in Exts, v \in 0..MaxChanges : Declares[e][v] \subseteq Tools
    /\ MaxRestarts \in Nat /\ MaxFaults \in Nat /\ MaxChanges \in Nat
    /\ None \notin Entry /\ Builtin \notin Entry
    /\ \A S \in SUBSET Tools : S # None

VARIABLES
    pc,        \* where LoadAll's goroutine, then watch, of an extension is
    hosts,     \* every Host made for an extension, oldest first, also those
               \* whose start failed
    cur,       \* Supervisor.host: an index of hosts[e], or 0 for nil
    seen,      \* watch's local h
    crash,     \* watch's local crash
    failures,  \* watch's local failures
    reloadCh,  \* Supervisor.reloadCh holds a signal
    stopped,   \* Supervisor.stopped is closed
    stopping,  \* where the caller of Supervisor.Stop is
    taken,     \* the host it took
    todo,      \* the tools bridge still has to register
    tools,     \* App.tools: who serves a name
    hooks,     \* App.messageHooks, and the other lists entries are added to
    infos,     \* App.extInfos, the tools recorded there
    disk,      \* the version of the extension's files
    armed,     \* Watcher.loop's debounce timer runs
    noticed,   \* history: the newest version the watcher was told about
    ctxDone,   \* the program's context is cancelled
    watching,  \* the watcher: "off", then "on", then "stopped"
    faults     \* how many failures there were

loopVars == <<seen, crash, failures>>
appVars  == <<tools, hooks, infos>>
diskVars == <<disk, armed, noticed, watching>>
stopVars == <<stopped, stopping, taken>>
vars == <<pc, hosts, cur, loopVars, reloadCh, stopVars, todo, appVars,
          diskVars, ctxDone, faults>>

HostState == [proc : {"none", "starting", "up", "dead"}, closed : BOOLEAN,
              version : 0..MaxChanges]

LoadPcs == {"load", "loadHandshake", "loadInstall", "loadBridge"}
EndPcs  == {"absent", "gaveUp", "ended"}
Pcs == LoadPcs \cup EndPcs \cup
       {"watch", "select", "stopOld", "unregister", "backoff", "restart",
        "handshake", "install", "bridge"}

TypeOK ==
    /\ pc \in [Exts -> Pcs]
    /\ hosts \in [Exts -> Seq(HostState)]
    /\ cur \in [Exts -> Nat] /\ seen \in [Exts -> Nat]
    /\ \A e \in Exts : cur[e] <= Len(hosts[e]) /\ seen[e] <= Len(hosts[e])
    /\ crash \in [Exts -> BOOLEAN]
    /\ failures \in [Exts -> 0..(MaxRestarts + 1)]
    /\ reloadCh \in [Exts -> BOOLEAN] /\ stopped \in [Exts -> BOOLEAN]
    /\ stopping \in [Exts -> {"no", "take", "kill", "done"}]
    /\ taken \in [Exts -> Nat]
    /\ \A e \in Exts : taken[e] <= Len(hosts[e])
    /\ todo \in [Exts -> SUBSET Tools]
    /\ tools \in [Tools -> Entry \cup {None, Builtin}]
    /\ hooks \in SUBSET Entry
    /\ infos \in [Exts -> {None} \cup SUBSET Tools]
    /\ disk \in [Exts -> 0..MaxChanges] /\ noticed \in [Exts -> 0..MaxChanges]
    /\ armed \in [Exts -> BOOLEAN] /\ ctxDone \in BOOLEAN
    /\ watching \in {"off", "on", "stopped"} /\ faults \in 0..MaxFaults

Init ==
    /\ pc = [e \in Exts |-> "load"] /\ hosts = [e \in Exts |-> <<>>]
    /\ cur = [e \in Exts |-> 0] /\ seen = [e \in Exts |-> 0]
    /\ crash = [e \in Exts |-> FALSE] /\ failures = [e \in Exts |-> 0]
    /\ reloadCh = [e \in Exts |-> FALSE] /\ stopped = [e \in Exts |-> FALSE]
    /\ stopping = [e \in Exts |-> "no"] /\ taken = [e \in Exts |-> 0]
    /\ todo = [e \in Exts |-> {}]
    /\ tools \in [Tools -> {None, Builtin}] /\ hooks = {}
    /\ infos = [e \in Exts |-> None]
    /\ disk = [e \in Exts |-> 0] /\ noticed = [e \in Exts |-> 0]
    /\ armed = [e \in Exts |-> FALSE] /\ ctxDone = FALSE
    /\ watching = "off" /\ faults = 0

Goto(e, l) == pc' = [pc EXCEPT ![e] = l]
Loading(e) == pc[e] \in LoadPcs
Newest(e) == Len(hosts[e])
Entries(e) == {[ext |-> e, host |-> n] : n \in 1..Newest(e)}
EntryOf(e) == [ext |-> e, host |-> Newest(e)]
Declared(e) == Declares[e][hosts[e][Newest(e)].version]
FaultHappens == faults < MaxFaults /\ faults' = faults + 1

-----------------------------------------------------------------------------
(* Starting a host: Supervisor.Start while loading, restart afterwards.     *)

\* Host.Start spawns the process from the files that are on disk now.
Spawn(e) ==
    /\ pc[e] \in {"load", "restart"} /\ ~ctxDone
    /\ hosts' = [hosts EXCEPT ![e] = Append(@,
         [proc |-> "starting", closed |-> FALSE, version |-> disk[e]])]
    /\ Goto(e, IF Loading(e) THEN "loadHandshake" ELSE "handshake")
    /\ UNCHANGED <<cur, loopVars, reloadCh, stopVars, todo, appVars,
                   diskVars, ctxDone, faults>>

\* An error of Start: LoadAll drops the supervisor; watch sets host to nil.
StartFailed(e) ==
    IF Loading(e) THEN Goto(e, "absent") /\ UNCHANGED cur
    ELSE Goto(e, "watch") /\ cur' = [cur EXCEPT ![e] = 0]

\* The process cannot be spawned, or the context forbids it; the attempt is
\* kept as a host without a process.
SpawnFails(e) ==
    /\ pc[e] \in {"load", "restart"}
    /\ FaultHappens \/ (ctxDone /\ UNCHANGED faults)
    /\ hosts' = [hosts EXCEPT ![e] = Append(@,
         [proc |-> "none", closed |-> FALSE, version |-> disk[e]])]
    /\ StartFailed(e)
    /\ UNCHANGED <<loopVars, reloadCh, stopVars, todo, appVars,
                   diskVars, ctxDone>>

\* The answer to "initialize" arrives.
Initialized(e) ==
    /\ pc[e] \in {"loadHandshake", "handshake"}
    /\ hosts[e][Newest(e)].proc # "dead"
    /\ hosts' = [hosts EXCEPT ![e][Newest(e)].proc = "up"]
    /\ Goto(e, IF Loading(e) THEN "loadInstall" ELSE "install")
    /\ UNCHANGED <<cur, loopVars, reloadCh, stopVars, todo, appVars,
                   diskVars, ctxDone, faults>>

\* It does not, in ten seconds or at all; Start stops the host and fails.
InitFails(e) ==
    LET n == Newest(e) IN
    /\ pc[e] \in {"loadHandshake", "handshake"}
    /\ \/ hosts[e][n].closed /\ UNCHANGED faults
       \/ ctxDone /\ UNCHANGED faults
       \/ FaultHappens
    /\ hosts' = [hosts EXCEPT ![e][n].proc =
                     IF hosts[e][n].closed THEN @ ELSE "dead",
                   ![e][n].closed = TRUE]
    /\ StartFailed(e)
    /\ UNCHANGED <<loopVars, reloadCh, stopVars, todo, appVars,
                   diskVars, ctxDone>>

\* s.host = newHost, under the lock; nothing asks whether Stop came first.
Install(e) ==
    /\ pc[e] \in {"loadInstall", "install"}
    /\ cur' = [cur EXCEPT ![e] = Newest(e)]
    /\ todo' = [todo EXCEPT ![e] = Declared(e)]
    /\ Goto(e, IF Loading(e) THEN "loadBridge" ELSE "bridge")
    /\ UNCHANGED <<hosts, loopVars, reloadCh, stopVars, appVars,
                   diskVars, ctxDone, faults>>

\* RegisterTool: the later registration of a name overwrites the earlier.
BridgeTool(e, t) ==
    /\ pc[e] \in {"loadBridge", "bridge"} /\ t \in todo[e]
    /\ tools' = [tools EXCEPT ![t] = EntryOf(e)]
    /\ todo' = [todo EXCEPT ![e] = @ \ {t}]
    /\ UNCHANGED <<pc, hosts, cur, loopVars, reloadCh, stopVars, hooks,
                   infos, diskVars, ctxDone, faults>>

\* Mutation: the record is written first and the entries are not in it.
BridgeRestUnrecorded(e) ==
    /\ pc[e] \in {"loadBridge", "bridge"} /\ todo[e] = {}
    /\ hooks' = hooks \cup {EntryOf(e)}
    /\ infos' = [infos EXCEPT ![e] = {}]
    /\ Goto(e, "watch")
    /\ UNCHANGED <<hosts, cur, loopVars, reloadCh, stopVars, todo,
                   tools, diskVars, ctxDone, faults>>

\* The lists, then the record UnregisterExtension works from; back to watch.
BridgeRest(e) ==
    /\ pc[e] \in {"loadBridge", "bridge"} /\ todo[e] = {}
    /\ hooks' = hooks \cup {EntryOf(e)}
    /\ infos' = [infos EXCEPT ![e] = Declared(e)]
    /\ Goto(e, "watch")
    /\ UNCHANGED <<hosts, cur, loopVars, reloadCh, stopVars, todo,
                   tools, diskVars, ctxDone, faults>>

-----------------------------------------------------------------------------
(* watch.                                                                   *)

\* h := s.host, under the lock.
WatchRead(e) ==
    /\ pc[e] = "watch"
    /\ seen' = [seen EXCEPT ![e] = cur[e]]
    /\ Goto(e, "select")
    /\ UNCHANGED <<hosts, cur, crash, failures, reloadCh, stopVars, todo,
                   appVars, diskVars, ctxDone, faults>>

\* <-h.Closed(), and Stop was not called: a crash.  The sixth in a row ends
\* the watch before anything is unregistered.
SelectClosed(e) ==
    /\ pc[e] = "select" /\ seen[e] # 0
    /\ hosts[e][seen[e]].closed /\ ~stopped[e]
    /\ \E stable \in BOOLEAN :
         LET f == IF stable THEN 1 ELSE failures[e] + 1 IN
         /\ failures' = [failures EXCEPT ![e] = f]
         /\ Goto(e, IF f > MaxRestarts THEN "gaveUp" ELSE "unregister")
    /\ crash' = [crash EXCEPT ![e] = TRUE]
    /\ UNCHANGED <<hosts, cur, seen, reloadCh, stopVars, todo, appVars,
                   diskVars, ctxDone, faults>>

\* <-s.reloadCh; without a host nothing is reset and nothing stopped.
SelectReload(e) ==
    /\ pc[e] = "select" /\ reloadCh[e]
    /\ reloadCh' = [reloadCh EXCEPT ![e] = FALSE]
    /\ crash' = [crash EXCEPT ![e] = FALSE]
    /\ cur' = [cur EXCEPT ![e] = 0]
    /\ Goto(e, IF seen[e] = 0 THEN "unregister" ELSE "stopOld")
    /\ UNCHANGED <<hosts, seen, failures, stopVars, todo, appVars,
                   diskVars, ctxDone, faults>>

\* Mutation: without a host, watch waits for a reload only.
SelectEndWithHost(e) ==
    /\ pc[e] \in {"select", "backoff"} /\ (stopped[e] \/ ctxDone) /\ seen[e] # 0
    /\ Goto(e, "ended")
    /\ UNCHANGED <<hosts, cur, loopVars, reloadCh, stopVars, todo, appVars, diskVars,
                   ctxDone, faults>>

\* <-s.stopped, also when the closed host was noticed first, or <-ctx.Done().
SelectEnd(e) ==
    /\ pc[e] \in {"select", "backoff"} /\ (stopped[e] \/ ctxDone)
    /\ Goto(e, "ended")
    /\ UNCHANGED <<hosts, cur, loopVars, reloadCh, stopVars, todo, appVars,
                   diskVars, ctxDone, faults>>

\* Host.Stop: kills the process and closes the host, unless the end of
\* readLoop has closed it already: then it does nothing.
HostStopped(e, n) ==
    hosts' = [hosts EXCEPT ![e][n] =
                IF @.closed THEN @ ELSE [@ EXCEPT !.proc = "dead", !.closed = TRUE]]

\* Mutation: the old process is told to stop and not waited for.
StopOldNoWait(e) ==
    /\ pc[e] = "stopOld" /\ UNCHANGED hosts
    /\ failures' = [failures EXCEPT ![e] = 0]
    /\ Goto(e, "unregister")
    /\ UNCHANGED <<cur, seen, crash, reloadCh, stopVars, todo, appVars,
                   diskVars, ctxDone, faults>>

\* h.Stop() of a reload, which takes as long as the process does.
StopOld(e) ==
    /\ pc[e] = "stopOld" /\ HostStopped(e, seen[e])
    /\ failures' = [failures EXCEPT ![e] = 0]
    /\ Goto(e, "unregister")
    /\ UNCHANGED <<cur, seen, crash, reloadCh, stopVars, todo, appVars,
                   diskVars, ctxDone, faults>>

\* UnregisterExtension: whatever is registered under the names e recorded,
\* whoever serves it by now; nothing if e has no record.
Unregister(e) ==
    /\ pc[e] = "unregister"
    /\ IF infos[e] = None THEN UNCHANGED appVars
       ELSE /\ tools' = [t \in Tools |-> IF t \in infos[e] THEN None ELSE tools[t]]
            /\ hooks' = hooks \ Entries(e)
            /\ infos' = [infos EXCEPT ![e] = None]
    /\ Goto(e, IF crash[e] THEN "backoff" ELSE "restart")
    /\ UNCHANGED <<hosts, cur, loopVars, reloadCh, stopVars, todo,
                   diskVars, ctxDone, faults>>

\* The back-off is over.
BackoffOver(e) ==
    /\ pc[e] = "backoff" /\ Goto(e, "restart")
    /\ UNCHANGED <<hosts, cur, loopVars, reloadCh, stopVars, todo, appVars,
                   diskVars, ctxDone, faults>>

Watch(e) == \/ Spawn(e) \/ SpawnFails(e) \/ Initialized(e) \/ InitFails(e)
            \/ Install(e) \/ BridgeRest(e)
            \/ \E t \in Tools : BridgeTool(e, t)
            \/ WatchRead(e) \/ SelectClosed(e) \/ SelectReload(e) \/ SelectEnd(e)
            \/ StopOld(e) \/ Unregister(e) \/ BackoffOver(e)

-----------------------------------------------------------------------------
(* Supervisor.Stop, called by the cleanup function LoadAll returned.        *)

\* watcher.Stop, which first of all ends the timers.
WatcherStop ==
    /\ watching = "on" /\ watching' = "stopped"
    /\ armed' = [e \in Exts |-> FALSE]
    /\ UNCHANGED <<pc, hosts, cur, loopVars, reloadCh, stopVars, todo,
                   appVars, disk, noticed, ctxDone, faults>>

\* close(s.stopped)
StopCloses(e) ==
    /\ watching = "stopped" /\ stopping[e] = "no" /\ pc[e] # "absent"
    /\ stopped' = [stopped EXCEPT ![e] = TRUE]
    /\ stopping' = [stopping EXCEPT ![e] = "take"]
    /\ UNCHANGED <<pc, hosts, cur, loopVars, reloadCh, taken, todo, appVars, diskVars,
                   ctxDone, faults>>

\* h := s.host; s.host = nil, under the lock.
StopTakes(e) ==
    /\ stopping[e] = "take"
    /\ stopping' = [stopping EXCEPT ![e] = "kill"]
    /\ taken' = [taken EXCEPT ![e] = cur[e]]
    /\ cur' = [cur EXCEPT ![e] = 0]
    /\ UNCHANGED <<pc, hosts, loopVars, reloadCh, stopped, todo, appVars, diskVars,
                   ctxDone, faults>>

\* h.Stop(), if there was a host.
StopReturns(e) ==
    /\ stopping[e] = "kill"
    /\ IF taken[e] = 0 THEN UNCHANGED hosts ELSE HostStopped(e, taken[e])
    /\ stopping' = [stopping EXCEPT ![e] = "done"]
    /\ UNCHANGED <<pc, cur, loopVars, reloadCh, stopped, taken, todo, appVars, diskVars,
                   ctxDone, faults>>

-----------------------------------------------------------------------------
(* The watcher of the extensions' directories, and the processes.           *)

\* LoadAll returns when every extension has started or failed.
WatcherStart ==
    /\ watching = "off" /\ \A e \in Exts : ~Loading(e)
    /\ watching' = "on"
    /\ UNCHANGED <<pc, hosts, cur, loopVars, reloadCh, stopVars, todo,
                   appVars, disk, armed, noticed, ctxDone, faults>>

\* A file changes; the running watcher of a started extension (re)sets its
\* timer.
FileChange(e) ==
    /\ \A f \in Exts \ {e} : disk[f] = 0
    /\ disk[e] < MaxChanges
    /\ disk' = [disk EXCEPT ![e] = @ + 1]
    /\ IF watching = "on" /\ pc[e] # "absent"
       THEN /\ armed' = [armed EXCEPT ![e] = TRUE]
            /\ noticed' = [noticed EXCEPT ![e] = disk[e] + 1]
       ELSE UNCHANGED <<armed, noticed>>
    /\ UNCHANGED <<pc, hosts, cur, loopVars, reloadCh, stopVars, todo,
                   appVars, watching, ctxDone, faults>>

\* Mutation: the signal is dropped unless watch waits for it just then.
ReloadUnbuffered(e) ==
    /\ armed[e]
    /\ armed' = [armed EXCEPT ![e] = FALSE]
    /\ reloadCh' = [reloadCh EXCEPT ![e] = (pc[e] = "select")]
    /\ UNCHANGED <<pc, hosts, cur, loopVars, stopVars, todo, appVars, disk,
                   noticed, watching, ctxDone, faults>>

\* Supervisor.Reload, called by the timer: no effect on a pending signal.
Reload(e) ==
    /\ armed[e]
    /\ armed' = [armed EXCEPT ![e] = FALSE]
    /\ reloadCh' = [reloadCh EXCEPT ![e] = TRUE]
    /\ UNCHANGED <<pc, hosts, cur, loopVars, stopVars, todo, appVars, disk,
                   noticed, watching, ctxDone, faults>>

\* A process dies by itself, or because exec.CommandContext kills it.
ProcessDies(e, n) ==
    /\ hosts[e][n].proc \in {"starting", "up"}
    /\ FaultHappens \/ (ctxDone /\ UNCHANGED faults)
    /\ hosts' = [hosts EXCEPT ![e][n].proc = "dead"]
    /\ UNCHANGED <<pc, cur, loopVars, reloadCh, stopVars, todo, appVars,
                   diskVars, ctxDone>>

\* readLoop ends and closes the host, as it must when the process is dead,
\* and may while it lives: a line of more than 4 MB, a closed descriptor.
ReadLoopEnds(e, n) ==
    /\ ~hosts[e][n].closed /\ hosts[e][n].proc # "none"
    /\ IF hosts[e][n].proc = "dead" THEN UNCHANGED faults ELSE FaultHappens
    /\ hosts' = [hosts EXCEPT ![e][n].closed = TRUE]
    /\ UNCHANGED <<pc, cur, loopVars, reloadCh, stopVars, todo, appVars,
                   diskVars, ctxDone>>

\* The user interrupts the program.
ContextEnds ==
    /\ ~ctxDone /\ ctxDone' = TRUE
    /\ UNCHANGED <<pc, hosts, cur, loopVars, reloadCh, stopVars, todo,
                   appVars, diskVars, faults>>

-----------------------------------------------------------------------------
Process(e) == \E n \in 1..Newest(e) : ProcessDies(e, n) \/ ReadLoopEnds(e, n)

Next ==
    \/ \E e \in Exts : Watch(e)
    \/ \E e \in Exts : StopCloses(e) \/ StopTakes(e) \/ StopReturns(e)
    \/ \E e \in Exts : FileChange(e) \/ Reload(e)
    \/ \E e \in Exts : Process(e)
    \/ WatcherStart
    \/ WatcherStop
    \/ ContextEnds

\* Goroutines run, timers fire, a handshake ends within ten seconds and the
\* end of a process reaches the reader of its pipe.  Nobody has to change a
\* file, to stop anything, or to fail.  Behaviours end, because faults and
\* changes are bounded, so weak fairness of these steps together is weak
\* fairness of each.
NoticesDeath(e) == \E n \in 1..Newest(e) :
                      hosts[e][n].proc = "dead" /\ ReadLoopEnds(e, n)
Fairness == WF_vars(\/ \E e \in Exts : \/ Watch(e) \/ Reload(e) \/ NoticesDeath(e)
                                        \/ StopCloses(e) \/ StopTakes(e)
                                        \/ StopReturns(e)
                    \/ WatcherStart)

Spec == Init /\ [][Next]_vars /\ Fairness

-----------------------------------------------------------------------------
(* Properties.                                                              *)

DeclaredEver(e) == UNION {Declares[e][v] : v \in 0..MaxChanges}
Registered(e) == {n \in 1..Newest(e) :
                    LET x == [ext |-> e, host |-> n] IN
                    x \in hooks \/ \E t \in Tools : tools[t] = x}

\* Whatever is registered for an extension belongs to its newest host, and
\* there is nothing from the moment a crash or a reload was dealt with until
\* the new host is installed, nor when no host could be started; a host that
\* is installed has all entries that its version of the files declares, once
\* each, but for the names another extension registers too, in some version
\* of its own (bridge, UnregisterExtension, watch).
RegistrationsCurrent == \A e \in Exts :
    /\ Registered(e) \subseteq {Newest(e)}
    /\ pc[e] \in {"backoff", "restart", "handshake", "install"}
          => Registered(e) = {}
    /\ pc[e] \in {"watch", "select"} /\ ~stopped[e]
          => IF cur[e] = 0 THEN Registered(e) = {}
             ELSE /\ EntryOf(e) \in hooks
                  /\ \A t \in Declared(e) : \/ tools[t] = EntryOf(e)
                       \/ \E f \in Exts \ {e} : t \in DeclaredEver(f)

\* Two processes of one extension never serve the program together, in
\* whatever order crashes, reloads and Stop come: before the new one is
\* spawned the old one is gone, has lost its connection, or is the one Stop
\* took and is killing (watch, Host.Stop).
Serving(e) == {n \in 1..Newest(e) : hosts[e][n].proc \in {"starting", "up"}
                                     /\ ~hosts[e][n].closed}
OneProcess == \A e \in Exts :
    Cardinality(IF stopping[e] = "kill" THEN Serving(e) \ {taken[e]}
                ELSE Serving(e)) <= 1

\* A version of the files the watcher was told about is not missed: in the end
\* a start of it, or of a later one, is attempted, also when the change comes
\* during a restart or another reload, unless the supervisor gave up or the
\* program ends (Reload's buffer of one, watch).  An attempt that fails is not
\* repeated: the supervisor has no host then, until the next change.
Outdated(e) == noticed[e] > (IF hosts[e] = <<>> THEN 0 ELSE hosts[e][Newest(e)].version)
NewestRuns == \A e \in Exts :
    Outdated(e) ~> ~Outdated(e) \/ pc[e] = "gaveUp" \/ watching = "stopped" \/ ctxDone

\* After Stop the goroutine of watch ends, from every stage of a restart and
\* with a reload still pending.
StopEndsWatch == \A e \in Exts : stopped[e] ~> pc[e] \in EndPcs
=============================================================================
