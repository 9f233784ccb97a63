------------------------- MODULE Supervisor_proofs -------------------------
(***************************************************************************)
(* Proofs about Supervisor, for any set of extensions, whatever tools they *)
(* declare and share, and any number of restarts, failures and changes.    *)
(***************************************************************************)
EXTENDS Supervisor, SequenceTheorems, FiniteSetTheorems, TLAPS

\* The failures that were counted, but for the one that ended the watch.
Counted(e) == failures[e] = MaxRestarts + 1 => pc[e] = "gaveUp"

\* There is a host from the first start on.
Started(e) == Newest(e) = 0 <=> pc[e] = "load"

\* A host serves no more, or Stop has taken it and is killing it.
Live(h) == h.proc \in {"starting", "up"} /\ ~h.closed
Gone(e, n) == Live(hosts[e][n]) => stopping[e] = "kill" /\ taken[e] = n
OlderGone(e) == \A n \in 1..(Newest(e) - 1) : Gone(e, n)
AllGone(e) == \A n \in 1..Newest(e) : Gone(e, n)

\* A supervisor without a host, or that is about to start one, has none.
Hostless(e) ==
    \/ pc[e] \in {"load", "unregister", "backoff", "restart"}
    \/ pc[e] \in {"loadBridge", "bridge", "watch"} /\ cur[e] = 0
    \/ pc[e] = "select" /\ seen[e] = 0
HostsGone(e) == OlderGone(e) /\ (Hostless(e) => AllGone(e))

\* Supervisor.host, and the local that watch compares it with.
HostsKnown(e) ==
    /\ pc[e] \in {"loadBridge", "bridge", "watch", "select"} => cur[e] \in {0, Newest(e)}
    /\ pc[e] = "select" => seen[e] \in {0, Newest(e)}
    /\ pc[e] = "stopOld" => seen[e] = Newest(e)
    /\ stopping[e] # "no" => stopped[e]

ProcessInv(e) == Counted(e) /\ Started(e) /\ HostsGone(e) /\ HostsKnown(e)

\* An entry belongs to the newest host of its extension, which declared it.
Hooked(e) == \E x \in hooks : x.ext = e
Serves(e) == \E t \in Tools : tools[t] \in Entry /\ tools[t].ext = e
EntriesCurrent ==
    /\ \A x \in hooks : x.host = Newest(x.ext)
    /\ \A t \in Tools : tools[t] \in Entry =>
         /\ tools[t].host = Newest(tools[t].ext)
         /\ t \in Declared(tools[t].ext)
NoneLeft(e) == ~Hooked(e) /\ ~Serves(e)

\* A tool of e is served by its newest host, or may be by another extension.
Contested(e, t) == \E f \in Exts \ {e} : t \in DeclaredEver(f)
InPlace(e, t) == tools[t] = EntryOf(e) \/ Contested(e, t)

\* When there is nothing: from the moment e was unregistered until its next
\* host is installed, and while there is no host.
Vacant(e) ==
    \/ pc[e] \in {"load", "backoff", "restart", "handshake", "install"}
    \/ pc[e] \in {"watch", "select", "stopOld", "unregister"} /\ infos[e] = None
    \/ pc[e] \in {"watch", "select"} /\ ~stopped[e] /\ cur[e] = 0

\* A new host has no record before it is bridged.
Unrecorded == LoadPcs \cup {"backoff", "restart", "handshake", "install", "bridge"}

\* What the App has recorded of e is what there is to unregister.
Recorded(e) ==
    /\ infos[e] \in {None, Declared(e)}
    /\ pc[e] \in {"loadBridge", "bridge"} => todo[e] \subseteq Declared(e)
    /\ pc[e] \in Unrecorded => infos[e] = None
    /\ Vacant(e) => NoneLeft(e)

\* What is registered while bridge works, and when it is done.
Bridged(e) ==
    /\ pc[e] \in {"loadBridge", "bridge"} =>
         /\ ~stopped[e] => cur[e] # 0
         /\ \A t \in Declared(e) \ todo[e] : InPlace(e, t)
    /\ pc[e] \in {"watch", "select"} /\ ~stopped[e] /\ cur[e] # 0 =>
         EntryOf(e) \in hooks /\ \A t \in Declared(e) : InPlace(e, t)

RegistryInv == EntriesCurrent /\ \A e \in Exts : Recorded(e) /\ Bridged(e)

IInv == TypeOK /\ (\A e \in Exts : ProcessInv(e)) /\ RegistryInv

-----------------------------------------------------------------------------
\* A host is appended to those of its extension, or one of them changes, but
\* never the version it was started from.
HostsType == [Exts -> Seq(HostState)]
Grows(e, h) == hosts' = [hosts EXCEPT ![e] = Append(hosts[e], h)]
Becomes(e, n, h) == /\ hosts' = [hosts EXCEPT ![e] = [hosts[e] EXCEPT ![n] = h]]
                    /\ h.version = hosts[e][n].version

LEMMA HostAppended ==
  ASSUME hosts \in HostsType, NEW e \in Exts, NEW h \in HostState, Grows(e, h)
  PROVE  /\ hosts' \in HostsType
         /\ \A f \in Exts \ {e} : hosts'[f] = hosts[f]
         /\ Newest(e) \in Nat /\ Newest(e)' = Newest(e) + 1
         /\ \A n \in 1..Newest(e) : hosts'[e][n] = hosts[e][n]
         /\ hosts'[e][Newest(e) + 1] = h
<1>1. hosts[e] \in Seq(HostState)
  BY DEF HostsType
<1>2. /\ Append(hosts[e], h) \in Seq(HostState)
      /\ Len(Append(hosts[e], h)) = Len(hosts[e]) + 1
      /\ \A n \in 1..Len(hosts[e]) : Append(hosts[e], h)[n] = hosts[e][n]
      /\ Append(hosts[e], h)[Len(hosts[e]) + 1] = h
      /\ Len(hosts[e]) \in Nat
  BY <1>1, AppendProperties, LenProperties
<1>3. hosts'[e] = Append(hosts[e], h) /\ \A f \in Exts \ {e} : hosts'[f] = hosts[f]
  BY DEF HostsType, Grows
<1>4. hosts' \in HostsType
  BY <1>2 DEF HostsType, Grows
<1> QED BY <1>2, <1>3, <1>4 DEF Newest

LEMMA HostChanged ==
  ASSUME hosts \in HostsType, NEW e \in Exts, NEW n \in 1..Newest(e),
         NEW h \in HostState, Becomes(e, n, h)
  PROVE  /\ hosts' \in HostsType
         /\ \A f \in Exts \ {e} : hosts'[f] = hosts[f]
         /\ Newest(e) \in Nat /\ Newest(e)' = Newest(e)
         /\ \A m \in (1..Newest(e)) \ {n} : hosts'[e][m] = hosts[e][m]
         /\ hosts'[e][n] = h
<1>1. hosts[e] \in Seq(HostState) /\ n \in 1..Len(hosts[e])
  BY DEF HostsType, Newest
<1> DEFINE s == [hosts[e] EXCEPT ![n] = h]
<1>2. /\ s \in Seq(HostState) /\ Len(s) = Len(hosts[e])
      /\ \A m \in 1..Len(hosts[e]) : s[m] = IF m = n THEN h ELSE hosts[e][m]
  BY <1>1, ExceptSeq
<1>3. hosts'[e] = s /\ \A f \in Exts \ {e} : hosts'[f] = hosts[f]
  BY DEF HostsType, Becomes
<1>4. hosts' \in HostsType
  <2>1. hosts' = [hosts EXCEPT ![e] = s]
    BY DEF Becomes
  <2> HIDE DEF s
  <2> QED BY <1>2, <2>1 DEF HostsType
<1>5. Len(hosts[e]) \in Nat
  BY <1>1, LenProperties
<1> HIDE DEF s
<1>6. Newest(e)' = Newest(e)
  BY <1>2, <1>3 DEF Newest
<1> QED BY <1>1, <1>2, <1>3, <1>4, <1>5, <1>6 DEF Newest

LEMMA HostFields ==
  ASSUME hosts \in HostsType, NEW e \in Exts, NEW n \in 1..Newest(e)
  PROVE  /\ hosts[e][n] \in HostState
         /\ hosts[e][n].proc \in {"none", "starting", "up", "dead"}
         /\ hosts[e][n].closed \in BOOLEAN /\ hosts[e][n].version \in 0..MaxChanges
<1>1. hosts[e] \in Seq(HostState) /\ n \in 1..Len(hosts[e])
  BY DEF HostsType, Newest
<1>2. hosts[e][n] \in HostState
  BY <1>1, ElementOfSeq
<1> QED BY <1>2 DEF HostState

\* What each step that changes a host makes of it.
LEMMA HostSteps ==
  ASSUME TypeOK, NEW e \in Exts
  PROVE  /\ Spawn(e) => \E h \in HostState :
              Grows(e, h) /\ h.proc = "starting" /\ ~h.closed
         /\ SpawnFails(e) => \E h \in HostState : Grows(e, h) /\ ~Live(h)
         /\ Newest(e) > 0 /\ Initialized(e) =>
              \E h \in HostState : Becomes(e, Newest(e), h)
         /\ Newest(e) > 0 /\ InitFails(e) =>
              \E h \in HostState : Becomes(e, Newest(e), h) /\ ~Live(h)
         /\ \A n \in 1..Newest(e) :
              HostStopped(e, n) \/ ProcessDies(e, n) \/ ReadLoopEnds(e, n) =>
                \E h \in HostState : Becomes(e, n, h) /\ ~Live(h)
<1>1. hosts \in HostsType /\ Newest(e) \in Nat /\ disk[e] \in 0..MaxChanges
  <2>1. hosts \in HostsType /\ disk[e] \in 0..MaxChanges
    BY DEF TypeOK, HostsType
  <2> QED BY <2>1, LenProperties DEF HostsType, Newest
<1>2. ASSUME Spawn(e)
      PROVE  \E h \in HostState : Grows(e, h) /\ h.proc = "starting" /\ ~h.closed
  <2> DEFINE h == [proc |-> "starting", closed |-> FALSE, version |-> disk[e]]
  <2>1. h \in HostState /\ h.proc = "starting" /\ ~h.closed
    BY <1>1 DEF HostState
  <2>2. Grows(e, h)
    BY <1>1, <1>2 DEF Spawn, Grows, HostsType
  <2> QED BY <2>1, <2>2
<1>3. ASSUME SpawnFails(e) PROVE \E h \in HostState : Grows(e, h) /\ ~Live(h)
  <2> DEFINE h == [proc |-> "none", closed |-> FALSE, version |-> disk[e]]
  <2>1. h \in HostState /\ ~Live(h)
    BY <1>1 DEF HostState, Live
  <2>2. Grows(e, h)
    BY <1>1, <1>3 DEF SpawnFails, Grows, HostsType
  <2> QED BY <2>1, <2>2
<1>4. ASSUME Newest(e) > 0, Initialized(e)
      PROVE  \E h \in HostState : Becomes(e, Newest(e), h)
  <2> DEFINE h == [hosts[e][Newest(e)] EXCEPT !.proc = "up"]
  <2>1. hosts[e][Newest(e)] \in HostState
    BY <1>1, <1>4, HostFields
  <2>2. h \in HostState /\ h.version = hosts[e][Newest(e)].version
    BY <2>1 DEF HostState
  <2>3. Becomes(e, Newest(e), h)
    BY <1>1, <1>4, <2>2 DEF Initialized, Becomes, HostsType
  <2> QED BY <2>2, <2>3
<1>5. ASSUME Newest(e) > 0, InitFails(e)
      PROVE  \E h \in HostState : Becomes(e, Newest(e), h) /\ ~Live(h)
  <2> DEFINE n == Newest(e)
             g == hosts[e][n]
             p == IF g.closed THEN g.proc ELSE "dead"
             h == [[g EXCEPT !.proc = p] EXCEPT !.closed = TRUE]
  <2>1. g \in HostState /\ g.proc \in {"none", "starting", "up", "dead"}
    BY <1>1, <1>5, HostFields
  <2>2. h \in HostState /\ ~Live(h) /\ h.version = hosts[e][n].version
    BY <2>1 DEF HostState, Live
  <2>3. n \in DOMAIN hosts[e]
    BY <1>1, <1>5, LenProperties DEF HostsType, Newest
  <2>4. hosts' = [hosts EXCEPT ![e][n].proc = p, ![e][n].closed = TRUE]
    BY <1>5 DEF InitFails
  <2>5. hosts' = [hosts EXCEPT ![e] = [hosts[e] EXCEPT ![n] = h]]
    <3> HIDE DEF n, p
    <3> QED BY <1>1, <2>3, <2>4 DEF HostsType
  <2>6. Becomes(e, n, h)
    BY <2>2, <2>5 DEF Becomes
  <2> QED BY <2>2, <2>6
<1>6. ASSUME NEW n \in 1..Newest(e),
             HostStopped(e, n) \/ ProcessDies(e, n) \/ ReadLoopEnds(e, n)
      PROVE  \E h \in HostState : Becomes(e, n, h) /\ ~Live(h)
  <2> DEFINE g == hosts[e][n]
  <2>1. g \in HostState
    BY <1>1, HostFields
  <2>2. CASE HostStopped(e, n)
    <3> DEFINE h == IF g.closed THEN g ELSE [g EXCEPT !.proc = "dead", !.closed = TRUE]
    <3>1. h \in HostState /\ ~Live(h) /\ h.version = g.version
      BY <2>1 DEF HostState, Live
    <3>2. Becomes(e, n, h)
      BY <1>1, <2>2, <3>1 DEF HostStopped, Becomes, HostsType
    <3> QED BY <3>1, <3>2
  <2>3. CASE ProcessDies(e, n)
    <3> DEFINE h == [g EXCEPT !.proc = "dead"]
    <3>1. h \in HostState /\ ~Live(h) /\ h.version = g.version
      BY <2>1 DEF HostState, Live
    <3>2. Becomes(e, n, h)
      BY <1>1, <2>3, <3>1 DEF ProcessDies, Becomes, HostsType
    <3> QED BY <3>1, <3>2
  <2>4. CASE ReadLoopEnds(e, n)
    <3> DEFINE h == [g EXCEPT !.closed = TRUE]
    <3>1. h \in HostState /\ ~Live(h) /\ h.version = g.version
      BY <2>1 DEF HostState, Live
    <3>2. Becomes(e, n, h)
      BY <1>1, <2>4, <3>1 DEF ReadLoopEnds, Becomes, HostsType
    <3> QED BY <3>1, <3>2
  <2> QED BY <1>6, <2>2, <2>3, <2>4
<1> QED BY <1>2, <1>3, <1>4, <1>5, <1>6

-----------------------------------------------------------------------------
\* The steps of an extension; the others only touch the watcher and the context.
StepOf(e) == \/ Watch(e) \/ StopCloses(e) \/ StopTakes(e) \/ StopReturns(e)
             \/ FileChange(e) \/ Reload(e) \/ Process(e)
GlobalStep == WatcherStart \/ WatcherStop \/ ContextEnds \/ UNCHANGED vars

LEMMA Steps == [Next]_vars => GlobalStep \/ \E e \in Exts : StepOf(e)
BY DEF Next, GlobalStep, StepOf

LEMMA WatchTypes ==
  TypeOK => /\ pc \in [Exts -> Pcs]
            /\ crash \in [Exts -> BOOLEAN] /\ failures \in [Exts -> 0..(MaxRestarts + 1)]
            /\ reloadCh \in [Exts -> BOOLEAN] /\ stopped \in [Exts -> BOOLEAN]
            /\ stopping \in [Exts -> {"no", "take", "kill", "done"}]
BY DEF TypeOK

LEMMA WorldTypes ==
  TypeOK => /\ disk \in [Exts -> 0..MaxChanges] /\ noticed \in [Exts -> 0..MaxChanges]
            /\ armed \in [Exts -> BOOLEAN] /\ ctxDone \in BOOLEAN
            /\ watching \in {"off", "on", "stopped"} /\ faults \in 0..MaxFaults
BY DEF TypeOK

LEMMA IndexTypes ==
  TypeOK => /\ hosts \in HostsType /\ \A e \in Exts : Newest(e) \in Nat
            /\ cur \in [Exts -> Nat] /\ seen \in [Exts -> Nat] /\ taken \in [Exts -> Nat]
            /\ \A e \in Exts : /\ cur[e] <= Newest(e) /\ seen[e] <= Newest(e)
                               /\ taken[e] <= Newest(e)
<1> SUFFICES ASSUME TypeOK PROVE \A e \in Exts : Newest(e) \in Nat
  BY DEF TypeOK, HostsType, Newest
<1>1. \A e \in Exts : hosts[e] \in Seq(HostState)
  BY DEF TypeOK
<1> QED BY <1>1, LenProperties DEF Newest

LEMMA TableTypes ==
  TypeOK => /\ todo \in [Exts -> SUBSET Tools]
            /\ tools \in [Tools -> Entry \cup {None, Builtin}] /\ hooks \in SUBSET Entry
            /\ infos \in [Exts -> {None} \cup SUBSET Tools]
            /\ \A e \in Exts : DeclaredEver(e) \in SUBSET Tools
BY SupervisorAssumption DEF TypeOK, DeclaredEver

LEMMA EntryTypes ==
  TypeOK => /\ \A e \in Exts : /\ EntryOf(e) \in Entry /\ EntryOf(e).ext = e
                               /\ EntryOf(e).host = Newest(e)
            /\ \A x \in Entry : x.ext \in Exts
BY IndexTypes DEF EntryOf, Entry

\* A step leaves the hosts alone, adds one, or changes one.
HostsStay == hosts' = hosts
HostsGrow(e) == \E h \in HostState : Grows(e, h)
HostsMove(e) == \E n \in 1..Newest(e), h \in HostState : Becomes(e, n, h)

LEMMA HostsStep ==
  ASSUME TypeOK, NEW e \in Exts, ProcessInv(e), StepOf(e)
  PROVE  \/ HostsStay \/ HostsMove(e)
         \/ HostsGrow(e) /\ (Spawn(e) \/ SpawnFails(e))
<1> USE IndexTypes
<1>1. Newest(e) \in Nat /\ (pc[e] # "load" => Newest(e) > 0 /\ Newest(e) \in 1..Newest(e))
  BY DEF ProcessInv, Started
<1>2. CASE Spawn(e) \/ SpawnFails(e)
  BY <1>2, HostSteps DEF HostsGrow
<1>3. CASE Initialized(e)
  BY <1>1, <1>3, HostSteps DEF HostsMove, Initialized
<1>4. CASE InitFails(e)
  BY <1>1, <1>4, HostSteps DEF HostsMove, InitFails
<1>5. CASE StopOld(e)
  <2>1. seen[e] \in 1..Newest(e)
    BY <1>1, <1>5 DEF StopOld, ProcessInv, HostsKnown
  <2> QED BY <1>5, <2>1, HostSteps DEF HostsMove, StopOld
<1>6. CASE StopReturns(e)
  <2>1. CASE taken[e] = 0
    BY <1>6, <2>1 DEF StopReturns, HostsStay
  <2>2. CASE taken[e] # 0
    <3>1. taken[e] \in 1..Newest(e)
      BY <2>2
    <3> QED BY <1>6, <2>2, <3>1, HostSteps DEF HostsMove, StopReturns
  <2> QED BY <2>1, <2>2
<1>7. CASE Process(e)
  BY <1>7, HostSteps DEF HostsMove, Process
<1>8. CASE \/ Install(e) \/ BridgeRest(e) \/ (\E t \in Tools : BridgeTool(e, t))
           \/ WatchRead(e) \/ SelectClosed(e) \/ SelectReload(e) \/ SelectEnd(e)
           \/ Unregister(e) \/ BackoffOver(e) \/ StopCloses(e) \/ StopTakes(e)
           \/ FileChange(e) \/ Reload(e)
  BY <1>8 DEF Install, BridgeRest, BridgeTool, WatchRead, SelectClosed, SelectReload,
       SelectEnd, Unregister, BackoffOver, StopCloses, StopTakes, FileChange, Reload,
       HostsStay
<1> QED BY <1>2, <1>3, <1>4, <1>5, <1>6, <1>7, <1>8 DEF StepOf, Watch

LEMMA HostsTyped ==
  ASSUME TypeOK, \A e \in Exts : ProcessInv(e), [Next]_vars
  PROVE  /\ hosts' \in HostsType
         /\ \A e \in Exts : Newest(e)' \in Nat /\ Newest(e) <= Newest(e)'
<1> USE IndexTypes
<1>1. CASE HostsStay
  <2>1. \A e \in Exts : Newest(e)' = Newest(e)
    BY <1>1 DEF HostsStay, Newest
  <2> QED BY <1>1, <2>1 DEF HostsStay
<1>2. ASSUME NEW e \in Exts, HostsMove(e)
      PROVE  /\ hosts' \in HostsType
             /\ \A f \in Exts : Newest(f)' \in Nat /\ Newest(f) <= Newest(f)'
  <2>1. PICK n \in 1..Newest(e), h \in HostState : Becomes(e, n, h)
    BY <1>2 DEF HostsMove
  <2>2. /\ hosts' \in HostsType /\ Newest(e)' = Newest(e)
        /\ \A f \in Exts \ {e} : hosts'[f] = hosts[f]
    BY <2>1, HostChanged
  <2>3. \A f \in Exts \ {e} : Newest(f)' = Newest(f)
    BY <2>2 DEF Newest
  <2> QED BY <2>2, <2>3
<1>3. ASSUME NEW e \in Exts, HostsGrow(e)
      PROVE  /\ hosts' \in HostsType
             /\ \A f \in Exts : Newest(f)' \in Nat /\ Newest(f) <= Newest(f)'
  <2>1. PICK h \in HostState : Grows(e, h)
    BY <1>3 DEF HostsGrow
  <2>2. /\ hosts' \in HostsType /\ Newest(e)' = Newest(e) + 1
        /\ \A f \in Exts \ {e} : hosts'[f] = hosts[f]
    BY <2>1, HostAppended
  <2>3. \A f \in Exts \ {e} : Newest(f)' = Newest(f)
    BY <2>2 DEF Newest
  <2> QED BY <2>2, <2>3
<1>4. GlobalStep => HostsStay
  BY DEF GlobalStep, WatcherStart, WatcherStop, ContextEnds, vars, HostsStay
<1> QED BY <1>1, <1>2, <1>3, <1>4, Steps, HostsStep

-----------------------------------------------------------------------------
(* Types.                                                                   *)

\* The hosts, and the indexes of hosts.
HostsOK == hosts \in HostsType
IndexesOK ==
    /\ cur \in [Exts -> Nat] /\ seen \in [Exts -> Nat] /\ taken \in [Exts -> Nat]
    /\ \A e \in Exts : cur[e] <= Newest(e) /\ seen[e] <= Newest(e) /\ taken[e] <= Newest(e)

\* What the newest host declares is some of what a version of the files declares.
LEMMA DeclaredTyped ==
  ASSUME TypeOK, NEW e \in Exts, ProcessInv(e), pc[e] # "load"
  PROVE  Declared(e) \subseteq DeclaredEver(e) /\ Declared(e) \in SUBSET Tools
<1>1. Newest(e) \in 1..Newest(e)
  BY IndexTypes DEF ProcessInv, Started
<1>2. hosts[e][Newest(e)].version \in 0..MaxChanges
  BY <1>1, IndexTypes, HostFields
<1> QED BY <1>2, TableTypes DEF Declared, DeclaredEver

LEMMA StartTypes ==
  ASSUME TypeOK, \A f \in Exts : ProcessInv(f), NEW e \in Exts,
         HostsOK', \A f \in Exts : Newest(f)' \in Nat /\ Newest(f) <= Newest(f)',
         Spawn(e) \/ SpawnFails(e) \/ Initialized(e) \/ InitFails(e)
  PROVE  TypeOK'
<1> USE DEF Spawn, SpawnFails, StartFailed, Initialized, InitFails, Goto, loopVars,
     appVars, diskVars, stopVars
<1>1. /\ \E l \in Pcs : pc' = [pc EXCEPT ![e] = l]
      /\ cur' = cur \/ cur' = [cur EXCEPT ![e] = 0]
  <2>1. CASE Spawn(e)
    BY <2>1 DEF Pcs, LoadPcs, EndPcs
  <2>2. CASE SpawnFails(e)
    BY <2>2 DEF Pcs, LoadPcs, EndPcs
  <2>3. CASE Initialized(e)
    BY <2>3 DEF Pcs, LoadPcs, EndPcs
  <2>4. CASE InitFails(e)
    BY <2>4 DEF Pcs, LoadPcs, EndPcs
  <2> QED BY <2>1, <2>2, <2>3, <2>4
<1>2. faults' \in 0..MaxFaults
  BY WorldTypes, SupervisorAssumption DEF FaultHappens
<1>3. UNCHANGED <<seen, crash, failures, reloadCh, stopped, stopping, taken, todo,
     tools, hooks, infos, disk, armed, noticed, watching, ctxDone>>
  OBVIOUS
<1> HIDE DEF Spawn, SpawnFails, StartFailed, Initialized, InitFails, Goto, loopVars,
     appVars, diskVars, stopVars
<1>4. pc' \in [Exts -> Pcs]
  BY <1>1, WatchTypes
<1>5. cur' \in [Exts -> Nat]
  BY <1>1, IndexTypes
<1>6. \A f \in Exts : cur'[f] \in {0, cur[f], Newest(f)}
  BY <1>1, IndexTypes
<1>7. IndexesOK'
  BY <1>4, <1>5, <1>6, <1>2, <1>3, IndexTypes DEF IndexesOK, HostsOK
<1> QED
  BY <1>4, <1>5, <1>6, <1>2, <1>3, <1>7 DEF TypeOK, HostsOK, HostsType, IndexesOK,
       Newest

LEMMA BridgeTypes ==
  ASSUME TypeOK, \A f \in Exts : ProcessInv(f), NEW e \in Exts,
         HostsOK', \A f \in Exts : Newest(f)' \in Nat /\ Newest(f) <= Newest(f)',
         Install(e) \/ BridgeRest(e) \/ \E t \in Tools : BridgeTool(e, t)
  PROVE  TypeOK'
<1> USE DEF Install, BridgeRest, BridgeTool, Goto, loopVars, appVars, diskVars, stopVars
<1>1. pc' \in [Exts -> Pcs]
  BY WatchTypes DEF Pcs, LoadPcs, EndPcs
<1>2. cur' \in [Exts -> Nat]
  BY IndexTypes
<1>3. \A f \in Exts : cur'[f] \in {0, cur[f], Newest(f)}
  BY IndexTypes
<1>4. todo' \in [Exts -> SUBSET Tools]
  BY TableTypes, EntryTypes, DeclaredTyped
<1>5. tools' \in [Tools -> Entry \cup {None, Builtin}]
  BY TableTypes, EntryTypes
<1>6. hooks' \in SUBSET Entry
  BY TableTypes, EntryTypes
<1>7. infos' \in [Exts -> {None} \cup SUBSET Tools]
  BY TableTypes, EntryTypes, DeclaredTyped
<1>8. UNCHANGED <<seen, crash, failures, reloadCh, stopped, stopping, taken, disk,
     armed, noticed, watching, ctxDone, faults>>
  OBVIOUS
<1> HIDE DEF Install, BridgeRest, BridgeTool, Goto, loopVars, appVars, diskVars, stopVars
<1>9. IndexesOK'
  BY <1>1, <1>2, <1>3, <1>4, <1>5, <1>6, <1>7, <1>8, IndexTypes DEF IndexesOK, HostsOK
<1> QED
  BY <1>1, <1>2, <1>3, <1>4, <1>5, <1>6, <1>7, <1>8, <1>9 DEF TypeOK, HostsOK,
       HostsType, IndexesOK, Newest

LEMMA SelectTypes ==
  ASSUME TypeOK, \A f \in Exts : ProcessInv(f), NEW e \in Exts,
         HostsOK', \A f \in Exts : Newest(f)' \in Nat /\ Newest(f) <= Newest(f)',
         WatchRead(e) \/ SelectClosed(e) \/ SelectReload(e)
         \/ SelectEnd(e) \/ StopOld(e) \/ BackoffOver(e)
  PROVE  TypeOK'
<1> USE DEF WatchRead, SelectClosed, SelectReload, SelectEnd, StopOld, BackoffOver,
     Goto, loopVars, appVars, diskVars, stopVars
<1>1. pc' \in [Exts -> Pcs]
  BY WatchTypes DEF Pcs, LoadPcs, EndPcs
<1>2. cur' \in [Exts -> Nat]
  BY IndexTypes
<1>3. \A f \in Exts : cur'[f] \in {0, cur[f], Newest(f)}
  BY IndexTypes
<1>4. seen' \in [Exts -> Nat]
  BY IndexTypes
<1>5. \A f \in Exts : seen'[f] \in {seen[f], cur[f]}
  BY IndexTypes
<1>6. crash' \in [Exts -> BOOLEAN]
  BY WatchTypes
<1>7. failures' \in [Exts -> 0..(MaxRestarts + 1)]
  <2>1. /\ failures \in [Exts -> 0..(MaxRestarts + 1)] /\ MaxRestarts \in Nat
        /\ failures[e] = MaxRestarts + 1 => pc[e] = "gaveUp"
    BY WatchTypes, SupervisorAssumption DEF ProcessInv, Counted
  <2>2. CASE SelectClosed(e)
    <3>1. /\ pc[e] = "select"
          /\ \E stable \in BOOLEAN :
               failures' = [failures EXCEPT ![e] = IF stable THEN 1 ELSE failures[e] + 1]
      BY <2>2
    <3> HIDE DEF WatchRead, SelectClosed, SelectReload, SelectEnd, StopOld, BackoffOver
    <3> QED BY <2>1, <3>1
  <2>3. CASE failures' = failures \/ failures' = [failures EXCEPT ![e] = 0]
    <3> HIDE DEF WatchRead, SelectClosed, SelectReload, SelectEnd, StopOld, BackoffOver
    <3> QED BY <2>1, <2>3
  <2> QED BY <2>2, <2>3
<1>8. reloadCh' \in [Exts -> BOOLEAN]
  BY WatchTypes
<1>9. UNCHANGED <<stopped, stopping, taken, todo, tools, hooks, infos, disk, armed,
     noticed, watching, ctxDone, faults>>
  OBVIOUS
<1> HIDE DEF WatchRead, SelectClosed, SelectReload, SelectEnd, StopOld, BackoffOver,
     Goto, loopVars, appVars, diskVars, stopVars
<1>10. IndexesOK'
  BY <1>1, <1>2, <1>3, <1>4, <1>5, <1>6, <1>7, <1>8, <1>9, IndexTypes DEF IndexesOK,
       HostsOK
<1> QED
  BY <1>1, <1>2, <1>3, <1>4, <1>5, <1>6, <1>7, <1>8, <1>9, <1>10 DEF TypeOK, HostsOK,
       HostsType, IndexesOK, Newest

LEMMA UnregisterTypes ==
  ASSUME TypeOK, \A f \in Exts : ProcessInv(f), NEW e \in Exts,
         HostsOK', \A f \in Exts : Newest(f)' \in Nat /\ Newest(f) <= Newest(f)',
         Unregister(e)
  PROVE  TypeOK'
<1> USE DEF Unregister, Goto, loopVars, appVars, diskVars, stopVars
<1>1. pc' \in [Exts -> Pcs]
  BY WatchTypes DEF Pcs, LoadPcs, EndPcs
<1>2. tools' \in [Tools -> Entry \cup {None, Builtin}]
  BY TableTypes, EntryTypes
<1>3. hooks' \in SUBSET Entry
  BY TableTypes, EntryTypes
<1>4. infos' \in [Exts -> {None} \cup SUBSET Tools]
  BY TableTypes, EntryTypes
<1>5. UNCHANGED <<cur, seen, crash, failures, reloadCh, stopped, stopping, taken,
     todo, disk, armed, noticed, watching, ctxDone, faults>>
  OBVIOUS
<1> HIDE DEF Unregister, Goto, loopVars, appVars, diskVars, stopVars
<1>6. IndexesOK'
  BY <1>1, <1>2, <1>3, <1>4, <1>5, IndexTypes DEF IndexesOK, HostsOK
<1> QED
  BY <1>1, <1>2, <1>3, <1>4, <1>5, <1>6 DEF TypeOK, HostsOK, HostsType, IndexesOK,
       Newest

LEMMA StopTypes ==
  ASSUME TypeOK, \A f \in Exts : ProcessInv(f), NEW e \in Exts,
         HostsOK', \A f \in Exts : Newest(f)' \in Nat /\ Newest(f) <= Newest(f)',
         StopCloses(e) \/ StopTakes(e) \/ StopReturns(e)
  PROVE  TypeOK'
<1> USE DEF StopCloses, StopTakes, StopReturns, loopVars, appVars, diskVars, stopVars
<1>1. cur' \in [Exts -> Nat]
  BY IndexTypes
<1>2. \A f \in Exts : cur'[f] \in {0, cur[f], Newest(f)}
  BY IndexTypes
<1>3. stopped' \in [Exts -> BOOLEAN]
  BY WatchTypes
<1>4. stopping' \in [Exts -> {"no", "take", "kill", "done"}]
  BY WatchTypes
<1>5. taken' \in [Exts -> Nat]
  BY IndexTypes
<1>6. \A f \in Exts : taken'[f] \in {taken[f], cur[f]}
  BY IndexTypes
<1>7. UNCHANGED <<pc, seen, crash, failures, reloadCh, todo, tools, hooks, infos,
     disk, armed, noticed, watching, ctxDone, faults>>
  OBVIOUS
<1> HIDE DEF StopCloses, StopTakes, StopReturns, loopVars, appVars, diskVars, stopVars
<1>8. IndexesOK'
  BY <1>1, <1>2, <1>3, <1>4, <1>5, <1>6, <1>7, IndexTypes DEF IndexesOK, HostsOK
<1> QED
  BY <1>1, <1>2, <1>3, <1>4, <1>5, <1>6, <1>7, <1>8 DEF TypeOK, HostsOK, HostsType,
       IndexesOK, Newest

LEMMA DiskTypes ==
  ASSUME TypeOK, \A f \in Exts : ProcessInv(f), NEW e \in Exts,
         HostsOK', \A f \in Exts : Newest(f)' \in Nat /\ Newest(f) <= Newest(f)',
         FileChange(e) \/ Reload(e) \/ Process(e)
  PROVE  TypeOK'
<1> USE DEF FileChange, Reload, Process, ProcessDies, ReadLoopEnds, loopVars,
     appVars, diskVars, stopVars
<1>1. reloadCh' \in [Exts -> BOOLEAN]
  BY WatchTypes
<1>2. disk' \in [Exts -> 0..MaxChanges]
  BY WorldTypes, SupervisorAssumption
<1>3. armed' \in [Exts -> BOOLEAN]
  BY WorldTypes
<1>4. noticed' \in [Exts -> 0..MaxChanges]
  BY WorldTypes, SupervisorAssumption
<1>5. faults' \in 0..MaxFaults
  BY WorldTypes, SupervisorAssumption DEF FaultHappens
<1>6. UNCHANGED <<pc, cur, seen, crash, failures, stopped, stopping, taken, todo,
     tools, hooks, infos, watching, ctxDone>>
  OBVIOUS
<1> HIDE DEF FileChange, Reload, Process, ProcessDies, ReadLoopEnds, loopVars,
     appVars, diskVars, stopVars
<1>7. IndexesOK'
  BY <1>1, <1>2, <1>3, <1>4, <1>5, <1>6, IndexTypes DEF IndexesOK, HostsOK
<1> QED
  BY <1>1, <1>2, <1>3, <1>4, <1>5, <1>6, <1>7 DEF TypeOK, HostsOK, HostsType,
       IndexesOK, Newest

LEMMA GlobalTypes ==
  ASSUME TypeOK, \A f \in Exts : ProcessInv(f),
         HostsOK', \A f \in Exts : Newest(f)' \in Nat /\ Newest(f) <= Newest(f)',
         GlobalStep
  PROVE  TypeOK'
<1> USE DEF GlobalStep, WatcherStart, WatcherStop, ContextEnds, vars, loopVars,
     appVars, diskVars, stopVars
<1>1. watching' \in {"off", "on", "stopped"}
  BY WorldTypes
<1>2. armed' \in [Exts -> BOOLEAN]
  BY WorldTypes
<1>3. ctxDone' \in BOOLEAN
  BY WorldTypes
<1>4. UNCHANGED <<pc, cur, seen, crash, failures, reloadCh, stopped, stopping, taken,
     todo, tools, hooks, infos, disk, noticed, faults>>
  OBVIOUS
<1> HIDE DEF GlobalStep, WatcherStart, WatcherStop, ContextEnds, vars, loopVars,
     appVars, diskVars, stopVars
<1>5. IndexesOK'
  BY <1>1, <1>2, <1>3, <1>4, IndexTypes DEF IndexesOK, HostsOK
<1> QED
  BY <1>1, <1>2, <1>3, <1>4, <1>5 DEF TypeOK, HostsOK, HostsType, IndexesOK, Newest

LEMMA TypeKept ==
  ASSUME TypeOK, \A e \in Exts : ProcessInv(e), [Next]_vars
  PROVE  TypeOK'
<1>1. HostsOK' /\ \A e \in Exts : Newest(e)' \in Nat /\ Newest(e) <= Newest(e)'
  BY HostsTyped DEF HostsOK
<1>2. CASE GlobalStep
  BY <1>1, <1>2, GlobalTypes
<1>3. ASSUME NEW e \in Exts, StepOf(e) PROVE TypeOK'
  BY <1>1, <1>3, StartTypes, BridgeTypes, SelectTypes, UnregisterTypes, StopTypes,
     DiskTypes DEF StepOf, Watch
<1> QED BY <1>2, <1>3, Steps

-----------------------------------------------------------------------------
(* One process of an extension.                                             *)

\* A step of one extension leaves another one alone.
Untouched(f) ==
    /\ pc'[f] = pc[f] /\ hosts'[f] = hosts[f] /\ cur'[f] = cur[f] /\ seen'[f] = seen[f]
    /\ failures'[f] = failures[f] /\ stopped'[f] = stopped[f]
    /\ stopping'[f] = stopping[f] /\ taken'[f] = taken[f]
    /\ todo'[f] = todo[f] /\ infos'[f] = infos[f]

LEMMA HostsElsewhere ==
  ASSUME TypeOK, NEW e \in Exts, ProcessInv(e), StepOf(e), NEW f \in Exts \ {e}
  PROVE  hosts'[f] = hosts[f]
<1>1. CASE HostsStay
  BY <1>1 DEF HostsStay
<1>2. CASE HostsMove(e)
  BY <1>2, HostChanged, IndexTypes DEF HostsMove
<1>3. CASE HostsGrow(e)
  BY <1>3, HostAppended, IndexTypes DEF HostsGrow
<1> QED BY <1>1, <1>2, <1>3, HostsStep

LEMMA Elsewhere ==
  ASSUME TypeOK, NEW e \in Exts, ProcessInv(e), StepOf(e), NEW f \in Exts \ {e}
  PROVE  Untouched(f)
<1> USE DEF loopVars, appVars, diskVars, stopVars
<1>1. CASE Spawn(e) \/ SpawnFails(e) \/ Initialized(e) \/ InitFails(e)
  <2>1. UNCHANGED <<seen, failures, stopped, stopping, taken, todo, infos>>
    BY <1>1 DEF Spawn, SpawnFails, Initialized, InitFails
  <2>2. \E l : Goto(e, l)
    BY <1>1 DEF Spawn, SpawnFails, StartFailed, Initialized, InitFails
  <2>3. cur' = cur \/ cur' = [cur EXCEPT ![e] = 0]
    BY <1>1 DEF Spawn, SpawnFails, StartFailed, Initialized, InitFails
  <2> QED BY <2>1, <2>2, <2>3, HostsElsewhere, WatchTypes, IndexTypes DEF Goto, Untouched
<1>2. CASE Install(e) \/ BridgeRest(e) \/ \E t \in Tools : BridgeTool(e, t)
  BY <1>2, HostsElsewhere, WatchTypes, IndexTypes, TableTypes
     DEF Install, BridgeRest, BridgeTool, Goto, Untouched
<1>3. CASE \/ WatchRead(e) \/ SelectClosed(e) \/ SelectReload(e) \/ SelectEnd(e)
           \/ StopOld(e) \/ BackoffOver(e)
  BY <1>3, HostsElsewhere, WatchTypes, IndexTypes
     DEF WatchRead, SelectClosed, SelectReload, SelectEnd, StopOld, BackoffOver, Goto,
         Untouched
<1>4. CASE Unregister(e)
  BY <1>4, HostsElsewhere, WatchTypes, TableTypes DEF Unregister, Goto, Untouched
<1>5. CASE StopCloses(e) \/ StopTakes(e) \/ StopReturns(e)
  BY <1>5, HostsElsewhere, WatchTypes, IndexTypes
     DEF StopCloses, StopTakes, StopReturns, Untouched
<1>6. CASE FileChange(e) \/ Reload(e) \/ Process(e)
  BY <1>6, HostsElsewhere
     DEF FileChange, Reload, Process, ProcessDies, ReadLoopEnds, Untouched
<1> QED BY <1>1, <1>2, <1>3, <1>4, <1>5, <1>6 DEF StepOf, Watch

LEMMA GlobalUntouched == ASSUME GlobalStep, NEW f \in Exts PROVE Untouched(f)
BY DEF GlobalStep, WatcherStart, WatcherStop, ContextEnds, vars, loopVars, appVars,
     diskVars, stopVars, Untouched

LEMMA ProcessUntouched ==
  ASSUME NEW f \in Exts, ProcessInv(f), Untouched(f)
  PROVE  ProcessInv(f)'
<1> USE DEF Untouched
<1>1. Counted(f)' /\ Started(f)'
  BY DEF ProcessInv, Counted, Started, Newest
<1>2. HostsKnown(f)'
  BY DEF ProcessInv, HostsKnown, Newest
<1>3. HostsGone(f)'
  BY DEF ProcessInv, HostsGone, Hostless, OlderGone, AllGone, Gone, Newest
<1> QED BY <1>1, <1>2, <1>3 DEF ProcessInv

\* The steps that start a host, or bring it up.
Starts(e) == Spawn(e) \/ SpawnFails(e)

LEMMA NewestKept ==
  ASSUME TypeOK, NEW e \in Exts, ProcessInv(e), StepOf(e)
  PROVE  /\ ~Starts(e) => Newest(e)' = Newest(e)
         /\ Starts(e) => Newest(e)' = Newest(e) + 1
<1>1. ASSUME HostsGrow(e) PROVE Newest(e)' = Newest(e) + 1
  BY <1>1, HostAppended, IndexTypes DEF HostsGrow
<1>2. ASSUME HostsMove(e) PROVE Newest(e)' = Newest(e)
  BY <1>2, HostChanged, IndexTypes DEF HostsMove
<1>3. ASSUME HostsStay PROVE Newest(e)' = Newest(e)
  BY <1>3 DEF HostsStay, Newest
<1> QED BY <1>1, <1>2, <1>3, HostsStep, HostSteps DEF Starts, HostsGrow

\* What the newest host declares changes with a start only.
LEMMA DeclaredKept ==
  ASSUME TypeOK, NEW e \in Exts, ProcessInv(e), StepOf(e)
  PROVE  /\ ~Starts(e) => Declared(e)' = Declared(e)
         /\ \A f \in Exts \ {e} : Declared(f)' = Declared(f)
<1>1. ASSUME NEW f \in Exts \ {e} PROVE Declared(f)' = Declared(f)
  BY HostsElsewhere DEF Declared, Newest
<1>2. ASSUME HostsMove(e) PROVE Declared(e)' = Declared(e)
  <2>1. PICK n \in 1..Newest(e), h \in HostState : Becomes(e, n, h)
    BY <1>2 DEF HostsMove
  <2>2. /\ Newest(e)' = Newest(e) /\ hosts'[e][n] = h
        /\ \A m \in (1..Newest(e)) \ {n} : hosts'[e][m] = hosts[e][m]
    BY <2>1, HostChanged, IndexTypes
  <2>3. Newest(e) \in 1..Newest(e)
    BY <2>1, IndexTypes
  <2>4. hosts'[e][Newest(e)].version = hosts[e][Newest(e)].version
    BY <2>1, <2>2, <2>3 DEF Becomes
  <2> QED BY <2>2, <2>4 DEF Declared
<1>3. ASSUME HostsStay PROVE Declared(e)' = Declared(e)
  BY <1>3 DEF HostsStay, Declared, Newest
<1> QED BY <1>1, <1>2, <1>3, HostsStep DEF Starts

\* What makes a host serve no more does not bring up another.
LEMMA OneDown ==
  ASSUME TypeOK, NEW e \in Exts, NEW n \in 1..Newest(e), NEW m \in 1..Newest(e),
         \E h \in HostState : Becomes(e, n, h) /\ ~Live(h), Live(hosts'[e][m])
  PROVE  m # n /\ Live(hosts[e][m])
<1>1. PICK h \in HostState : Becomes(e, n, h) /\ ~Live(h)
  OBVIOUS
<1>2. /\ \A k \in (1..Newest(e)) \ {n} : hosts'[e][k] = hosts[e][k]
      /\ hosts'[e][n] = h
  BY <1>1, IndexTypes, HostChanged
<1> QED BY <1>1, <1>2

\* A host that serves did so before the step, unless the handshake brought it up.
LEMMA LiveBefore ==
  ASSUME TypeOK, NEW e \in Exts, ProcessInv(e), StepOf(e), NEW n \in 1..Newest(e),
         Live(hosts'[e][n])
  PROVE  Live(hosts[e][n]) \/ (Initialized(e) /\ n = Newest(e))
<1> USE IndexTypes
<1>0. Newest(e) > 0 /\ Newest(e) \in 1..Newest(e)
  OBVIOUS
<1>1. CASE Starts(e)
  <2>1. HostsGrow(e)
    BY <1>1, HostSteps DEF Starts, HostsGrow
  <2> QED BY <2>1, HostAppended DEF HostsGrow
<1>2. CASE Initialized(e)
  BY <1>0, <1>2, HostSteps, HostChanged
<1>3. CASE InitFails(e)
  BY <1>0, <1>3, HostSteps, OneDown
<1>4. CASE StopOld(e)
  <2>1. seen[e] \in 1..Newest(e)
    BY <1>0, <1>4 DEF StopOld, ProcessInv, HostsKnown
  <2> QED BY <1>4, <2>1, HostSteps, OneDown DEF StopOld
<1>5. CASE StopReturns(e)
  <2>1. CASE taken[e] = 0
    BY <1>5, <2>1 DEF StopReturns
  <2>2. CASE taken[e] # 0
    <3>1. taken[e] \in 1..Newest(e)
      BY <2>2
    <3> QED BY <1>5, <2>2, <3>1, HostSteps, OneDown DEF StopReturns
  <2> QED BY <2>1, <2>2
<1>6. CASE Process(e)
  BY <1>6, HostSteps, OneDown DEF Process
<1>7. CASE HostsStay
  BY <1>7 DEF HostsStay
<1>8. CASE \/ Install(e) \/ BridgeRest(e) \/ (\E t \in Tools : BridgeTool(e, t))
           \/ WatchRead(e) \/ SelectClosed(e) \/ SelectReload(e) \/ SelectEnd(e)
           \/ Unregister(e) \/ BackoffOver(e) \/ StopCloses(e) \/ StopTakes(e)
           \/ FileChange(e) \/ Reload(e)
  BY <1>7, <1>8 DEF Install, BridgeRest, BridgeTool, WatchRead, SelectClosed,
       SelectReload, SelectEnd, Unregister, BackoffOver, StopCloses, StopTakes,
       FileChange, Reload, HostsStay
<1> QED BY <1>1, <1>2, <1>3, <1>4, <1>5, <1>6, <1>8 DEF StepOf, Watch, Starts

\* So one that is gone stays gone.
LEMMA GoneKept ==
  ASSUME TypeOK, NEW e \in Exts, ProcessInv(e), StepOf(e), NEW n \in 1..Newest(e),
         Gone(e, n), ~(Initialized(e) /\ n = Newest(e))
  PROVE  Gone(e, n)'
<1> SUFFICES ASSUME Live(hosts'[e][n]) PROVE (stopping[e] = "kill" /\ taken[e] = n)'
  BY DEF Gone, Live
<1>1. Live(hosts[e][n]) /\ stopping[e] = "kill" /\ taken[e] = n
  BY LiveBefore DEF Gone
<1>2. CASE StopReturns(e)
  <2>1. n # 0 /\ HostStopped(e, n)
    BY <1>1, <1>2, IndexTypes DEF StopReturns
  <2>2. ~Live(hosts'[e][n])
    BY <2>1, HostSteps, OneDown
  <2> QED BY <2>2
<1>3. CASE ~StopReturns(e)
  <2>1. UNCHANGED <<stopping, taken>>
    BY <1>1, <1>3 DEF StepOf, Watch, Process, Spawn, SpawnFails, Initialized, InitFails,
       Install, BridgeTool, BridgeRest, WatchRead, SelectClosed, SelectReload, SelectEnd,
       StopOld, Unregister, BackoffOver, StopCloses, StopTakes, FileChange, Reload,
       ProcessDies, ReadLoopEnds, stopVars
  <2> QED BY <1>1, <2>1
<1> QED BY <1>2, <1>3

LEMMA OlderGoneKept ==
  ASSUME TypeOK, NEW e \in Exts, ProcessInv(e), StepOf(e)
  PROVE  OlderGone(e)'
<1> SUFFICES ASSUME NEW n \in 1..(Newest(e)' - 1) PROVE Gone(e, n)'
  BY DEF OlderGone
<1> USE IndexTypes
<1>1. CASE Starts(e)
  <2>1. n \in 1..Newest(e)
    BY <1>1, NewestKept
  <2>2. pc[e] \in {"load", "restart"}
    BY <1>1 DEF Starts, Spawn, SpawnFails
  <2>3. Gone(e, n) /\ ~Initialized(e)
    BY <2>1, <2>2 DEF ProcessInv, HostsGone, Hostless, AllGone, Initialized
  <2> QED BY <2>1, <2>3, GoneKept
<1>2. CASE ~Starts(e)
  <2>1. n \in 1..Newest(e) /\ n \in 1..(Newest(e) - 1) /\ n # Newest(e)
    BY <1>2, NewestKept
  <2>2. Gone(e, n)
    BY <2>1 DEF ProcessInv, HostsGone, OlderGone
  <2> QED BY <2>1, <2>2, GoneKept
<1> QED BY <1>1, <1>2

\* If the newest host is gone after a step, all are.
LEMMA NewestGone ==
  ASSUME TypeOK, NEW e \in Exts, ProcessInv(e), StepOf(e), Gone(e, Newest(e))',
         Newest(e)' \in Nat
  PROVE  AllGone(e)'
<1>1. OlderGone(e)'
  BY OlderGoneKept
<1> SUFFICES ASSUME NEW n \in 1..Newest(e)' PROVE Gone(e, n)'
  BY DEF AllGone
<1>2. CASE n = Newest(e)'
  BY <1>2 DEF Gone
<1>3. CASE n # Newest(e)'
  <2>1. n \in 1..(Newest(e)' - 1)
    BY <1>3
  <2> QED BY <1>1, <2>1 DEF OlderGone
<1> QED BY <1>2, <1>3

\* The steps after which a supervisor is without a host, or about to start one.
LEMMA HostlessBefore ==
  ASSUME TypeOK, NEW e \in Exts, ProcessInv(e), StepOf(e), Hostless(e)'
  PROVE  \/ Hostless(e) /\ ~Starts(e) /\ ~Initialized(e)
         \/ SpawnFails(e) \/ InitFails(e) \/ SelectClosed(e) \/ StopOld(e)
         \/ StopTakes(e) /\ cur[e] = Newest(e)
<1> USE WatchTypes, IndexTypes
<1> USE DEF loopVars, stopVars, Goto, Hostless
<1>0. pc[e] # "load" => Newest(e) # 0
  BY DEF ProcessInv, Started
<1>1. ~Spawn(e) /\ ~Initialized(e)
  BY DEF Spawn, Initialized
<1>2. ~Install(e)
  BY <1>0 DEF Install
<1>3. CASE BridgeRest(e) \/ (\E t \in Tools : BridgeTool(e, t))
  BY <1>1, <1>3 DEF BridgeRest, BridgeTool, Starts, SpawnFails
<1>4. CASE WatchRead(e) \/ SelectReload(e) \/ SelectEnd(e)
  BY <1>1, <1>4 DEF WatchRead, SelectReload, SelectEnd, Starts, SpawnFails
<1>5. CASE Unregister(e) \/ BackoffOver(e)
  BY <1>1, <1>5 DEF Unregister, BackoffOver, Starts, SpawnFails
<1>6. CASE StopTakes(e)
  <2>1. cur[e] = 0 \/ cur[e] = Newest(e) \/ pc[e] \notin {"loadBridge", "bridge", "watch"}
    BY DEF ProcessInv, HostsKnown
  <2>2. cur[e] # Newest(e) => Hostless(e)
    BY <1>6, <2>1 DEF StopTakes
  <2>3. ~Starts(e) \/ SpawnFails(e)
    BY <1>1 DEF Starts
  <2> QED BY <1>1, <1>6, <2>2, <2>3
<1>7. CASE StopCloses(e) \/ StopReturns(e) \/ FileChange(e) \/ Reload(e) \/ Process(e)
  <2>1. UNCHANGED <<pc, cur, seen>>
    BY <1>7 DEF StopCloses, StopReturns, FileChange, Reload, Process, ProcessDies,
         ReadLoopEnds
  <2>2. Hostless(e)
    BY <2>1
  <2> QED BY <1>1, <2>2 DEF Starts
<1> QED BY <1>1, <1>2, <1>3, <1>4, <1>5, <1>6, <1>7 DEF StepOf, Watch

LEMMA HostsGoneKept ==
  ASSUME TypeOK, NEW e \in Exts, ProcessInv(e), StepOf(e)
  PROVE  HostsGone(e)'
<1> SUFFICES ASSUME Hostless(e)' PROVE AllGone(e)'
  BY OlderGoneKept DEF HostsGone
<1> USE IndexTypes
<1>0. Newest(e)' \in Nat
  BY NewestKept
<1>1. CASE Hostless(e) /\ ~Starts(e) /\ ~Initialized(e)
  <2>1. \A n \in 1..Newest(e) : Gone(e, n)
    BY <1>1 DEF ProcessInv, HostsGone, AllGone
  <2>2. \A n \in 1..Newest(e) : Gone(e, n)'
    BY <1>1, <2>1, GoneKept
  <2> QED BY <1>1, <2>2, NewestKept DEF AllGone
<1>2. CASE SpawnFails(e)
  <2>1. PICK h \in HostState : Grows(e, h) /\ ~Live(h)
    BY <1>2, HostSteps
  <2>2. ~Live(hosts'[e][Newest(e)'])
    BY <2>1, HostAppended
  <2>3. Gone(e, Newest(e))'
    BY <2>2 DEF Gone, Live
  <2> QED BY <1>0, <2>3, NewestGone
<1>3. CASE InitFails(e)
  <2>1. pc[e] # "load" /\ ~Starts(e)
    BY <1>3 DEF InitFails, Starts, Spawn, SpawnFails
  <2>2. Newest(e) > 0 /\ Newest(e) \in 1..Newest(e)
    BY <2>1 DEF ProcessInv, Started
  <2>3. ~Live(hosts'[e][Newest(e)])
    BY <1>3, <2>2, HostSteps, OneDown
  <2>4. Gone(e, Newest(e))'
    BY <2>1, <2>3, NewestKept DEF Gone, Live
  <2> QED BY <1>0, <2>4, NewestGone
<1>4. CASE SelectClosed(e)
  <2>1. /\ seen[e] = Newest(e) /\ hosts'[e] = hosts[e]
        /\ hosts[e][Newest(e)].closed
    BY <1>4 DEF SelectClosed, ProcessInv, HostsKnown
  <2>2. Newest(e)' = Newest(e)
    BY <2>1 DEF Newest
  <2>3. Gone(e, Newest(e))'
    BY <2>1, <2>2 DEF Gone, Live
  <2> QED BY <1>0, <2>3, NewestGone
<1>5. CASE StopOld(e)
  <2>1. seen[e] = Newest(e) /\ ~Starts(e) /\ pc[e] # "load" /\ HostStopped(e, Newest(e))
    BY <1>5 DEF StopOld, Starts, Spawn, SpawnFails, ProcessInv, HostsKnown
  <2>2. Newest(e) \in 1..Newest(e)
    BY <2>1 DEF ProcessInv, Started
  <2>3. ~Live(hosts'[e][Newest(e)])
    BY <2>1, <2>2, HostSteps, OneDown
  <2>4. Gone(e, Newest(e))'
    BY <2>1, <2>3, NewestKept DEF Gone, Live
  <2> QED BY <1>0, <2>4, NewestGone
<1>6. CASE StopTakes(e) /\ cur[e] = Newest(e)
  <2>1. hosts'[e] = hosts[e] /\ stopping'[e] = "kill" /\ taken'[e] = Newest(e)
    BY <1>6, WatchTypes DEF StopTakes
  <2>2. Newest(e)' = Newest(e)
    BY <2>1 DEF Newest
  <2>3. Gone(e, Newest(e))'
    BY <2>1, <2>2 DEF Gone
  <2> QED BY <1>0, <2>3, NewestGone
<1> QED BY <1>1, <1>2, <1>3, <1>4, <1>5, <1>6, HostlessBefore

LEMMA StartsMove ==
  ASSUME TypeOK, NEW e \in Exts, Starts(e)
  PROVE  pc'[e] # pc[e]
<1>1. CASE Spawn(e)
  BY <1>1, WatchTypes DEF Spawn, Goto
<1>2. CASE SpawnFails(e)
  BY <1>2, WatchTypes DEF SpawnFails, StartFailed, Goto
<1> QED BY <1>1, <1>2 DEF Starts

LEMMA CountedKept ==
  ASSUME TypeOK, NEW e \in Exts, ProcessInv(e), StepOf(e)
  PROVE  Counted(e)' /\ Started(e)'
<1> USE WatchTypes, IndexTypes, SupervisorAssumption
<1> USE DEF loopVars, stopVars, Goto
<1>1. (failures[e] = MaxRestarts + 1 => pc[e] = "gaveUp") /\ failures[e] \in Nat
  BY DEF ProcessInv, Counted
<1>2. /\ Newest(e) = 0 <=> pc[e] = "load"
      /\ ~Starts(e) => Newest(e)' = Newest(e)
      /\ Starts(e) => Newest(e)' = Newest(e) + 1
  BY NewestKept DEF ProcessInv, Started
<1>3. ASSUME failures'[e] = failures[e] \/ failures'[e] = 0,
             pc[e] # "gaveUp" \/ pc'[e] = pc[e],
             ~Starts(e), (pc[e] # "load" /\ pc'[e] # "load") \/ pc'[e] = pc[e]
      PROVE  Counted(e)' /\ Started(e)'
  BY <1>1, <1>2, <1>3 DEF Counted, Started
<1>4. CASE Spawn(e)
  <2>1. Starts(e) /\ pc'[e] # "load" /\ failures'[e] = failures[e] /\ pc[e] # "gaveUp"
    BY <1>4 DEF Spawn, Starts
  <2> QED BY <1>1, <1>2, <2>1 DEF Counted, Started
<1>5. CASE SpawnFails(e)
  <2>1. Starts(e) /\ pc'[e] # "load" /\ failures'[e] = failures[e] /\ pc[e] # "gaveUp"
    BY <1>5 DEF SpawnFails, StartFailed, Starts
  <2> QED BY <1>1, <1>2, <2>1 DEF Counted, Started
<1> USE DEF Starts, Spawn, SpawnFails
<1>6. CASE Initialized(e)
  BY <1>3, <1>6 DEF Initialized
<1>7. CASE InitFails(e)
  BY <1>3, <1>7 DEF InitFails, StartFailed
<1>8. CASE Install(e) \/ BridgeRest(e) \/ WatchRead(e) \/ Unregister(e) \/ BackoffOver(e)
  BY <1>3, <1>8 DEF Install, BridgeRest, WatchRead, Unregister, BackoffOver
<1>9. CASE SelectClosed(e)
  <2>1. pc[e] = "select" /\ pc'[e] # "load"
    BY <1>9 DEF SelectClosed
  <2>2. failures'[e] > MaxRestarts => pc'[e] = "gaveUp"
    BY <1>9 DEF SelectClosed
  <2> QED BY <1>2, <2>1, <2>2 DEF Counted, Started
<1>10. CASE SelectReload(e) \/ SelectEnd(e) \/ StopOld(e)
  BY <1>3, <1>10 DEF SelectReload, SelectEnd, StopOld
<1>11. CASE \/ (\E t \in Tools : BridgeTool(e, t)) \/ StopCloses(e) \/ StopTakes(e)
            \/ StopReturns(e) \/ FileChange(e) \/ Reload(e) \/ Process(e)
  <2>1. UNCHANGED <<pc, failures>>
    BY <1>11 DEF BridgeTool, StopCloses, StopTakes, StopReturns, FileChange, Reload,
         Process, ProcessDies, ReadLoopEnds
  <2>2. ~Starts(e)
    BY <2>1, StartsMove
  <2> QED BY <1>3, <2>1, <2>2
<1> QED
  BY <1>4, <1>5, <1>6, <1>7, <1>8, <1>9, <1>10, <1>11 DEF StepOf, Watch

LEMMA HostsKnownKept ==
  ASSUME TypeOK, NEW e \in Exts, ProcessInv(e), StepOf(e)
  PROVE  HostsKnown(e)'
<1> USE WatchTypes, IndexTypes
<1> USE DEF loopVars, stopVars, Goto
<1>1. /\ pc[e] \in {"loadBridge", "bridge", "watch", "select"} => cur[e] \in {0, Newest(e)}
      /\ pc[e] = "select" => seen[e] \in {0, Newest(e)}
      /\ pc[e] = "stopOld" => seen[e] = Newest(e)
      /\ stopping[e] # "no" => stopped[e]
  BY DEF ProcessInv, HostsKnown
<1>2. ~Starts(e) => Newest(e)' = Newest(e)
  BY NewestKept
<1>3. CASE Spawn(e)
  BY <1>1, <1>3 DEF Spawn, HostsKnown
<1>4. CASE SpawnFails(e)
  BY <1>1, <1>4 DEF SpawnFails, StartFailed, HostsKnown
<1> USE DEF Starts, Spawn, SpawnFails
<1>5. CASE Initialized(e)
  BY <1>1, <1>5 DEF Initialized, HostsKnown
<1>6. CASE InitFails(e)
  BY <1>1, <1>6 DEF InitFails, StartFailed, HostsKnown
<1>7. CASE Install(e)
  BY <1>1, <1>2, <1>7 DEF Install, HostsKnown
<1>8. CASE BridgeRest(e)
  BY <1>1, <1>2, <1>8 DEF BridgeRest, HostsKnown
<1>9. CASE WatchRead(e)
  BY <1>1, <1>2, <1>9 DEF WatchRead, HostsKnown
<1>10. CASE SelectClosed(e) \/ SelectEnd(e) \/ StopOld(e) \/ Unregister(e) \/ BackoffOver(e)
  BY <1>1, <1>10
     DEF SelectClosed, SelectEnd, StopOld, Unregister, BackoffOver, HostsKnown
<1>11. CASE SelectReload(e)
  BY <1>1, <1>2, <1>11 DEF SelectReload, HostsKnown
<1>12. CASE StopCloses(e) \/ StopTakes(e) \/ StopReturns(e)
  <2>1. /\ UNCHANGED <<pc, seen>> /\ cur'[e] \in {0, cur[e]}
        /\ stopped[e] => stopped'[e]
        /\ StopCloses(e) => stopped'[e]
        /\ ~StopCloses(e) => stopping[e] # "no"
    BY <1>12 DEF StopCloses, StopTakes, StopReturns
  <2>2. Newest(e)' = Newest(e)
    <3>1. ~Starts(e)
      BY <2>1, StartsMove
    <3> QED BY <1>2, <3>1
  <2> QED BY <1>1, <2>1, <2>2 DEF HostsKnown
<1>13. CASE \/ (\E t \in Tools : BridgeTool(e, t)) \/ FileChange(e) \/ Reload(e)
            \/ Process(e)
  <2>1. UNCHANGED <<pc, cur, seen, stopped, stopping>>
    BY <1>13 DEF BridgeTool, FileChange, Reload, Process, ProcessDies, ReadLoopEnds
  <2>2. Newest(e)' = Newest(e)
    <3>1. ~Starts(e)
      BY <2>1, StartsMove
    <3> QED BY <1>2, <3>1
  <2> QED BY <1>1, <2>1, <2>2 DEF HostsKnown
<1> QED
  BY <1>3, <1>4, <1>5, <1>6, <1>7, <1>8, <1>9, <1>10, <1>11, <1>12, <1>13
     DEF StepOf, Watch

LEMMA ProcessKept ==
  ASSUME TypeOK, \A e \in Exts : ProcessInv(e), [Next]_vars, NEW f \in Exts
  PROVE  ProcessInv(f)'
<1>1. CASE GlobalStep
  BY <1>1, GlobalUntouched, ProcessUntouched
<1>2. ASSUME NEW e \in Exts, StepOf(e), e # f PROVE ProcessInv(f)'
  BY <1>2, Elsewhere, ProcessUntouched
<1>3. CASE StepOf(f)
  BY <1>3, CountedKept, HostsKnownKept, HostsGoneKept DEF ProcessInv
<1> QED BY <1>1, <1>2, <1>3, Steps

\* Of the hosts that are not being killed, only the newest can serve.
LEMMA OneServes ==
  ASSUME TypeOK, NEW e \in Exts, ProcessInv(e)
  PROVE  Cardinality(IF stopping[e] = "kill" THEN Serving(e) \ {taken[e]}
                     ELSE Serving(e)) <= 1
<1> DEFINE S == IF stopping[e] = "kill" THEN Serving(e) \ {taken[e]} ELSE Serving(e)
<1>1. S \subseteq {Newest(e)}
  <2> SUFFICES ASSUME NEW n \in S, n # Newest(e) PROVE FALSE
    OBVIOUS
  <2>1. n \in 1..Newest(e) /\ Live(hosts[e][n]) /\ ~(stopping[e] = "kill" /\ taken[e] = n)
    BY DEF Serving, Live
  <2>2. n \in 1..(Newest(e) - 1)
    BY <2>1, IndexTypes
  <2> QED BY <2>1, <2>2 DEF ProcessInv, HostsGone, OlderGone, Gone
<1>2. S = {} \/ S = {Newest(e)}
  BY <1>1
<1> HIDE DEF S
<1>3. Cardinality(S) <= 1
  BY <1>2, FS_EmptySet, FS_Singleton
<1> QED BY <1>3 DEF S

-----------------------------------------------------------------------------
(* The registrations.                                                       *)

\* The steps that change what is registered.
Registers(e) == BridgeRest(e) \/ Unregister(e) \/ \E t \in Tools : BridgeTool(e, t)

LEMMA OthersRegisterNothing ==
  ASSUME NEW e \in Exts, StepOf(e), ~Registers(e)
  PROVE  UNCHANGED <<tools, hooks, infos>>
BY DEF StepOf, Watch, Process, Registers, Spawn, SpawnFails, Initialized, InitFails,
   Install, WatchRead, SelectClosed, SelectReload, SelectEnd, StopOld, BackoffOver,
   StopCloses, StopTakes, StopReturns, FileChange, Reload, ProcessDies, ReadLoopEnds,
   appVars

LEMMA RegistersNotStarts ==
  ASSUME TypeOK, NEW e \in Exts, Registers(e)
  PROVE  hosts' = hosts /\ \A f \in Exts : Newest(f)' = Newest(f)
BY DEF Registers, BridgeRest, Unregister, BridgeTool, Newest

\* What a step of e leaves in the tables was there, or is the newest host of e.
LEMMA TablesBefore ==
  ASSUME TypeOK, NEW e \in Exts, ProcessInv(e), Recorded(e), StepOf(e)
  PROVE  /\ \A x \in hooks' : x \in hooks \/ (BridgeRest(e) /\ x = EntryOf(e))
         /\ \A t \in Tools : \/ tools'[t] = tools[t] \/ tools'[t] = None
                             \/ BridgeTool(e, t) /\ tools'[t] = EntryOf(e)
         /\ \A x \in hooks : x.ext # e => x \in hooks'
         /\ \A t \in Tools : t \notin Declared(e) => tools'[t] = tools[t]
<1> USE TableTypes, EntryTypes
<1>1. CASE BridgeRest(e)
  BY <1>1 DEF BridgeRest
<1>2. CASE \E t \in Tools : BridgeTool(e, t)
  BY <1>2 DEF BridgeTool, Recorded
<1>3. CASE Unregister(e)
  <2>1. CASE infos[e] = None
    BY <1>3, <2>1 DEF Unregister, appVars
  <2>2. CASE infos[e] # None
    <3>1. /\ infos[e] = Declared(e) /\ hooks' = hooks \ Entries(e)
          /\ tools' = [t \in Tools |-> IF t \in infos[e] THEN None ELSE tools[t]]
      BY <1>3, <2>2 DEF Unregister, Recorded
    <3>2. \A x \in Entries(e) : x.ext = e
      BY DEF Entries
    <3> QED BY <3>1, <3>2
  <2> QED BY <2>1, <2>2
<1>4. CASE ~Registers(e)
  BY <1>4, OthersRegisterNothing
<1> QED BY <1>1, <1>2, <1>3, <1>4 DEF Registers

\* Without a registration of its own, an extension that has nothing gets nothing.
LEMMA NoneStaysLeft ==
  ASSUME TypeOK, NEW e \in Exts, ProcessInv(e), Recorded(e), StepOf(e),
         NEW f \in Exts, NoneLeft(f), f # e \/ ~Registers(e)
  PROVE  NoneLeft(f)'
<1> USE TableTypes, EntryTypes
<1>1. ~Hooked(f)'
  BY TablesBefore DEF NoneLeft, Hooked, Registers
<1>2. ASSUME NEW t \in Tools, tools'[t] \in Entry, tools'[t].ext = f PROVE FALSE
  <2>1. tools'[t] # None
    BY <1>2, SupervisorAssumption
  <2>2. tools'[t] = tools[t] \/ (BridgeTool(e, t) /\ tools'[t] = EntryOf(e))
    BY <2>1, TablesBefore
  <2>3. tools'[t] = tools[t]
    BY <1>2, <2>2 DEF Registers
  <2> QED BY <1>2, <2>3 DEF NoneLeft, Serves
<1> QED BY <1>1, <1>2 DEF NoneLeft, Serves

LEMMA EntriesKept ==
  ASSUME TypeOK, NEW e \in Exts, ProcessInv(e), EntriesCurrent, Recorded(e), StepOf(e)
  PROVE  EntriesCurrent'
<1> USE TableTypes, EntryTypes, IndexTypes
<1>1. \A f \in Exts \ {e} : Newest(f)' = Newest(f)
  BY HostsElsewhere DEF Newest
<1>2. CASE Starts(e)
  <2>1. NoneLeft(e) /\ ~Registers(e)
    BY <1>2 DEF Starts, Spawn, SpawnFails, Recorded, Vacant, Registers, BridgeRest, Unregister,
       BridgeTool
  <2>2. UNCHANGED <<tools, hooks>>
    BY <2>1, OthersRegisterNothing
  <2>3. \A f \in Exts \ {e} : Declared(f)' = Declared(f)
    BY DeclaredKept
  <2> QED BY <1>1, <2>1, <2>2, <2>3 DEF NoneLeft, Hooked, Serves, EntriesCurrent
<1>3. CASE ~Starts(e)
  <2>1. \A f \in Exts : Newest(f)' = Newest(f)
    BY <1>1, <1>3, NewestKept
  <2>2. ASSUME NEW x \in hooks' PROVE x.host = Newest(x.ext)'
    <3>1. x \in hooks \/ x = EntryOf(e)
      BY TablesBefore
    <3>2. x \in Entry /\ x.host = Newest(x.ext)
      BY <3>1 DEF EntriesCurrent
    <3> QED BY <2>1, <3>2
  <2>3. ASSUME NEW t \in Tools, NEW x \in Entry, tools'[t] = x
        PROVE  x.host = Newest(x.ext)' /\ t \in Declared(x.ext)'
    <3>0. \A f \in Exts : Declared(f)' = Declared(f)
      BY <1>3, DeclaredKept
    <3>1. tools'[t] # None
      BY <2>3, SupervisorAssumption
    <3>2. tools[t] = x \/ (BridgeTool(e, t) /\ x = EntryOf(e))
      BY <2>3, <3>1, TablesBefore
    <3>3. CASE tools[t] = x
      BY <2>1, <3>0, <3>3 DEF EntriesCurrent
    <3>4. CASE BridgeTool(e, t) /\ x = EntryOf(e)
      <4>1. t \in Declared(e)
        BY <3>4 DEF BridgeTool, Recorded
      <4> QED BY <2>1, <3>0, <3>4, <4>1
    <3> QED BY <3>2, <3>3, <3>4
  <2> QED BY <2>2, <2>3 DEF EntriesCurrent, Newest
<1> QED BY <1>2, <1>3

LEMMA InPlaceKept ==
  ASSUME TypeOK, NEW e \in Exts, ProcessInv(e), Recorded(e), StepOf(e),
         NEW f \in Exts, NEW t \in Tools, InPlace(f, t), Newest(f)' = Newest(f),
         f # e \/ ~Unregister(e)
  PROVE  InPlace(f, t)'
<1>1. tools'[t] = tools[t] \/ t \in Declared(e)
  BY TablesBefore
<1>2. EntryOf(f)' = EntryOf(f)
  BY DEF EntryOf
<1>3. CASE tools'[t] = tools[t]
  BY <1>2, <1>3 DEF InPlace, Contested
<1>4. CASE t \in Declared(e) /\ f # e /\ tools'[t] # tools[t]
  <2>1. pc[e] # "load"
    BY <1>4, OthersRegisterNothing DEF Registers, BridgeRest, BridgeTool, Unregister
  <2>2. t \in DeclaredEver(e)
    BY <1>4, <2>1, DeclaredTyped
  <2> QED BY <1>4, <2>2 DEF InPlace, Contested
<1>5. CASE f = e /\ ~Unregister(e)
  <2>1. CASE \E u \in Tools : BridgeTool(e, u)
    <3>1. tools'[t] \in {tools[t], EntryOf(e)}
      BY <2>1, TableTypes DEF BridgeTool
    <3> QED BY <1>2, <1>5, <3>1 DEF InPlace, Contested
  <2>2. CASE ~\E u \in Tools : BridgeTool(e, u)
    <3>1. tools' = tools
      BY <1>5, <2>2, OthersRegisterNothing DEF Registers, BridgeRest
    <3> QED BY <1>3, <3>1
  <2> QED BY <2>1, <2>2
<1> QED BY <1>1, <1>3, <1>4, <1>5

LEMMA RegistryElsewhere ==
  ASSUME TypeOK, NEW e \in Exts, ProcessInv(e), Recorded(e), StepOf(e),
         NEW f \in Exts \ {e}, ProcessInv(f), Recorded(f), Bridged(f)
  PROVE  Recorded(f)' /\ Bridged(f)'
<1>1. Untouched(f)
  BY Elsewhere
<1>2. Newest(f)' = Newest(f) /\ EntryOf(f)' = EntryOf(f)
  BY <1>1 DEF Untouched, Newest, EntryOf
<1>3. NoneLeft(f) => NoneLeft(f)'
  BY NoneStaysLeft
<1>4. \A t \in Tools : InPlace(f, t) => InPlace(f, t)'
  BY <1>2, InPlaceKept
<1>5. EntryOf(f) \in hooks => EntryOf(f) \in hooks'
  BY TablesBefore, EntryTypes
<1>6. /\ Declared(f)' = Declared(f)
      /\ pc[f] # "load" => Declared(f) \subseteq Tools
  BY DeclaredKept, DeclaredTyped
<1>7. Recorded(f)'
  BY <1>1, <1>3, <1>6 DEF Untouched, Recorded, Vacant
<1>8. Bridged(f)'
  BY <1>1, <1>2, <1>4, <1>5, <1>6 DEF Untouched, Bridged
<1> QED BY <1>7, <1>8

LEMMA RegistryUntouched ==
  ASSUME GlobalStep, RegistryInv
  PROVE  RegistryInv'
<1>1. UNCHANGED <<pc, hosts, cur, stopped, todo, tools, hooks, infos>>
  BY DEF GlobalStep, WatcherStart, WatcherStop, ContextEnds, vars, loopVars, appVars,
       diskVars, stopVars
<1>2. EntriesCurrent'
  BY <1>1 DEF RegistryInv, EntriesCurrent, Newest, Declared
<1>3. ASSUME NEW f \in Exts PROVE Recorded(f)'
  BY <1>1 DEF RegistryInv, Recorded, Vacant, NoneLeft, Hooked, Serves,
     Declared, Newest
<1>4. ASSUME NEW f \in Exts PROVE Bridged(f)'
  BY <1>1 DEF RegistryInv, Bridged, InPlace, Contested, EntryOf, Newest,
     Declared
<1> QED BY <1>2, <1>3, <1>4 DEF RegistryInv

-----------------------------------------------------------------------------
\* UnregisterExtension leaves nothing of e.
LEMMA UnregisterClears ==
  ASSUME TypeOK, NEW e \in Exts, ProcessInv(e), EntriesCurrent, Recorded(e),
         Unregister(e)
  PROVE  NoneLeft(e)'
<1> USE TableTypes, EntryTypes, IndexTypes
<1>1. CASE infos[e] = None
  <2>1. NoneLeft(e) /\ UNCHANGED <<tools, hooks>>
    BY <1>1 DEF Unregister, Recorded, Vacant, appVars
  <2> QED BY <2>1 DEF NoneLeft, Hooked, Serves
<1>2. CASE infos[e] # None
  <2>1. /\ infos[e] = Declared(e) /\ hooks' = hooks \ Entries(e)
        /\ tools' = [t \in Tools |-> IF t \in infos[e] THEN None ELSE tools[t]]
    BY <1>2 DEF Unregister, Recorded
  <2>2. Newest(e) \in 1..Newest(e)
    BY DEF Unregister, ProcessInv, Started
  <2>3. ASSUME NEW x \in hooks', x.ext = e PROVE FALSE
    <3>1. x \in hooks /\ x \in Entry /\ x.host = Newest(e)
      BY <2>1, <2>3 DEF EntriesCurrent
    <3>2. x = EntryOf(e)
      BY <2>3, <3>1 DEF Entry, EntryOf
    <3>3. EntryOf(e) \in Entries(e)
      BY <2>2 DEF Entries, EntryOf
    <3> QED BY <2>1, <3>2, <3>3
  <2>4. ASSUME NEW t \in Tools, tools'[t] \in Entry, tools'[t].ext = e PROVE FALSE
    <3>1. tools'[t] # None
      BY <2>4, SupervisorAssumption
    <3>2. tools'[t] = tools[t] /\ t \notin Declared(e)
      BY <2>1, <3>1
    <3> QED BY <2>4, <3>2 DEF EntriesCurrent
  <2> QED BY <2>3, <2>4 DEF NoneLeft, Hooked, Serves
<1> QED BY <1>1, <1>2

\* There is nothing after a step because there was nothing, or it was removed.
LEMMA VacantBefore ==
  ASSUME TypeOK, NEW e \in Exts, ProcessInv(e), Recorded(e), Bridged(e), StepOf(e),
         Vacant(e)'
  PROVE  Unregister(e) \/ (Vacant(e) /\ ~Registers(e))
<1> USE WatchTypes, IndexTypes, TableTypes
<1> USE DEF loopVars, stopVars, appVars, Goto, Vacant
<1>1. CASE Spawn(e)
  BY <1>1 DEF Spawn, Registers, BridgeRest, BridgeTool
<1>2. CASE SpawnFails(e)
  BY <1>2 DEF SpawnFails, StartFailed, Loading, LoadPcs, Registers, BridgeRest, BridgeTool
<1>3. CASE Initialized(e)
  BY <1>3 DEF Initialized, Loading, LoadPcs, Registers, BridgeRest, BridgeTool
<1>4. CASE InitFails(e)
  BY <1>4 DEF InitFails, StartFailed, Loading, LoadPcs, Registers, BridgeRest, BridgeTool
<1>5. ~Install(e)
  BY DEF Install
<1>6. ~BridgeRest(e)
  <2> SUFFICES ASSUME BridgeRest(e) PROVE FALSE
    OBVIOUS
  <2>1. /\ pc[e] \in {"loadBridge", "bridge"} /\ pc'[e] = "watch"
        /\ infos'[e] = Declared(e) /\ UNCHANGED <<cur, stopped>>
    BY DEF BridgeRest
  <2>2. infos'[e] # None
    BY <2>1, DeclaredTyped, SupervisorAssumption
  <2>3. stopped[e] \/ cur[e] # 0
    BY <2>1 DEF Bridged
  <2> QED BY <2>1, <2>2, <2>3
<1>7. ~\E t \in Tools : BridgeTool(e, t)
  BY DEF BridgeTool
<1>8. CASE WatchRead(e) \/ SelectClosed(e) \/ SelectEnd(e)
  BY <1>8 DEF WatchRead, SelectClosed, SelectEnd, Registers, BridgeRest, Unregister,
       BridgeTool
<1>9. CASE SelectReload(e) \/ StopOld(e) \/ BackoffOver(e)
  BY <1>9 DEF SelectReload, StopOld, BackoffOver, Registers, BridgeRest, Unregister,
       BridgeTool
<1>10. CASE StopCloses(e) \/ StopTakes(e) \/ StopReturns(e)
  <2>1. stopping[e] # "no" => stopped[e]
    BY DEF ProcessInv, HostsKnown
  <2>2. UNCHANGED <<pc, infos>> /\ stopped'[e]
    BY <1>10, <2>1 DEF StopCloses, StopTakes, StopReturns
  <2>3. Vacant(e)
    BY <2>2
  <2>4. ~Unregister(e)
    BY <2>2 DEF Unregister
  <2> QED BY <1>6, <1>7, <2>3, <2>4 DEF Registers
<1>11. CASE FileChange(e) \/ Reload(e) \/ Process(e)
  <2>1. UNCHANGED <<pc, infos, stopped, cur>>
    BY <1>11 DEF FileChange, Reload, Process, ProcessDies, ReadLoopEnds
  <2>2. Vacant(e)
    BY <2>1
  <2>3. ~Unregister(e)
    BY <2>1 DEF Unregister
  <2> QED BY <1>6, <1>7, <2>2, <2>3 DEF Registers
<1> QED
  BY <1>1, <1>2, <1>3, <1>4, <1>5, <1>6, <1>7, <1>8, <1>9, <1>10, <1>11
     DEF StepOf, Watch

LEMMA RecordedKept ==
  ASSUME TypeOK, NEW e \in Exts, ProcessInv(e), EntriesCurrent, Recorded(e), Bridged(e),
         StepOf(e)
  PROVE  Recorded(e)'
<1>1. Vacant(e)' => NoneLeft(e)'
  BY VacantBefore, NoneStaysLeft, UnregisterClears DEF Recorded
<1> USE WatchTypes, TableTypes
<1>2. infos'[e] \in {None, Declared(e)'}
  <2>1. CASE BridgeRest(e) \/ Unregister(e)
    <3>1. infos'[e] \in {None, Declared(e)}
      BY <2>1 DEF BridgeRest, Unregister, Recorded, appVars
    <3>2. ~Starts(e)
      BY <2>1 DEF BridgeRest, Unregister, Starts, Spawn, SpawnFails
    <3> QED BY <3>1, <3>2, DeclaredKept
  <2>2. CASE Starts(e)
    <3>1. infos[e] = None /\ infos' = infos
      BY <2>2 DEF Starts, Spawn, SpawnFails, Recorded, Unrecorded, LoadPcs, appVars
    <3> QED BY <3>1
  <2>3. CASE ~Starts(e) /\ ~BridgeRest(e) /\ ~Unregister(e)
    <3>1. infos' = infos
      BY <2>3, OthersRegisterNothing DEF Registers, BridgeTool
    <3> QED BY <2>3, <3>1, DeclaredKept DEF Recorded
  <2> QED BY <2>1, <2>2, <2>3
<1>3. pc'[e] \in {"loadBridge", "bridge"} => todo'[e] \subseteq Declared(e)'
  <2>1. CASE Install(e) \/ \E t \in Tools : BridgeTool(e, t)
    <3>1. ~Starts(e)
      BY <2>1 DEF Install, BridgeTool, Starts, Spawn, SpawnFails
    <3>2. todo'[e] \subseteq Declared(e)
      BY <2>1 DEF Install, BridgeTool, Recorded
    <3> QED BY <3>1, <3>2, DeclaredKept
  <2>2. CASE ~(Install(e) \/ \E t \in Tools : BridgeTool(e, t))
    <3> SUFFICES ASSUME pc'[e] \in {"loadBridge", "bridge"}
                 PROVE  todo'[e] \subseteq Declared(e)'
      OBVIOUS
    <3>1. pc'[e] = pc[e] /\ todo' = todo
      BY <2>2 DEF StepOf, Watch, Process, Spawn, SpawnFails, StartFailed, Initialized,
         InitFails, BridgeRest, WatchRead, SelectClosed, SelectReload, SelectEnd, StopOld,
         Unregister, BackoffOver, StopCloses, StopTakes, StopReturns, FileChange,
         Reload, ProcessDies, ReadLoopEnds, Goto, Loading, LoadPcs
    <3>2. ~Starts(e)
      BY <3>1 DEF Starts, Spawn, SpawnFails
    <3> QED BY <3>1, <3>2, DeclaredKept DEF Recorded
  <2> QED BY <2>1, <2>2
<1>4. pc'[e] \in Unrecorded => infos'[e] = None
  <2> SUFFICES ASSUME pc'[e] \in Unrecorded PROVE infos'[e] = None
    OBVIOUS
  <2>1. CASE Unregister(e)
    BY <2>1 DEF Unregister, appVars
  <2>2. ~BridgeRest(e)
    BY DEF BridgeRest, Goto, Unrecorded, LoadPcs
  <2>3. CASE ~Unregister(e)
    <3>1. infos' = infos
      BY <2>2, <2>3, OthersRegisterNothing DEF Registers, BridgeTool
    <3>2. pc[e] \in Unrecorded
      BY <2>2, <2>3
      DEF StepOf, Watch, Process, Spawn, SpawnFails, StartFailed, Initialized, InitFails,
         Install, BridgeTool, WatchRead, SelectClosed, SelectReload, SelectEnd, StopOld,
         BackoffOver, StopCloses, StopTakes, StopReturns, FileChange, Reload, ProcessDies,
         ReadLoopEnds, Goto, Loading, LoadPcs, Unrecorded
    <3> QED BY <3>1, <3>2 DEF Recorded
  <2> QED BY <2>1, <2>3
<1> QED BY <1>1, <1>2, <1>3, <1>4 DEF Recorded

LEMMA BridgedKept ==
  ASSUME TypeOK, NEW e \in Exts, ProcessInv(e), Recorded(e), Bridged(e), StepOf(e)
  PROVE  Bridged(e)'
<1> USE WatchTypes, IndexTypes
<1> USE DEF loopVars, stopVars, appVars, Goto
<1>t. pc[e] # "load" => Declared(e) \in SUBSET Tools
  BY DeclaredTyped
<1>0. ASSUME ~Starts(e), ~Unregister(e)
      PROVE  /\ EntryOf(e)' = EntryOf(e) /\ Newest(e)' = Newest(e)
             /\ Declared(e)' = Declared(e)
             /\ \A t \in Tools : InPlace(e, t) => InPlace(e, t)'
             /\ EntryOf(e) \in hooks => EntryOf(e) \in hooks'
  <2>1. Newest(e)' = Newest(e) /\ EntryOf(e)' = EntryOf(e)
    BY <1>0, NewestKept DEF EntryOf
  <2>2. \A t \in Tools : InPlace(e, t) => InPlace(e, t)'
    BY <1>0, <2>1, InPlaceKept
  <2>3. hooks \subseteq hooks'
    BY <1>0, OthersRegisterNothing DEF Registers, BridgeRest, BridgeTool
  <2> QED BY <1>0, <2>1, <2>2, <2>3, DeclaredKept
<1>1. ASSUME pc'[e] \notin {"loadBridge", "bridge", "watch", "select"} PROVE Bridged(e)'
  BY <1>1 DEF Bridged
<1>2. CASE Spawn(e)
  BY <1>1, <1>2 DEF Spawn
<1>3. CASE SpawnFails(e)
  BY <1>3 DEF SpawnFails, StartFailed, Bridged
<1>4. CASE Initialized(e)
  BY <1>1, <1>4 DEF Initialized
<1>5. CASE InitFails(e)
  BY <1>5 DEF InitFails, StartFailed, Bridged
<1>6. CASE Install(e)
  <2>1. /\ pc'[e] \in {"loadBridge", "bridge"} /\ cur'[e] = Newest(e)
        /\ todo'[e] = Declared(e) /\ pc[e] # "load" /\ ~Starts(e)
    BY <1>6, TableTypes DEF Install, Starts, Spawn, SpawnFails
  <2>2. Newest(e) # 0 /\ Declared(e)' = Declared(e)
    BY <2>1, DeclaredKept DEF ProcessInv, Started
  <2> QED BY <2>1, <2>2 DEF Bridged
<1>7. ASSUME NEW t \in Tools, BridgeTool(e, t) PROVE Bridged(e)'
  <2>1. ~Starts(e) /\ ~Unregister(e)
    BY <1>7 DEF BridgeTool, Starts, Spawn, SpawnFails, Unregister
  <2>2. /\ UNCHANGED <<pc, cur, stopped>> /\ pc[e] \in {"loadBridge", "bridge"}
        /\ todo'[e] = todo[e] \ {t} /\ tools'[t] = EntryOf(e)
    BY <1>7, TableTypes DEF BridgeTool
  <2>3. InPlace(e, t)'
    BY <1>0, <2>1, <2>2 DEF InPlace
  <2>4. \A u \in Declared(e) \ todo'[e] : InPlace(e, u)'
    <3> SUFFICES ASSUME NEW u \in Declared(e) \ todo'[e], u # t PROVE InPlace(e, u)'
      BY <2>3
    <3>1. u \in Declared(e) \ todo[e] /\ u \in Tools
      BY <1>t, <2>2
    <3> QED BY <1>0, <2>1, <2>2, <3>1 DEF Bridged
  <2> QED BY <1>0, <2>1, <2>2, <2>4 DEF Bridged
<1>8. CASE BridgeRest(e)
  <2>1. ~Starts(e) /\ ~Unregister(e)
    BY <1>8 DEF BridgeRest, Starts, Spawn, SpawnFails, Unregister
  <2>2. /\ UNCHANGED <<cur, stopped>> /\ pc[e] \in {"loadBridge", "bridge"}
        /\ todo[e] = {} /\ EntryOf(e) \in hooks' /\ pc'[e] = "watch"
    BY <1>8 DEF BridgeRest
  <2>3. \A t \in Declared(e) : InPlace(e, t)'
    BY <1>0, <1>t, <2>1, <2>2 DEF Bridged
  <2> QED BY <1>0, <2>1, <2>2, <2>3 DEF Bridged
<1>9. CASE WatchRead(e)
  <2>1. ~Starts(e) /\ ~Unregister(e)
    BY <1>9 DEF WatchRead, Starts, Spawn, SpawnFails, Unregister
  <2>2. UNCHANGED <<cur, stopped>> /\ pc[e] = "watch" /\ pc'[e] = "select"
    BY <1>9 DEF WatchRead
  <2> QED BY <1>0, <1>t, <2>1, <2>2 DEF Bridged
<1>10. CASE \/ SelectClosed(e) \/ SelectReload(e) \/ SelectEnd(e) \/ StopOld(e)
            \/ Unregister(e) \/ BackoffOver(e)
  BY <1>1, <1>10 DEF SelectClosed, SelectReload, SelectEnd, StopOld, Unregister,
       BackoffOver
<1>11. CASE StopCloses(e) \/ StopTakes(e) \/ StopReturns(e)
  <2>1. stopping[e] # "no" => stopped[e]
    BY DEF ProcessInv, HostsKnown
  <2>2. /\ UNCHANGED <<pc, todo>> /\ stopped'[e]
    BY <1>11, <2>1 DEF StopCloses, StopTakes, StopReturns
  <2>3. ~Starts(e) /\ ~Unregister(e)
    BY <2>2, StartsMove DEF Unregister
  <2> QED BY <1>0, <1>t, <2>2, <2>3 DEF Bridged
<1>12. CASE FileChange(e) \/ Reload(e) \/ Process(e)
  <2>1. UNCHANGED <<pc, todo, stopped, cur>>
    BY <1>12 DEF FileChange, Reload, Process, ProcessDies, ReadLoopEnds
  <2>2. ~Starts(e) /\ ~Unregister(e)
    BY <2>1, StartsMove DEF Unregister
  <2> QED BY <1>0, <1>t, <2>1, <2>2 DEF Bridged
<1> QED
  BY <1>2, <1>3, <1>4, <1>5, <1>6, <1>7, <1>8, <1>9, <1>10, <1>11, <1>12
     DEF StepOf, Watch

LEMMA RegistryKept ==
  ASSUME IInv, [Next]_vars
  PROVE  RegistryInv'
<1> USE DEF IInv
<1>1. CASE GlobalStep
  BY <1>1, RegistryUntouched
<1>2. ASSUME NEW e \in Exts, StepOf(e) PROVE RegistryInv'
  <2>1. EntriesCurrent'
    BY <1>2, EntriesKept DEF RegistryInv
  <2>2. Recorded(e)' /\ Bridged(e)'
    BY <1>2, RecordedKept, BridgedKept DEF RegistryInv
  <2>3. \A f \in Exts \ {e} : Recorded(f)' /\ Bridged(f)'
    BY <1>2, RegistryElsewhere DEF RegistryInv
  <2> QED BY <2>1, <2>2, <2>3 DEF RegistryInv
<1> QED BY <1>1, <1>2, Steps

-----------------------------------------------------------------------------
LEMMA InvInit == Init => IInv
<1> SUFFICES ASSUME Init PROVE IInv
  OBVIOUS
<1>1. /\ \A e \in Exts : hosts[e] = <<>> /\ Newest(e) = 0 /\ pc[e] = "load"
      /\ \A e \in Exts : /\ cur[e] = 0 /\ seen[e] = 0 /\ failures[e] = 0
                         /\ stopping[e] = "no" /\ ~stopped[e] /\ todo[e] = {}
                         /\ infos[e] = None
  BY DEF Init, Newest
<1>2. TypeOK
  <2>1. hosts \in [Exts -> Seq(HostState)]
    BY DEF Init
  <2>2. /\ pc \in [Exts -> Pcs] /\ cur \in [Exts -> Nat] /\ seen \in [Exts -> Nat]
        /\ crash \in [Exts -> BOOLEAN] /\ failures \in [Exts -> 0..(MaxRestarts + 1)]
        /\ reloadCh \in [Exts -> BOOLEAN] /\ stopped \in [Exts -> BOOLEAN]
        /\ stopping \in [Exts -> {"no", "take", "kill", "done"}]
        /\ taken \in [Exts -> Nat]
    BY SupervisorAssumption DEF Init, Pcs, LoadPcs
  <2>3. /\ todo \in [Exts -> SUBSET Tools]
        /\ tools \in [Tools -> Entry \cup {None, Builtin}]
        /\ hooks \in SUBSET Entry /\ infos \in [Exts -> {None} \cup SUBSET Tools]
    BY DEF Init
  <2>4. /\ disk \in [Exts -> 0..MaxChanges] /\ noticed \in [Exts -> 0..MaxChanges]
        /\ watching \in {"off", "on", "stopped"} /\ faults \in 0..MaxFaults
    BY SupervisorAssumption DEF Init
  <2>6. armed \in [Exts -> BOOLEAN]
    BY DEF Init
  <2>7. ctxDone \in BOOLEAN
    BY DEF Init
  <2>5. \A e \in Exts : /\ cur[e] <= Len(hosts[e]) /\ seen[e] <= Len(hosts[e])
                        /\ taken[e] <= Len(hosts[e])
    BY <1>1 DEF Init, Newest
  <2> QED BY <2>1, <2>2, <2>3, <2>4, <2>5, <2>6, <2>7 DEF TypeOK
<1>3. ASSUME NEW e \in Exts PROVE ProcessInv(e)
  <2>1. Counted(e) /\ Started(e) /\ HostsKnown(e)
    BY <1>1, SupervisorAssumption DEF Counted, Started, HostsKnown
  <2>2. HostsGone(e)
    BY <1>1 DEF HostsGone, OlderGone, AllGone
  <2> QED BY <2>1, <2>2 DEF ProcessInv
<1>4. RegistryInv
  <2>1. hooks = {} /\ \A t \in Tools : tools[t] \notin Entry
    BY SupervisorAssumption DEF Init
  <2>2. EntriesCurrent /\ \A e \in Exts : NoneLeft(e)
    BY <2>1 DEF EntriesCurrent, NoneLeft, Hooked, Serves
  <2>3. \A e \in Exts : Recorded(e) /\ Bridged(e)
    BY <1>1, <2>2 DEF Recorded, Bridged
  <2> QED BY <2>2, <2>3 DEF RegistryInv
<1> QED BY <1>2, <1>3, <1>4 DEF IInv

LEMMA InvNext == IInv /\ [Next]_vars => IInv'
BY TypeKept, ProcessKept, RegistryKept DEF IInv

LEMMA InvAlways == Spec => []IInv
BY InvInit, InvNext, PTL DEF Spec

\* Every reachable state is well typed, for any number of extensions, restarts,
\* failures and changes of files (Supervisor.watch, ext.App).
THEOREM TypeCorrect == Spec => []TypeOK
<1>1. IInv => TypeOK
  BY DEF IInv
<1> QED BY <1>1, InvAlways, PTL

\* Two processes of one extension never serve together, in whatever order
\* crashes, reloads and Stop come (Supervisor.watch, Host.Stop).
THEOREM NeverTwo == Spec => []OneProcess
<1>1. IInv => OneProcess
  BY OneServes DEF IInv, OneProcess
<1> QED BY <1>1, InvAlways, PTL

\* What is registered for an extension is its newest host and all it declared,
\* but for what it shares with others, and nothing is left between two hosts,
\* whatever the extensions declare (bridge, App.UnregisterExtension).
THEOREM TablesAreCurrent == Spec => []RegistrationsCurrent
<1>1. ASSUME IInv, NEW e \in Exts
      PROVE  /\ Registered(e) \subseteq {Newest(e)}
             /\ NoneLeft(e) => Registered(e) = {}
  <2>0. TypeOK /\ EntriesCurrent
    BY <1>1 DEF IInv, RegistryInv
  <2>1. ASSUME NEW n \in Registered(e) PROVE n = Newest(e) /\ ~NoneLeft(e)
    <3> DEFINE x == [ext |-> e, host |-> n]
    <3>1. n \in 1..Newest(e) /\ (x \in hooks \/ \E t \in Tools : tools[t] = x)
      BY DEF Registered
    <3>2. x \in Entry /\ x.ext = e /\ x.host = n
      BY <3>1, IndexTypes, <2>0 DEF Entry
    <3> HIDE DEF x
    <3>3. n = Newest(e)
      <4>1. x \in hooks => x.host = Newest(x.ext)
        BY <2>0 DEF EntriesCurrent
      <4>2. (\E t \in Tools : tools[t] = x) => x.host = Newest(x.ext)
        BY <2>0, <3>2 DEF EntriesCurrent
      <4> QED BY <3>1, <3>2, <4>1, <4>2
    <3>4. ~NoneLeft(e)
      BY <3>1, <3>2 DEF NoneLeft, Hooked, Serves
    <3> QED BY <3>3, <3>4
  <2> QED BY <2>1
<1>2. IInv => RegistrationsCurrent
  <2> SUFFICES ASSUME IInv, NEW e \in Exts
               PROVE  /\ Registered(e) \subseteq {Newest(e)}
                      /\ pc[e] \in {"backoff", "restart", "handshake", "install"}
                            => Registered(e) = {}
                      /\ pc[e] \in {"watch", "select"} /\ ~stopped[e]
                            => IF cur[e] = 0 THEN Registered(e) = {}
                               ELSE /\ EntryOf(e) \in hooks
                                    /\ \A t \in Declared(e) : \/ tools[t] = EntryOf(e)
                                         \/ \E f \in Exts \ {e} : t \in DeclaredEver(f)
    BY DEF RegistrationsCurrent
  <2>1. Vacant(e) => Registered(e) = {}
    BY <1>1 DEF IInv, RegistryInv, Recorded
  <2>2. pc[e] \in {"watch", "select"} /\ ~stopped[e] /\ cur[e] # 0 =>
          EntryOf(e) \in hooks /\ \A t \in Declared(e) : InPlace(e, t)
    BY DEF IInv, RegistryInv, Bridged
  <2> QED BY <1>1, <2>1, <2>2 DEF Vacant, InPlace, Contested
<1> QED BY <1>2, InvAlways, PTL
=============================================================================
