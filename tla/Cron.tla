-------------------------------- MODULE Cron --------------------------------
(***************************************************************************)
(* The program piglet-cron (cmd/piglet-cron, extensions/cron): started     *)
(* every minute and by hand, it takes a lock on a file, runs the tasks     *)
(* that are due by their schedules and the history of earlier runs, adds   *)
(* the results to the history, trims it, and removes the lock file.        *)
(*                                                                         *)
(* Processes overlap, die at any point and fail to write.  A lock belongs  *)
(* to the file a process has opened and not to its name: files (inodes)    *)
(* are numbered, and the name stands for one of them or for none.          *)
(*                                                                         *)
(* Time is counted in units of which a day has DayLen; all days are alike. *)
(***************************************************************************)
EXTENDS Naturals, Sequences, FiniteSetsExt

CONSTANTS
    Procs,         \* processes of piglet-cron
    Tasks,         \* the tasks of schedules.yaml, all enabled
    ByHand,        \* those somebody runs by name
    None,          \* no task: an ordinary start
    Schedules,     \* what the schedule of each task may be
    DayLen,        \* units of a day
    WeekDays,      \* days of a week
    MaxLines,      \* maxHistoryLines
    MaxStarts,     \* bound: times a process is started
    MaxFaults,     \* bound: processes that die, writes that fail
    MaxTime        \* bound: when time stops

ASSUME CronAssumption ==
    /\ IsFiniteSet(Tasks) /\ ByHand \subseteq Tasks /\ None \notin Tasks \cup Procs
    /\ {DayLen, WeekDays} \subseteq Nat \ {0}
    /\ {MaxLines, MaxStarts, MaxFaults} \subseteq Nat /\ MaxTime \in Nat \ {0}
    /\ \A t \in Tasks : Schedules[t] \subseteq
          [kind : {"every"}, n : Nat \ {0}] \cup [kind : {"daily"}, at : 0..DayLen - 1]
          \cup [kind : {"weekly"}, day : 0..WeekDays - 1, at : 0..DayLen - 1]

Times == 1..MaxTime

\* The zero time: never.
Zero == 0

Files == 1..MaxStarts
NoFile == 0

VARIABLES
    sched,         \* the schedule of each task
    now,
    path,          \* the file with the name of the lock file
    owner,         \* who has locked each file
    pc,            \* where each process is
    fd,            \* the file it has opened
    only,          \* the task named on its command line
    todo,          \* tasks it still runs
    results,       \* what it has to record
    snap,          \* the history as it read it
    failed,        \* a result could not be recorded
    hist,          \* the lines of the history that end with a newline and can be read
    rest,          \* the line behind them that lacks only its newline, if there is one
    torn,          \* the history does not end with a newline
    starts, faults,
    written,       \* how many lines were ever written, but for a newline at most
    acked,         \* those that were written without an error
    cuts,          \* how many writes left a line cut short
    good,          \* the last success of each task among the lines
    ran,           \* when each task last succeeded
    lost,          \* tasks whose last success was not recorded in a line of its own
    stolen         \* a lock file was removed while somebody else had it open

lockVars == <<path, owner, fd>>
workVars == <<only, todo, results, snap, failed>>
file == <<hist, rest, torn>>
ghosts == <<written, acked, cuts, good, ran, lost>>
vars == <<sched, now, path, owner, pc, fd, only, todo, results, snap, failed, hist, rest, torn,
          starts, faults, written, acked, cuts, good, ran, lost, stolen>>

\* A line of the history: a success and its time.  Of a failure nothing is ever
\* read, so its task is None.  The lines are numbered to tell them apart.
Entry == [task : Tasks \cup {None}, at : Times, nr : Nat]
Result == [task : Tasks, ok : BOOLEAN]

TypeOK ==
    /\ sched \in [Tasks -> UNION {Schedules[t] : t \in Tasks}]
    /\ now \in Times /\ path \in Files \cup {NoFile}
    /\ owner \in [Files -> Procs \cup {None}]
    /\ pc \in [Procs -> {"idle", "acquire", "select", "execute", "record", "rotate", "trim",
                         "unlock", "remove"}]
    /\ fd \in [Procs -> Files \cup {NoFile}]
    /\ only \in [Procs -> Tasks \cup {None}] /\ todo \in [Procs -> SUBSET Tasks]
    /\ results \in [Procs -> Seq(Result)] /\ snap \in [Procs -> Seq(Entry)]
    /\ failed \in [Procs -> BOOLEAN]
    /\ hist \in Seq(Entry) /\ rest \in Seq(Entry) /\ torn \in BOOLEAN
    /\ starts \in 0..MaxStarts /\ faults \in 0..MaxFaults
    /\ written \in Nat /\ acked \subseteq 1..written /\ cuts \in Nat
    /\ good \in [Tasks -> Nat]
    /\ ran \in [Tasks -> Times \cup {Zero}] /\ lost \subseteq Tasks
    /\ stolen \in BOOLEAN

Init ==
    /\ sched \in {s \in [Tasks -> UNION {Schedules[t] : t \in Tasks}] :
                     \A t \in Tasks : s[t] \in Schedules[t]}
    /\ now = 1 /\ path = NoFile
    /\ owner = [f \in Files |-> None]
    /\ pc = [p \in Procs |-> "idle"] /\ fd = [p \in Procs |-> NoFile]
    /\ only = [p \in Procs |-> None] /\ todo = [p \in Procs |-> {}]
    /\ results = [p \in Procs |-> <<>>] /\ snap = [p \in Procs |-> <<>>]
    /\ failed = [p \in Procs |-> FALSE]
    /\ hist = <<>> /\ rest = <<>> /\ torn = FALSE
    /\ written = 0 /\ acked = {} /\ cuts = 0 /\ good = [t \in Tasks |-> 0]
    /\ starts = 0 /\ faults = 0
    /\ ran = [t \in Tasks |-> Zero] /\ lost = {} /\ stolen = FALSE

-----------------------------------------------------------------------------
(***************************************************************************)
(* Schedules and history.                                                  *)
(***************************************************************************)

\* The history as ReadHistory returns it: what is not a line is skipped.
Lines == hist \o rest

\* Mutation: the history is searched from its beginning.
LastRunFirst(entries, t) ==
    LET successes == {i \in DOMAIN entries : entries[i].task = t}
    IN  IF successes = {} THEN Zero ELSE entries[Min(successes)].at

\* The latest success of a task the history knows.
LastRun(entries, t) ==
    LET successes == {i \in DOMAIN entries : entries[i].task = t}
    IN  IF successes = {} THEN Zero ELSE entries[Max(successes)].at

\* When a task has its turn today, or on its day of the week: today or later.
Midnight(time) == (time \div DayLen) * DayLen
DaysUntil(day, time) == (day + WeekDays - ((time \div DayLen) % WeekDays)) % WeekDays
Target(s) ==
    IF s.kind = "daily" THEN Midnight(now) + s.at
    ELSE Midnight(now) + DaysUntil(s.day, now) * DayLen + s.at

\* How often it has one.
Period(s) ==
    CASE s.kind = "every" -> s.n
      [] s.kind = "daily" -> DayLen
      [] s.kind = "weekly" -> WeekDays * DayLen

\* A task that has a time of day also runs when it has missed its time by more
\* than a period.
ShouldRun(s, last) ==
    IF s.kind = "every" THEN last = Zero \/ now - last >= s.n
    ELSE \/ last # Zero /\ now - last > Period(s)
         \/ (last = Zero \/ last < Target(s)) /\ now >= Target(s)

Due(p, entries) ==
    IF only[p] # None THEN {only[p]}
    ELSE {t \in Tasks : ShouldRun(sched[t], LastRun(entries, t))}

\* Mutation: the oldest lines are kept.
TrimmedOldest(entries) == SubSeq(entries, 1, MaxLines)

\* RotateHistory keeps the newest lines.
Trimmed(entries) == SubSeq(entries, Len(entries) - MaxLines + 1, Len(entries))

-----------------------------------------------------------------------------
(***************************************************************************)
(* The lock.                                                               *)
(***************************************************************************)

Goto(p, step) == pc' = [pc EXCEPT ![p] = step]

\* A start, with or without a task to run whatever its schedule says.  The lock
\* file is opened, and made if its name is free.
Start(p) ==
    /\ pc[p] = "idle" /\ starts < MaxStarts
    /\ starts' = starts + 1
    /\ \E t \in ByHand \cup {None} : only' = [only EXCEPT ![p] = t]
    /\ path' = IF path = NoFile THEN starts + 1 ELSE path
    /\ fd' = [fd EXCEPT ![p] = path']
    /\ Goto(p, "acquire")
    /\ UNCHANGED <<sched, now, owner, todo, results, snap, failed, file, faults, ghosts,
                   stolen>>

\* Mutation: the lock is shared.
LockShared(p) ==
    /\ pc[p] = "acquire"
    /\ owner' = [owner EXCEPT ![fd[p]] = p]
    /\ Goto(p, "select")
    /\ UNCHANGED <<sched, now, path, fd, workVars, file, starts, faults, ghosts, stolen>>

\* flock without waiting.
Lock(p) ==
    /\ pc[p] = "acquire" /\ owner[fd[p]] = None
    /\ owner' = [owner EXCEPT ![fd[p]] = p]
    /\ Goto(p, "select")
    /\ UNCHANGED <<sched, now, path, fd, workVars, file, starts, faults, ghosts, stolen>>

\* The process is gone: what it had open is closed, and what it had locked free.
Quit(p) ==
    /\ Goto(p, "idle")
    /\ fd' = [fd EXCEPT ![p] = NoFile]
    /\ owner' = [f \in Files |-> IF owner[f] = p THEN None ELSE owner[f]]
    /\ only' = [only EXCEPT ![p] = None]
    /\ todo' = [todo EXCEPT ![p] = {}]
    /\ results' = [results EXCEPT ![p] = <<>>]
    /\ snap' = [snap EXCEPT ![p] = <<>>]
    /\ failed' = [failed EXCEPT ![p] = FALSE]

\* Another process has the lock: this one ends, without an error.
Refused(p) ==
    /\ pc[p] = "acquire" /\ owner[fd[p]] # None
    /\ Quit(p)
    /\ UNCHANGED <<sched, now, path, file, starts, faults, ghosts, stolen>>

\* Release unlocks and closes the file, and then removes its name.
Unlock(p) ==
    /\ pc[p] = "unlock"
    /\ owner' = [owner EXCEPT ![fd[p]] = None]
    /\ fd' = [fd EXCEPT ![p] = NoFile]
    /\ Goto(p, "remove")
    /\ UNCHANGED <<sched, now, path, workVars, file, starts, faults, ghosts, stolen>>

Remove(p) ==
    /\ pc[p] = "remove"
    /\ path' = NoFile
    /\ stolen' = (stolen \/ (path # NoFile /\ \E q \in Procs : fd[q] = path))
    /\ Quit(p)
    /\ UNCHANGED <<sched, now, file, starts, faults, ghosts>>

-----------------------------------------------------------------------------
(***************************************************************************)
(* The run.                                                                *)
(***************************************************************************)

\* Tasks are chosen by the history, or by its beginning if the rest cannot be
\* read.
SelectBy(p, entries) ==
    /\ pc[p] = "select"
    /\ todo' = [todo EXCEPT ![p] = Due(p, entries)]
    /\ Goto(p, IF todo'[p] = {} THEN "unlock" ELSE "execute")
    /\ UNCHANGED <<sched, now, lockVars, only, results, snap, failed, file, starts, ghosts,
                   stolen>>

Select(p) == SelectBy(p, Lines) /\ UNCHANGED faults
SelectBlindly(p) ==
    /\ faults < MaxFaults /\ faults' = faults + 1
    /\ \E n \in 0..Len(Lines) : SelectBy(p, SubSeq(Lines, 1, n))

\* The tasks run at the same time and end in any order, after a time limit at the
\* latest; an interrupt makes those that still run fail.
TaskEnds(p) ==
    /\ pc[p] = "execute"
    /\ \E t \in todo[p], ok \in BOOLEAN :
          /\ todo' = [todo EXCEPT ![p] = @ \ {t}]
          /\ results' = [results EXCEPT ![p] = Append(@, [task |-> t, ok |-> ok])]
          /\ ran' = IF ok THEN [ran EXCEPT ![t] = now] ELSE ran
          /\ Goto(p, IF todo'[p] = {} THEN "record" ELSE "execute")
    /\ UNCHANGED <<sched, now, lockVars, only, snap, failed, file, starts, faults, written,
                   acked, cuts, good, lost, stolen>>

\* The line of a result, with the time of the writing.
Line(r) == [task |-> IF r.ok THEN r.task ELSE None, at |-> IF r.ok THEN now ELSE 1,
            nr |-> written + 1]

\* When all have ended their results are added.  A line that is added to one that was
\* cut short is glued to it: neither can be read, and no error says so.
Record(p) ==
    /\ pc[p] = "record" /\ results[p] # <<>>
    /\ LET r == Head(results[p])
       IN  /\ hist' = IF torn THEN hist ELSE Append(hist, Line(r))
           /\ good' = IF r.ok THEN [good EXCEPT ![r.task] = written + 1] ELSE good
           /\ lost' = IF ~r.ok THEN lost
                      ELSE IF torn THEN lost \cup {r.task} ELSE lost \ {r.task}
    /\ rest' = <<>> /\ torn' = FALSE
    /\ written' = written + 1 /\ acked' = acked \cup {written + 1}
    /\ results' = [results EXCEPT ![p] = Tail(@)]
    /\ Goto(p, IF results'[p] = <<>> THEN "rotate" ELSE "record")
    /\ UNCHANGED <<sched, now, lockVars, only, todo, snap, failed, starts, faults, cuts, ran,
                   stolen>>

\* What a write that does not come to its end leaves of the next line of p: nothing, a
\* piece of it, or all but the newline, which can be read as long as nothing is added.
CutShort(p) ==
    \/ UNCHANGED <<rest, torn, written, cuts>>
    \/ /\ torn' = TRUE /\ cuts' = cuts + 1
       /\ \/ rest' = <<>> /\ UNCHANGED written
          \/ ~torn /\ rest' = <<Line(Head(results[p]))>> /\ written' = written + 1

\* A result that cannot be written is passed over, and the next one tried.
RecordFails(p) ==
    /\ pc[p] = "record" /\ results[p] # <<>> /\ faults < MaxFaults
    /\ faults' = faults + 1
    /\ failed' = [failed EXCEPT ![p] = TRUE]
    /\ CutShort(p)
    /\ lost' = IF Head(results[p]).ok THEN lost \cup {Head(results[p]).task} ELSE lost
    /\ results' = [results EXCEPT ![p] = Tail(@)]
    /\ Goto(p, IF results'[p] = <<>> THEN "rotate" ELSE "record")
    /\ UNCHANGED <<sched, now, lockVars, only, todo, snap, hist, starts, acked, good, ran,
                   stolen>>

\* An error ends the process at once, without the deferred Release.
Return(p) ==
    IF failed[p] THEN Quit(p)
    ELSE /\ Goto(p, "unlock")
         /\ snap' = [snap EXCEPT ![p] = <<>>]
         /\ UNCHANGED <<owner, fd, only, todo, results, failed>>

\* The history is read again to see whether it has become too long.
Rotate(p) ==
    /\ pc[p] = "rotate"
    /\ IF Len(Lines) > MaxLines
       THEN /\ snap' = [snap EXCEPT ![p] = Lines]
            /\ Goto(p, "trim")
            /\ UNCHANGED <<owner, fd, only, todo, results, failed>>
       ELSE Return(p)
    /\ UNCHANGED <<sched, now, path, file, starts, faults, ghosts, stolen>>

\* A trimmed copy takes the place of the history, every line with its newline.
Trim(p) ==
    /\ pc[p] = "trim"
    /\ hist' = Trimmed(snap[p]) /\ rest' = <<>> /\ torn' = FALSE
    /\ Return(p)
    /\ UNCHANGED <<sched, now, path, starts, faults, ghosts, stolen>>

\* It stays as it is when the history cannot be read or the copy not be made.
RotateFails(p) ==
    /\ pc[p] \in {"rotate", "trim"} /\ faults < MaxFaults
    /\ faults' = faults + 1
    /\ Return(p)
    /\ UNCHANGED <<sched, now, path, file, starts, ghosts, stolen>>

-----------------------------------------------------------------------------
Tick ==
    /\ now < MaxTime /\ now' = now + 1
    /\ UNCHANGED <<sched, lockVars, pc, workVars, file, starts, faults, ghosts, stolen>>

\* The process is killed, in the middle of a write perhaps.  What it has run and not
\* recorded is forgotten.
Crash(p) ==
    /\ pc[p] # "idle" /\ faults < MaxFaults
    /\ faults' = faults + 1
    /\ IF pc[p] = "record" THEN CutShort(p) ELSE UNCHANGED <<rest, torn, written, cuts>>
    /\ lost' = lost \cup {results[p][i].task : i \in {j \in DOMAIN results[p] : results[p][j].ok}}
    /\ Quit(p)
    /\ UNCHANGED <<sched, now, path, hist, starts, acked, good, ran, stolen>>

Process(p) ==
    \/ Start(p) \/ Lock(p) \/ Refused(p) \/ Unlock(p) \/ Remove(p)
    \/ Select(p) \/ SelectBlindly(p) \/ TaskEnds(p) \/ Record(p) \/ RecordFails(p)
    \/ Rotate(p) \/ Trim(p) \/ RotateFails(p)

Next == Tick \/ \E p \in Procs : Process(p) \/ Crash(p)

Spec == Init /\ [][Next]_vars

-----------------------------------------------------------------------------
(***************************************************************************)
(* Properties.                                                             *)
(***************************************************************************)

AtWork == {p \in Procs : pc[p] \in {"select", "execute", "record", "rotate", "trim",
                                    "unlock"}}

\* Only one process runs tasks at a time, as Acquire promises, whoever dies and
\* whoever is started meanwhile.  The exception is a lock file that Release
\* removes after somebody else has opened or locked it: the next process then
\* makes a new one and locks that.
OneAtATime == ~stolen => \A p, q \in AtWork : p = q

\* The lines that were written without an error and cannot be read, although newer
\* ones than maxHistoryLines do not explain it.
Missing ==
    LET kept == {Lines[i].nr : i \in DOMAIN Lines}
    IN  {n \in acked \ kept : Len(Lines) >= MaxLines => \E m \in kept : m < n}

\* The history is read in the order of writing.  Trimming it, or dying while trimming,
\* costs no newer line; a write that is cut short costs at most one that was written
\* without an error, the next, to which its piece is glued.
HistoryKept ==
    ~stolen =>
        /\ \A i, j \in DOMAIN Lines : i < j => Lines[i].nr < Lines[j].nr
        /\ Cardinality(Missing) <= cuts

\* What has a time of day runs between two of its times: the number of times
\* that have come.
Turns(s, time) ==
    IF s.kind = "daily" THEN (time + DayLen - s.at) \div DayLen
    ELSE (time + Period(s) - (s.day * DayLen + s.at)) \div Period(s)

\* The last success is on record: it was written without an error and not behind a
\* line cut short, is among the lines that are kept, and nobody else was at work.
OnRecord(t) == ~stolen /\ t \notin lost /\ good[t] + MaxLines > written

\* A task that succeeded does not run again, unless it is asked for by name,
\* before its interval is over or its next time of day or week has come: however
\* long it took, whatever failed before, and however often piglet-cron is started.
\* This needs the success on record: a history that is full of other tasks
\* forgets it, a line cut short takes the next one with it, and then the task runs
\* twice a day.
OncePerPeriod ==
    [][ \A p \in Procs, t \in Tasks :
          /\ pc[p] = "select" /\ pc'[p] = "execute" /\ only[p] = None
          /\ UNCHANGED faults /\ t \in todo'[p] /\ ran[t] # Zero /\ OnRecord(t)
          => IF sched[t].kind = "every" THEN now - ran[t] >= sched[t].n
             ELSE Turns(sched[t], ran[t]) < Turns(sched[t], now) ]_vars
=============================================================================
