----------------------------- MODULE Cron_proofs -----------------------------
(***************************************************************************)
(* Proofs about Cron, for any number of processes, tasks, starts and       *)
(* faults, any schedules, any length of a day, a week and a history.       *)
(***************************************************************************)
EXTENDS Cron, SequenceTheorems, FiniteSetTheorems, TLAPS

\* What holds whatever happens to the lock file.
Stages ==
    /\ \A t \in Tasks : sched[t] \in Schedules[t]
    /\ \A p \in Procs : /\ p \in AtWork \/ pc[p] = "acquire" => fd[p] # NoFile
                        /\ pc[p] \notin {"execute", "record"} => results[p] = <<>>
                        /\ pc[p] = "record" => results[p] # <<>>
                        /\ pc[p] = "trim" => Len(snap[p]) > MaxLines

\* As long as no lock file was removed under somebody, there is one, and who is
\* at work has locked it.
LockHeld == \A p \in Procs : /\ fd[p] \in {NoFile, path}
                             /\ p \in AtWork => owner[fd[p]] = p

\* The lines have rising numbers.
Numbered(s) ==
    /\ \A i \in DOMAIN s : s[i].nr \in 1..written
    /\ \A i, j \in DOMAIN s : i <= j => s[j].nr - s[i].nr >= j - i

\* A line without its newline is the last ever written, and of no recorded success.
RestKept ==
    rest # <<>> =>
        /\ torn /\ Len(rest) = 1 /\ rest[1].nr = written /\ written > 0
        /\ rest[1].task \in lost \cup {None}
        /\ \A i \in DOMAIN hist : hist[i].nr < written
        /\ \A t \in Tasks : good[t] < written

\* The lines that are missing among those that end with a newline.
Gone ==
    {n \in acked : /\ \A i \in DOMAIN hist : hist[i].nr # n
                   /\ Len(hist) >= MaxLines => \E i \in DOMAIN hist : hist[i].nr < n}

\* Every line that is missing has followed one cut short, and the next may.  Who trims
\* the history has all of it.
LinesKept ==
    /\ Numbered(hist) /\ RestKept
    /\ \A t \in Tasks : good[t] <= written
    /\ Cardinality(Gone) + (IF torn THEN 1 ELSE 0) <= cuts
    /\ \A p \in Procs : pc[p] = "trim" => snap[p] = Lines /\ Len(Lines) > MaxLines

\* Nobody still has to record a success of t.
Settled(t) == \A p \in Procs : \A i \in DOMAIN results[p] :
                 ~(results[p][i].ok /\ results[p][i].task = t)

\* The line of the last success of t is later than it, and no line of t is later.  It is
\* there, or there are maxHistoryLines that are later.
LastKept(t) ==
    /\ good[t] \in 1..written
    /\ \A i \in DOMAIN hist : hist[i].nr = good[t] => hist[i].task = t /\ ran[t] <= hist[i].at
    /\ \A i \in DOMAIN hist : hist[i].task = t => hist[i].nr <= good[t]
    /\ \/ \E i \in DOMAIN hist : hist[i].nr = good[t]
       \/ Len(hist) >= MaxLines /\ \A i \in DOMAIN hist : hist[i].nr > good[t]
InThePast == /\ \A i \in DOMAIN hist : hist[i].at <= now
             /\ \A i \in DOMAIN rest : rest[i].at <= now
             /\ \A t \in Tasks : ran[t] <= now
SuccessKept == \A t \in Tasks : t \notin lost /\ ran[t] # Zero /\ Settled(t) => LastKept(t)

SafeInv == LockHeld /\ LinesKept /\ InThePast /\ SuccessKept
IInv == TypeOK /\ Stages /\ (~stolen => SafeInv)

-----------------------------------------------------------------------------
(* Types.                                                                   *)

PcType == [Procs -> {"idle", "acquire", "select", "execute", "record", "rotate", "trim",
                     "unlock", "remove"}]
FilesOK ==
    /\ path \in Files \cup {NoFile} /\ owner \in [Files -> Procs \cup {None}]
    /\ fd \in [Procs -> Files \cup {NoFile}]
WorkOK ==
    /\ only \in [Procs -> Tasks \cup {None}] /\ todo \in [Procs -> SUBSET Tasks]
    /\ results \in [Procs -> Seq(Result)] /\ snap \in [Procs -> Seq(Entry)]
    /\ failed \in [Procs -> BOOLEAN]
BooksOK ==
    /\ hist \in Seq(Entry) /\ rest \in Seq(Entry) /\ torn \in BOOLEAN
    /\ written \in Nat /\ acked \subseteq 1..written /\ cuts \in Nat /\ good \in [Tasks -> Nat]
    /\ ran \in [Tasks -> Times \cup {Zero}] /\ lost \subseteq Tasks
RestOK ==
    /\ sched \in [Tasks -> UNION {Schedules[t] : t \in Tasks}] /\ now \in Times
    /\ starts \in 0..MaxStarts /\ faults \in 0..MaxFaults /\ stolen \in BOOLEAN

LEMMA TypeParts ==
  TypeOK <=> pc \in PcType /\ FilesOK /\ WorkOK /\ BooksOK /\ RestOK
BY DEF TypeOK, PcType, FilesOK, WorkOK, BooksOK, RestOK

LEMMA Constants ==
  /\ MaxLines \in Nat /\ MaxStarts \in Nat /\ MaxFaults \in Nat /\ MaxTime \in Nat \ {0}
  /\ DayLen \in Nat \ {0} /\ WeekDays \in Nat \ {0}
  /\ ByHand \subseteq Tasks /\ None \notin Tasks /\ None \notin Procs
BY CronAssumption

\* What has to be recorded, and what is read or written of the history.
LEMMA Recordings ==
  ASSUME TypeOK, NEW p \in Procs
  PROVE  /\ results[p] \in Seq(Result) /\ Len(results[p]) \in Nat
         /\ \A i \in DOMAIN results[p] : results[p][i] \in Result
         /\ results[p] # <<>> =>
              /\ Head(results[p]) = results[p][1] /\ 1 \in DOMAIN results[p]
              /\ Head(results[p]) \in Result /\ Tail(results[p]) \in Seq(Result)
              /\ \A i \in DOMAIN Tail(results[p]) :
                    Tail(results[p])[i] = results[p][i + 1] /\ i + 1 \in DOMAIN results[p]
              /\ \A i \in DOMAIN results[p] : i = 1 \/
                    (i - 1 \in DOMAIN Tail(results[p]) /\ Tail(results[p])[i - 1] = results[p][i])
         /\ \A r \in Result : /\ Append(results[p], r) \in Seq(Result)
                              /\ \A i \in DOMAIN Append(results[p], r) :
                                   \/ Append(results[p], r)[i] = r
                                   \/ /\ i \in DOMAIN results[p]
                                      /\ Append(results[p], r)[i] = results[p][i]
                              /\ \A i \in DOMAIN results[p] :
                                   /\ i \in DOMAIN Append(results[p], r)
                                   /\ Append(results[p], r)[i] = results[p][i]
                              /\ Len(results[p]) + 1 \in DOMAIN Append(results[p], r)
                              /\ Append(results[p], r)[Len(results[p]) + 1] = r
<1>1. results[p] \in Seq(Result)
  BY TypeParts DEF WorkOK
<1>2. /\ Len(results[p]) \in Nat /\ DOMAIN results[p] = 1..Len(results[p])
      /\ \A i \in DOMAIN results[p] : results[p][i] \in Result
  BY <1>1, LenProperties, ElementOfSeq
<1>3. ASSUME results[p] # <<>>
      PROVE  /\ Head(results[p]) = results[p][1] /\ 1 \in DOMAIN results[p]
             /\ Head(results[p]) \in Result /\ Tail(results[p]) \in Seq(Result)
             /\ \A i \in DOMAIN Tail(results[p]) :
                    Tail(results[p])[i] = results[p][i + 1] /\ i + 1 \in DOMAIN results[p]
             /\ \A i \in DOMAIN results[p] : i = 1 \/
                    (i - 1 \in DOMAIN Tail(results[p]) /\ Tail(results[p])[i - 1] = results[p][i])
  <2>1. Len(results[p]) > 0
    BY <1>1, <1>2, <1>3, EmptySeq
  <2>2. /\ Head(results[p]) \in Result /\ Tail(results[p]) \in Seq(Result)
        /\ Len(Tail(results[p])) = Len(results[p]) - 1
        /\ \A i \in 1..Len(Tail(results[p])) : Tail(results[p])[i] = results[p][i + 1]
    BY <1>1, <1>3, HeadTailProperties
  <2>3. DOMAIN Tail(results[p]) = 1..(Len(results[p]) - 1)
    BY <2>2, LenProperties
  <2> QED BY <1>2, <2>1, <2>2, <2>3
<1>4. ASSUME NEW r \in Result
      PROVE  /\ Append(results[p], r) \in Seq(Result)
             /\ DOMAIN Append(results[p], r) = 1..(Len(results[p]) + 1)
             /\ \A i \in 1..Len(results[p]) : Append(results[p], r)[i] = results[p][i]
             /\ Append(results[p], r)[Len(results[p]) + 1] = r
  BY <1>1, <1>2, AppendProperties, LenProperties
<1>5. \A i \in 1..(Len(results[p]) + 1) : i \in 1..Len(results[p]) \/ i = Len(results[p]) + 1
  BY <1>2
<1>6. ASSUME NEW r \in Result
      PROVE  /\ Append(results[p], r) \in Seq(Result)
             /\ \A i \in DOMAIN Append(results[p], r) :
                  \/ Append(results[p], r)[i] = r
                  \/ i \in DOMAIN results[p] /\ Append(results[p], r)[i] = results[p][i]
             /\ \A i \in DOMAIN results[p] :
                  /\ i \in DOMAIN Append(results[p], r)
                  /\ Append(results[p], r)[i] = results[p][i]
             /\ Len(results[p]) + 1 \in DOMAIN Append(results[p], r)
             /\ Append(results[p], r)[Len(results[p]) + 1] = r
  BY <1>2, <1>4, <1>5
<1> QED BY <1>1, <1>2, <1>3, <1>6

LEMMA Histories ==
  ASSUME TypeOK
  PROVE  /\ Len(hist) \in Nat /\ DOMAIN hist = 1..Len(hist)
         /\ \A i \in DOMAIN hist : hist[i] \in Entry
         /\ \A x \in Entry : /\ Append(hist, x) \in Seq(Entry)
                             /\ DOMAIN Append(hist, x) = 1..(Len(hist) + 1)
                             /\ Len(Append(hist, x)) = Len(hist) + 1
                             /\ \A i \in 1..Len(hist) : Append(hist, x)[i] = hist[i]
                             /\ Append(hist, x)[Len(hist) + 1] = x
         /\ Len(rest) \in Nat /\ DOMAIN rest = 1..Len(rest)
         /\ \A i \in DOMAIN rest : rest[i] \in Entry
         /\ Lines \in Seq(Entry) /\ Len(Lines) = Len(hist) + Len(rest)
         /\ DOMAIN Lines = 1..(Len(hist) + Len(rest))
         /\ \A i \in 1..(Len(hist) + Len(rest)) :
                Lines[i] = IF i <= Len(hist) THEN hist[i] ELSE rest[i - Len(hist)]
<1>1. hist \in Seq(Entry) /\ rest \in Seq(Entry)
  BY TypeParts DEF BooksOK
<1>2. /\ hist \o rest \in Seq(Entry) /\ Len(hist \o rest) = Len(hist) + Len(rest)
      /\ \A i \in 1..(Len(hist) + Len(rest)) :
             (hist \o rest)[i] = IF i <= Len(hist) THEN hist[i] ELSE rest[i - Len(hist)]
  BY <1>1, ConcatProperties
<1>3. DOMAIN (hist \o rest) = 1..(Len(hist) + Len(rest))
  BY <1>2, LenProperties
<1> QED BY <1>1, <1>2, <1>3, LenProperties, ElementOfSeq, AppendProperties DEF Lines

LEMMA TrimmedLines ==
  ASSUME NEW s \in Seq(Entry), Len(s) > MaxLines
  PROVE  /\ Trimmed(s) \in Seq(Entry) /\ Len(Trimmed(s)) = MaxLines
         /\ DOMAIN Trimmed(s) = 1..MaxLines
         /\ \A i \in 1..MaxLines : /\ Trimmed(s)[i] = s[Len(s) - MaxLines + i]
                                   /\ Len(s) - MaxLines + i \in DOMAIN s
<1> DEFINE m == Len(s) - MaxLines + 1
<1>1. /\ Len(s) \in Nat /\ DOMAIN s = 1..Len(s) /\ \A i \in 1..Len(s) : s[i] \in Entry
      /\ m \in Int /\ Len(s) - m + 1 = MaxLines /\ 1 <= m /\ m <= Len(s) + 1
  BY LenProperties, ElementOfSeq, Constants
<1>2. \A i \in m..Len(s) : s[i] \in Entry
  BY <1>1
<1>3. /\ SubSeq(s, m, Len(s)) \in Seq(Entry)
      /\ Len(SubSeq(s, m, Len(s))) = IF m <= Len(s) THEN Len(s) - m + 1 ELSE 0
      /\ \A i \in 1..(Len(s) - m + 1) : SubSeq(s, m, Len(s))[i] = s[m + i - 1]
  <2> HIDE DEF m
  <2> QED BY <1>1, <1>2, SubSeqProperties
<1>4. Len(SubSeq(s, m, Len(s))) = MaxLines
  BY <1>1, <1>3, Constants
<1>5. Trimmed(s) = SubSeq(s, m, Len(s))
  BY DEF Trimmed
<1>6. \A i \in 1..MaxLines : /\ m + i - 1 = Len(s) - MaxLines + i
                             /\ Len(s) - MaxLines + i \in DOMAIN s
  BY <1>1, Constants
<1> HIDE DEF m
<1>7. DOMAIN SubSeq(s, m, Len(s)) = 1..MaxLines
  BY <1>3, <1>4, LenProperties
<1> QED BY <1>1, <1>3, <1>4, <1>5, <1>6, <1>7

LEMMA QuitTypes ==
  ASSUME TypeOK, NEW p \in Procs, Quit(p)
  PROVE  /\ pc' \in PcType /\ WorkOK' /\ fd' \in [Procs -> Files \cup {NoFile}]
         /\ owner' \in [Files -> Procs \cup {None}]
<1> USE DEF Quit, Goto
<1>1. pc' \in PcType
  BY TypeParts DEF PcType
<1>2. only' \in [Procs -> Tasks \cup {None}] /\ todo' \in [Procs -> SUBSET Tasks]
  BY TypeParts DEF WorkOK
<1>3. results' \in [Procs -> Seq(Result)] /\ snap' \in [Procs -> Seq(Entry)]
  BY TypeParts DEF WorkOK
<1>4. failed' \in [Procs -> BOOLEAN]
  BY TypeParts DEF WorkOK
<1>5. fd' \in [Procs -> Files \cup {NoFile}]
  BY TypeParts DEF FilesOK
<1>6. owner' \in [Files -> Procs \cup {None}]
  BY TypeParts DEF FilesOK
<1> QED BY <1>1, <1>2, <1>3, <1>4, <1>5, <1>6 DEF WorkOK

LEMMA ReturnTypes ==
  ASSUME TypeOK, NEW p \in Procs, Return(p)
  PROVE  /\ pc' \in PcType /\ WorkOK' /\ fd' \in [Procs -> Files \cup {NoFile}]
         /\ owner' \in [Files -> Procs \cup {None}]
<1>1. CASE failed[p]
  BY <1>1, QuitTypes DEF Return
<1>2. CASE ~failed[p]
  <2>1. /\ pc' = [pc EXCEPT ![p] = "unlock"] /\ snap' = [snap EXCEPT ![p] = <<>>]
        /\ UNCHANGED <<owner, fd, only, todo, results, failed>>
    BY <1>2 DEF Return, Goto
  <2>2. pc' \in PcType
    BY <2>1, TypeParts DEF PcType
  <2>3. WorkOK'
    BY <2>1, TypeParts DEF WorkOK
  <2> QED BY <2>1, <2>2, <2>3, TypeParts DEF FilesOK
<1> QED BY <1>1, <1>2

LEMMA LineTyped ==
  ASSUME TypeOK, NEW r \in Result
  PROVE  Line(r) \in Entry /\ r.task \in Tasks /\ r.ok \in BOOLEAN
<1>1. r.task \in Tasks /\ r.ok \in BOOLEAN
  BY DEF Result
<1>2. now \in Times /\ 1 \in Times /\ written + 1 \in Nat
  BY TypeParts, Constants DEF RestOK, BooksOK, Times
<1> QED BY <1>1, <1>2 DEF Line, Entry

\* What a write that is cut short changes of the books.
LEMMA CutTypes ==
  ASSUME TypeOK, NEW p \in Procs, results[p] # <<>>, CutShort(p)
  PROVE  /\ rest' \in Seq(Entry) /\ torn' \in BOOLEAN /\ written' \in Nat /\ cuts' \in Nat
         /\ written' >= written
<1> DEFINE r == Head(results[p])
<1>1. Line(r) \in Entry
  BY Recordings, LineTyped
<1>2. <<Line(r)>> \in Seq(Entry) /\ <<>> \in Seq(Entry)
  BY <1>1
<1>3. rest' \in {rest, <<>>, <<Line(r)>>} /\ written' \in {written, written + 1}
      /\ torn' \in {torn, TRUE} /\ cuts' \in {cuts, cuts + 1}
  BY DEF CutShort
<1> HIDE DEF r
<1>4. rest \in Seq(Entry) /\ torn \in BOOLEAN /\ written \in Nat /\ cuts \in Nat
  BY TypeParts DEF BooksOK
<1>5. rest' \in Seq(Entry)
  BY <1>2, <1>3, <1>4
<1>6. torn' \in BOOLEAN
  BY <1>3, <1>4
<1>7. written' \in Nat /\ cuts' \in Nat /\ written' >= written
  BY <1>3, <1>4
<1> QED BY <1>5, <1>6, <1>7

\* The steps, by what they change.
LockSteps(p) == Start(p) \/ Lock(p) \/ Unlock(p)
QuitSteps(p) == Refused(p) \/ Remove(p) \/ Crash(p)
SelectSteps(p) == Select(p) \/ SelectBlindly(p)
EndSteps(p) == Rotate(p) \/ Trim(p) \/ RotateFails(p)

LEMMA StepsOf ==
  [Next]_vars => \/ Tick \/ UNCHANGED vars
                 \/ \E p \in Procs : \/ LockSteps(p) \/ QuitSteps(p) \/ SelectSteps(p)
                                     \/ TaskEnds(p) \/ Record(p) \/ RecordFails(p)
                                     \/ EndSteps(p)
BY DEF Next, Process, LockSteps, QuitSteps, SelectSteps, EndSteps

LEMMA LockTypes ==
  ASSUME TypeOK, NEW p \in Procs, LockSteps(p)
  PROVE  TypeOK'
<1> USE DEF LockSteps, Start, Lock, Unlock, Goto, workVars, file, ghosts
<1>1. pc' \in PcType
  BY TypeParts DEF PcType
<1>2. starts' \in 0..MaxStarts
  BY TypeParts, Constants DEF RestOK
<1>3. path' \in Files \cup {NoFile}
  BY TypeParts, Constants DEF FilesOK, RestOK, Files
<1>4. owner' \in [Files -> Procs \cup {None}]
  BY TypeParts DEF FilesOK
<1>5. fd' \in [Procs -> Files \cup {NoFile}]
  BY <1>3, TypeParts DEF FilesOK
<1>6. only' \in [Procs -> Tasks \cup {None}]
  BY TypeParts, Constants DEF WorkOK
<1>7. UNCHANGED <<todo, results, snap, failed, hist, rest, torn, written, acked, cuts, good,
                  ran, lost, sched, now, faults, stolen>>
  OBVIOUS
<1> HIDE DEF LockSteps, Start, Lock, Unlock, Goto, workVars, file, ghosts
<1>8. WorkOK'
  BY <1>6, <1>7, TypeParts DEF WorkOK
<1>9. BooksOK' /\ RestOK'
  BY <1>2, <1>7, TypeParts DEF BooksOK, RestOK
<1> QED BY <1>1, <1>3, <1>4, <1>5, <1>8, <1>9, TypeParts DEF FilesOK, TypeOK, PcType,
       WorkOK, BooksOK, RestOK

LEMMA PartsTyped ==
  pc' \in PcType /\ FilesOK' /\ WorkOK' /\ BooksOK' /\ RestOK' => TypeOK'
BY DEF TypeOK, PcType, FilesOK, WorkOK, BooksOK, RestOK

LEMMA QuitStepTypes ==
  ASSUME TypeOK, Stages, NEW p \in Procs, QuitSteps(p)
  PROVE  TypeOK'
<1>1. /\ Quit(p) /\ path' \in {path, NoFile} /\ stolen' \in BOOLEAN
      /\ faults' \in 0..MaxFaults /\ UNCHANGED <<sched, now, hist, starts, acked, good, ran>>
      /\ rest' \in Seq(Entry) /\ torn' \in BOOLEAN /\ cuts' \in Nat
      /\ written' \in Nat /\ written' >= written
  <2>1. CASE Refused(p)
    BY <2>1, TypeParts DEF Refused, file, ghosts, RestOK, BooksOK
  <2>2. CASE Remove(p)
    <3>1. stolen' \in BOOLEAN
      BY <2>2, TypeParts DEF Remove, RestOK
    <3> QED BY <2>2, <3>1, TypeParts DEF Remove, file, ghosts, RestOK, BooksOK
  <2>3. CASE Crash(p)
    <3>1. /\ Quit(p) /\ path' = path /\ stolen' = stolen /\ faults' \in 0..MaxFaults
          /\ UNCHANGED <<sched, now, hist, starts, acked, good, ran>>
      BY <2>3, TypeParts, Constants DEF Crash, RestOK
    <3>2. /\ rest' \in Seq(Entry) /\ torn' \in BOOLEAN /\ cuts' \in Nat
          /\ written' \in Nat /\ written' >= written
      <4>1. CASE pc[p] = "record"
        BY <2>3, <4>1, CutTypes DEF Crash, Stages
      <4>2. CASE pc[p] # "record"
        BY <2>3, <4>2, TypeParts DEF Crash, BooksOK
      <4> QED BY <4>1, <4>2
    <3> QED BY <3>1, <3>2, TypeParts DEF RestOK
  <2> QED BY <2>1, <2>2, <2>3 DEF QuitSteps
<1>2. lost' \subseteq Tasks
  <2>1. CASE Refused(p) \/ Remove(p)
    BY <2>1, TypeParts DEF Refused, Remove, file, ghosts, BooksOK
  <2>2. CASE Crash(p)
    <3>1. \A i \in DOMAIN results[p] : results[p][i].task \in Tasks
      BY Recordings DEF Result
    <3>2. lost' = lost \cup {results[p][i].task :
                             i \in {j \in DOMAIN results[p] : results[p][j].ok}}
      BY <2>2 DEF Crash
    <3> QED BY <3>1, <3>2, TypeParts DEF BooksOK
  <2> QED BY <2>1, <2>2 DEF QuitSteps
<1>3. FilesOK'
  BY <1>1, QuitTypes, TypeParts DEF FilesOK
<1>4. BooksOK' /\ RestOK'
  BY <1>1, <1>2, TypeParts DEF BooksOK, RestOK
<1> QED BY <1>1, <1>3, <1>4, QuitTypes, PartsTyped

LEMMA ChoiceTypes ==
  ASSUME TypeOK, NEW p \in Procs, SelectSteps(p)
  PROVE  TypeOK'
<1>1. PICK entries : SelectBy(p, entries)
  BY DEF SelectSteps, Select, SelectBlindly
<1>2. faults' \in 0..MaxFaults
  BY TypeParts, Constants DEF SelectSteps, Select, SelectBlindly, RestOK
<1>3. Due(p, entries) \subseteq Tasks
  BY TypeParts DEF Due, WorkOK
<1>4. todo' \in [Procs -> SUBSET Tasks]
  BY <1>1, <1>3, TypeParts DEF SelectBy, WorkOK
<1>5. pc' \in PcType
  BY <1>1, TypeParts DEF SelectBy, Goto, PcType
<1>6. UNCHANGED <<sched, now, path, owner, fd, only, results, snap, failed, hist, rest, torn,
                  starts, written, acked, cuts, good, ran, lost, stolen>>
  BY <1>1 DEF SelectBy, lockVars, file, ghosts
<1>7. FilesOK' /\ WorkOK'
  BY <1>4, <1>6, TypeParts DEF FilesOK, WorkOK
<1>8. BooksOK' /\ RestOK'
  BY <1>2, <1>6, TypeParts DEF BooksOK, RestOK
<1> QED BY <1>5, <1>7, <1>8, PartsTyped

LEMMA TaskTypes ==
  ASSUME TypeOK, NEW p \in Procs, TaskEnds(p)
  PROVE  TypeOK'
<1>1. PICK t \in todo[p], ok \in BOOLEAN :
        /\ todo' = [todo EXCEPT ![p] = @ \ {t}]
        /\ results' = [results EXCEPT ![p] = Append(@, [task |-> t, ok |-> ok])]
        /\ ran' = IF ok THEN [ran EXCEPT ![t] = now] ELSE ran
        /\ Goto(p, IF todo'[p] = {} THEN "record" ELSE "execute")
  BY DEF TaskEnds
<1>2. t \in Tasks /\ [task |-> t, ok |-> ok] \in Result
  BY TypeParts DEF WorkOK, Result
<1>3. Append(results[p], [task |-> t, ok |-> ok]) \in Seq(Result)
  BY <1>2, Recordings
<1>4. results' \in [Procs -> Seq(Result)]
  BY <1>1, <1>3, TypeParts DEF WorkOK
<1>5. todo' \in [Procs -> SUBSET Tasks]
  BY <1>1, TypeParts DEF WorkOK
<1>6. ran' \in [Tasks -> Times \cup {Zero}]
  BY <1>1, <1>2, TypeParts DEF BooksOK, RestOK
<1>7. pc' \in PcType
  BY <1>1, TypeParts DEF Goto, PcType
<1>8. UNCHANGED <<sched, now, path, owner, fd, only, snap, failed, hist, rest, torn, starts,
                  faults, written, acked, cuts, good, lost, stolen>>
  BY DEF TaskEnds, lockVars, file
<1>9. FilesOK' /\ WorkOK'
  BY <1>4, <1>5, <1>8, TypeParts DEF FilesOK, WorkOK
<1>10. BooksOK' /\ RestOK'
  BY <1>6, <1>8, TypeParts DEF BooksOK, RestOK
<1> QED BY <1>7, <1>9, <1>10, PartsTyped

LEMMA RecordTypes ==
  ASSUME TypeOK, NEW p \in Procs, Record(p) \/ RecordFails(p)
  PROVE  TypeOK'
<1> DEFINE r == Head(results[p])
<1>1. /\ results[p] # <<>> /\ results' = [results EXCEPT ![p] = Tail(results[p])]
      /\ pc' = [pc EXCEPT ![p] = IF results'[p] = <<>> THEN "rotate" ELSE "record"]
      /\ UNCHANGED <<sched, now, path, owner, fd, only, todo, snap, starts, ran, stolen>>
  BY TypeParts DEF Record, RecordFails, Goto, lockVars, WorkOK
<1>2. /\ r \in Result /\ Tail(results[p]) \in Seq(Result)
      /\ r.task \in Tasks /\ r.ok \in BOOLEAN /\ Line(r) \in Entry
  BY <1>1, Recordings, LineTyped
<1> HIDE DEF r
<1>3. pc' \in PcType
  BY <1>1, TypeParts DEF PcType
<1>4. results' \in [Procs -> Seq(Result)]
  BY <1>1, <1>2, TypeParts DEF WorkOK
<1>5. CASE Record(p)
  <2>1. /\ hist' = IF torn THEN hist ELSE Append(hist, Line(r))
        /\ rest' = <<>> /\ torn' = FALSE
        /\ written' = written + 1 /\ acked' = acked \cup {written + 1}
        /\ good' = IF r.ok THEN [good EXCEPT ![r.task] = written + 1] ELSE good
        /\ lost' \subseteq lost \cup {r.task}
        /\ UNCHANGED <<failed, faults, cuts>>
    BY <1>5 DEF Record, r
  <2>2. hist' \in Seq(Entry) /\ written' \in Nat /\ acked' \subseteq 1..written'
    BY <1>2, <2>1, Histories, TypeParts DEF BooksOK
  <2>3. good' \in [Tasks -> Nat]
    BY <1>2, <2>1, TypeParts DEF BooksOK
  <2>4. lost' \subseteq Tasks /\ rest' \in Seq(Entry)
    BY <1>2, <2>1, TypeParts DEF BooksOK
  <2>5. FilesOK' /\ WorkOK'
    BY <1>1, <1>4, <2>1, TypeParts DEF FilesOK, WorkOK
  <2>6. BooksOK' /\ RestOK'
    BY <1>1, <2>1, <2>2, <2>3, <2>4, TypeParts DEF BooksOK, RestOK
  <2> QED BY <1>3, <2>5, <2>6, PartsTyped
<1>6. CASE RecordFails(p)
  <2>1. /\ failed' = [failed EXCEPT ![p] = TRUE] /\ faults' = faults + 1
        /\ faults < MaxFaults /\ lost' = IF r.ok THEN lost \cup {r.task} ELSE lost
        /\ UNCHANGED <<hist, acked, good>>
    BY <1>6 DEF RecordFails, r
  <2>2. failed' \in [Procs -> BOOLEAN]
    BY <2>1, TypeParts DEF WorkOK
  <2>3. lost' \subseteq Tasks
    BY <1>2, <2>1, TypeParts DEF BooksOK
  <2>4. faults' \in 0..MaxFaults
    BY <2>1, TypeParts, Constants DEF RestOK
  <2>5. /\ rest' \in Seq(Entry) /\ torn' \in BOOLEAN /\ written' \in Nat /\ cuts' \in Nat
        /\ acked' \subseteq 1..written'
    BY <1>1, <1>6, <2>1, CutTypes, TypeParts DEF RecordFails, BooksOK
  <2>6. FilesOK' /\ WorkOK'
    BY <1>1, <1>4, <2>2, TypeParts DEF FilesOK, WorkOK
  <2>7. BooksOK' /\ RestOK'
    BY <1>1, <2>1, <2>3, <2>4, <2>5, TypeParts DEF BooksOK, RestOK
  <2> QED BY <1>3, <2>6, <2>7, PartsTyped
<1> QED BY <1>5, <1>6

LEMMA EndTypes ==
  ASSUME TypeOK, Stages, NEW p \in Procs, EndSteps(p)
  PROVE  TypeOK'
<1>1. UNCHANGED <<sched, now, path, starts, written, acked, cuts, good, ran, lost, stolen>>
  BY DEF EndSteps, Rotate, Trim, RotateFails, ghosts
<1>2. faults' \in 0..MaxFaults
  BY TypeParts, Constants DEF EndSteps, Rotate, Trim, RotateFails, RestOK
<1>3. hist' \in Seq(Entry) /\ rest' \in Seq(Entry) /\ torn' \in BOOLEAN
  <2>1. CASE Trim(p)
    <3>1. /\ snap[p] \in Seq(Entry) /\ Len(snap[p]) > MaxLines /\ hist' = Trimmed(snap[p])
          /\ rest' = <<>> /\ torn' = FALSE
      BY <2>1, TypeParts DEF Trim, Stages, WorkOK
    <3>2. <<>> \in Seq(Entry)
      OBVIOUS
    <3> QED BY <3>1, <3>2, TrimmedLines
  <2>2. CASE ~Trim(p)
    BY <2>2, TypeParts DEF EndSteps, Rotate, RotateFails, file, BooksOK
  <2> QED BY <2>1, <2>2
<1>4. /\ pc' \in PcType /\ WorkOK' /\ fd' \in [Procs -> Files \cup {NoFile}]
      /\ owner' \in [Files -> Procs \cup {None}]
  <2>1. CASE Return(p)
    BY <2>1, ReturnTypes
  <2>2. CASE ~Return(p)
    <3>1. /\ snap' = [snap EXCEPT ![p] = Lines] /\ pc' = [pc EXCEPT ![p] = "trim"]
          /\ UNCHANGED <<owner, fd, only, todo, results, failed>>
      BY <2>2 DEF EndSteps, Rotate, Trim, RotateFails, Goto
    <3>2. pc' \in PcType
      BY <3>1, TypeParts DEF PcType
    <3>3. WorkOK'
      BY <3>1, Histories, TypeParts DEF WorkOK
    <3> QED BY <3>1, <3>2, <3>3, TypeParts DEF FilesOK
  <2> QED BY <2>1, <2>2
<1>5. FilesOK'
  BY <1>1, <1>4, TypeParts DEF FilesOK
<1>6. BooksOK' /\ RestOK'
  BY <1>1, <1>2, <1>3, TypeParts DEF BooksOK, RestOK
<1> QED BY <1>4, <1>5, <1>6, PartsTyped

LEMMA TypeKept ==
  ASSUME TypeOK, Stages, [Next]_vars
  PROVE  TypeOK'
<1>1. CASE Tick
  <2>1. /\ now' \in Times
        /\ UNCHANGED <<sched, path, owner, pc, fd, only, todo, results, snap, failed, hist, rest,
                       torn, starts, faults, written, acked, cuts, good, ran, lost, stolen>>
    BY <1>1, TypeParts, Constants DEF Tick, RestOK, Times, lockVars, workVars, file, ghosts
  <2>2. FilesOK' /\ WorkOK'
    BY <2>1, TypeParts DEF FilesOK, WorkOK
  <2>3. BooksOK' /\ RestOK'
    BY <2>1, TypeParts DEF BooksOK, RestOK
  <2> QED BY <2>1, <2>2, <2>3, TypeParts, PartsTyped
<1>2. CASE UNCHANGED vars
  <2>1. FilesOK' /\ WorkOK'
    BY <1>2, TypeParts DEF FilesOK, WorkOK, vars
  <2>2. BooksOK' /\ RestOK'
    BY <1>2, TypeParts DEF BooksOK, RestOK, vars
  <2> QED BY <1>2, <2>1, <2>2, TypeParts, PartsTyped DEF vars
<1> QED
  BY <1>1, <1>2, StepsOf, LockTypes, QuitStepTypes, ChoiceTypes, TaskTypes, RecordTypes,
     EndTypes

-----------------------------------------------------------------------------
(* The stages of a process.                                                 *)

Steps(p) == \/ LockSteps(p) \/ QuitSteps(p) \/ SelectSteps(p) \/ TaskEnds(p)
            \/ Record(p) \/ RecordFails(p) \/ EndSteps(p)

LEMMA Domains ==
  ASSUME TypeOK
  PROVE  /\ pc = [p \in Procs |-> pc[p]] /\ fd = [p \in Procs |-> fd[p]]
         /\ results = [p \in Procs |-> results[p]] /\ snap = [p \in Procs |-> snap[p]]
         /\ todo = [p \in Procs |-> todo[p]] /\ failed = [p \in Procs |-> failed[p]]
         /\ owner = [f \in Files |-> owner[f]]
<1>1. DOMAIN pc = Procs /\ DOMAIN fd = Procs /\ DOMAIN owner = Files
  BY TypeParts DEF PcType, FilesOK
<1>2. /\ DOMAIN results = Procs /\ DOMAIN snap = Procs /\ DOMAIN todo = Procs
      /\ DOMAIN failed = Procs
  BY TypeParts DEF WorkOK
<1>3. pc = [p \in Procs |-> pc[p]] /\ fd = [p \in Procs |-> fd[p]]
  BY <1>1, TypeParts DEF PcType, FilesOK
<1>4. owner = [f \in Files |-> owner[f]]
  BY <1>1, TypeParts DEF FilesOK
<1>5. results = [p \in Procs |-> results[p]] /\ snap = [p \in Procs |-> snap[p]]
  BY <1>2, TypeParts DEF WorkOK
<1>6. todo = [p \in Procs |-> todo[p]] /\ failed = [p \in Procs |-> failed[p]]
  BY <1>2, TypeParts DEF WorkOK
<1> QED BY <1>3, <1>4, <1>5, <1>6

LEMMA QuitEffect ==
  ASSUME TypeOK, NEW p \in Procs, Quit(p)
  PROVE  /\ pc'[p] = "idle" /\ fd'[p] = NoFile /\ results'[p] = <<>>
         /\ \A q \in Procs \ {p} : /\ pc'[q] = pc[q] /\ fd'[q] = fd[q]
                                   /\ results'[q] = results[q] /\ snap'[q] = snap[q]
         /\ \A f \in Files : owner[f] # p => owner'[f] = owner[f]
BY Domains DEF Quit, Goto

\* The last steps leave the lock as it is, or end the process.
LEMMA EndEffect ==
  ASSUME TypeOK, NEW p \in Procs, EndSteps(p)
  PROVE  /\ pc[p] \in {"rotate", "trim"}
         /\ UNCHANGED <<sched, now, path, written, acked, cuts, good, ran, lost, stolen>>
         /\ \A q \in Procs \ {p} : /\ pc'[q] = pc[q] /\ fd'[q] = fd[q]
                                   /\ results'[q] = results[q] /\ snap'[q] = snap[q]
         /\ \/ Quit(p)
            \/ UNCHANGED <<owner, fd, results>> /\ pc'[p] = "unlock"
            \/ /\ UNCHANGED <<owner, fd, results, file>> /\ pc'[p] = "trim"
               /\ snap'[p] = Lines /\ Len(Lines) > MaxLines
         /\ \/ UNCHANGED file
            \/ /\ pc[p] = "trim" /\ hist' = Trimmed(snap[p]) /\ rest' = <<>> /\ torn' = FALSE
               /\ pc'[p] # "trim"
<1>1. ASSUME Return(p)
      PROVE  /\ \A q \in Procs \ {p} : /\ pc'[q] = pc[q] /\ fd'[q] = fd[q]
                                       /\ results'[q] = results[q] /\ snap'[q] = snap[q]
             /\ pc'[p] # "trim"
             /\ \/ Quit(p)
                \/ UNCHANGED <<owner, fd, results>> /\ pc'[p] = "unlock"
  <2>1. CASE failed[p]
    BY <1>1, <2>1, QuitEffect DEF Return
  <2>2. CASE ~failed[p]
    BY <1>1, <2>2, Domains DEF Return, Goto
  <2> QED BY <2>1, <2>2
<1>2. CASE Rotate(p)
  <2>1. CASE Return(p)
    <3>1. /\ pc[p] = "rotate"
          /\ UNCHANGED <<sched, now, path, file, written, acked, cuts, good, ran, lost, stolen>>
      BY <1>2 DEF Rotate, ghosts
    <3> QED BY <1>1, <2>1, <3>1
  <2>2. CASE ~Return(p)
    <3>1. /\ pc[p] = "rotate" /\ Len(Lines) > MaxLines
          /\ snap' = [snap EXCEPT ![p] = Lines] /\ pc' = [pc EXCEPT ![p] = "trim"]
          /\ UNCHANGED <<sched, now, path, file, written, acked, cuts, good, ran, lost, stolen>>
          /\ UNCHANGED <<owner, fd, results>>
      BY <1>2, <2>2 DEF Rotate, ghosts, Goto
    <3> QED BY <3>1, Domains
  <2> QED BY <2>1, <2>2
<1>3. CASE Trim(p) \/ RotateFails(p)
  <2>1. /\ pc[p] \in {"rotate", "trim"} /\ Return(p)
        /\ UNCHANGED <<sched, now, path, written, acked, cuts, good, ran, lost, stolen>>
        /\ \/ UNCHANGED file
           \/ /\ pc[p] = "trim" /\ hist' = Trimmed(snap[p]) /\ rest' = <<>> /\ torn' = FALSE
    BY <1>3 DEF Trim, RotateFails, ghosts
  <2> QED BY <1>1, <2>1
<1> QED BY <1>2, <1>3 DEF EndSteps

\* No step of a process touches another.
LEMMA Elsewhere ==
  ASSUME TypeOK, NEW p \in Procs, Steps(p), NEW q \in Procs, q # p
  PROVE  pc'[q] = pc[q] /\ fd'[q] = fd[q] /\ results'[q] = results[q] /\ snap'[q] = snap[q]
<1>1. CASE LockSteps(p)
  BY <1>1, Domains DEF LockSteps, Start, Lock, Unlock, Goto, workVars
<1>2. CASE QuitSteps(p)
  BY <1>2, QuitEffect DEF QuitSteps, Refused, Remove, Crash
<1>3. CASE SelectSteps(p)
  BY <1>3, Domains DEF SelectSteps, Select, SelectBlindly, SelectBy, Goto, lockVars
<1>4. CASE TaskEnds(p)
  BY <1>4, Domains DEF TaskEnds, Goto, lockVars
<1>5. CASE Record(p)
  BY <1>5, Domains DEF Record, Goto, lockVars
<1>6. CASE RecordFails(p)
  BY <1>6, Domains DEF RecordFails, Goto, lockVars
<1>7. CASE EndSteps(p)
  BY <1>7, EndEffect
<1> QED BY <1>1, <1>2, <1>3, <1>4, <1>5, <1>6, <1>7 DEF Steps

\* A process at work that goes on working keeps its lock.
Working(p) == SelectSteps(p) \/ TaskEnds(p) \/ Record(p) \/ RecordFails(p)

LEMMA WorkEffect ==
  ASSUME TypeOK, NEW p \in Procs, Working(p)
  PROVE  /\ pc[p] \in {"select", "execute", "record"}
         /\ pc'[p] \in {"execute", "record", "rotate", "unlock"}
         /\ UNCHANGED <<sched, now, path, owner, fd, snap, stolen>>
         /\ pc'[p] = "unlock" => pc[p] = "select" /\ UNCHANGED results
         /\ pc'[p] = "rotate" => results'[p] = <<>>
         /\ pc'[p] = "record" => results'[p] # <<>>
<1>1. CASE SelectSteps(p)
  BY <1>1, Domains DEF SelectSteps, Select, SelectBlindly, SelectBy, Goto, lockVars
<1>2. CASE TaskEnds(p)
  <2>1. PICK t \in todo[p], ok \in BOOLEAN :
          results' = [results EXCEPT ![p] = Append(@, [task |-> t, ok |-> ok])]
    BY <1>2 DEF TaskEnds
  <2> DEFINE r == [task |-> t, ok |-> ok]
  <2>2. r \in Result
    BY TypeParts DEF WorkOK, Result
  <2>3. results'[p] = Append(results[p], r)
    BY <2>1, Domains
  <2> HIDE DEF r
  <2>4. Len(results[p]) + 1 \in DOMAIN results'[p]
    BY <2>2, <2>3, Recordings
  <2>5. results'[p] # <<>>
    BY <2>4
  <2> QED BY <1>2, <2>5, Domains DEF TaskEnds, Goto, lockVars
<1>3. CASE Record(p) \/ RecordFails(p)
  BY <1>3, Domains DEF Record, RecordFails, Goto, lockVars
<1> QED BY <1>1, <1>2, <1>3 DEF Working

LEMMA StagesKept ==
  ASSUME TypeOK, Stages, [Next]_vars
  PROVE  Stages'
<1> DEFINE Stage(q) == /\ q \in AtWork \/ pc[q] = "acquire" => fd[q] # NoFile
                       /\ pc[q] \notin {"execute", "record"} => results[q] = <<>>
                       /\ pc[q] = "record" => results[q] # <<>>
                       /\ pc[q] = "trim" => Len(snap[q]) > MaxLines
<1>1. CASE Tick \/ UNCHANGED vars
  <2>1. UNCHANGED <<sched, pc, fd, results, snap>>
    BY <1>1 DEF Tick, vars, lockVars, workVars
  <2> QED BY <2>1 DEF Stages, AtWork
<1>2. ASSUME NEW p \in Procs, Steps(p)
      PROVE  Stages'
  <2>1. sched' = sched
    <3>1. CASE LockSteps(p) \/ QuitSteps(p)
      BY <3>1 DEF LockSteps, QuitSteps, Start, Lock, Unlock, Refused, Remove, Crash
    <3>2. CASE ~(LockSteps(p) \/ QuitSteps(p))
      BY <1>2, <3>2, WorkEffect, EndEffect DEF Steps, Working
    <3> QED BY <3>1, <3>2
  <2>2. ASSUME NEW q \in Procs, q # p
        PROVE  Stage(q)'
    BY <1>2, <2>2, Elsewhere DEF Stages, AtWork
  <2>3. Stage(p)'
    <3>1. CASE Quit(p)
      BY <3>1, QuitEffect DEF AtWork
    <3>2. CASE LockSteps(p)
      <4>1. CASE Start(p)
        <5>1. pc[p] = "idle" /\ pc'[p] = "acquire" /\ fd'[p] = path' /\ results' = results
          BY <4>1, Domains DEF Start, Goto
        <5>2. path' # NoFile
          BY <4>1, TypeParts DEF Start, NoFile, RestOK
        <5> QED BY <5>1, <5>2 DEF Stages
      <4>2. CASE Lock(p)
        <5>1. /\ pc[p] = "acquire" /\ pc'[p] = "select"
              /\ UNCHANGED <<fd, results>>
          BY <4>2, Domains DEF Lock, Goto, workVars
        <5> QED BY <5>1 DEF Stages
      <4>3. CASE Unlock(p)
        <5>1. pc[p] = "unlock" /\ pc'[p] = "remove" /\ UNCHANGED results
          BY <4>3, Domains DEF Unlock, Goto, workVars
        <5> QED BY <5>1 DEF Stages, AtWork
      <4> QED BY <3>2, <4>1, <4>2, <4>3 DEF LockSteps
    <3>3. CASE Working(p)
      <4>1. /\ p \in AtWork /\ fd'[p] # NoFile /\ pc'[p] # "trim"
            /\ pc[p] = "select" => results[p] = <<>>
        BY <3>3, WorkEffect DEF Stages, AtWork
      <4>2. /\ pc'[p] \notin {"execute", "record"} => results'[p] = <<>>
            /\ pc'[p] = "record" => results'[p] # <<>>
        BY <3>3, <4>1, WorkEffect
      <4> QED BY <4>1, <4>2
    <3>4. CASE EndSteps(p)
      <4>1. p \in AtWork /\ fd[p] # NoFile /\ results[p] = <<>>
        BY <3>4, EndEffect DEF Stages, AtWork
      <4>2. CASE UNCHANGED <<owner, fd, results>> /\ pc'[p] = "unlock"
        BY <4>1, <4>2
      <4>3. CASE /\ UNCHANGED <<owner, fd, results, file>> /\ pc'[p] = "trim"
                 /\ snap'[p] = Lines /\ Len(Lines) > MaxLines
        BY <4>1, <4>3
      <4> QED BY <3>1, <3>4, <4>2, <4>3, EndEffect
    <3> QED BY <1>2, <3>1, <3>2, <3>3, <3>4
            DEF Steps, Working, QuitSteps, Refused, Remove, Crash
  <2> QED BY <2>1, <2>2, <2>3 DEF Stages
<1> QED BY <1>1, <1>2, StepsOf DEF Steps

-----------------------------------------------------------------------------
(* The lock.                                                                *)

LEMMA Alone ==
  ASSUME Stages, LockHeld, NEW p \in AtWork, NEW q \in AtWork
  PROVE  p = q
<1>1. fd[p] = path /\ fd[q] = path /\ owner[fd[p]] = p /\ owner[fd[q]] = q
  BY DEF AtWork, Stages, LockHeld
<1> QED BY <1>1

\* A step that leaves the lock alone.
LEMMA LockFrame ==
  ASSUME TypeOK, LockHeld, NEW p \in Procs, Steps(p), UNCHANGED <<path, owner, fd>>,
         p \in AtWork' => p \in AtWork
  PROVE  LockHeld'
<1>1. ASSUME NEW q \in Procs, q \in AtWork'
      PROVE  q \in AtWork
  BY <1>1, Elsewhere DEF AtWork
<1> QED BY <1>1 DEF LockHeld

LEMMA LockKept ==
  ASSUME TypeOK, Stages, LockHeld, [Next]_vars, ~stolen'
  PROVE  LockHeld'
<1>1. CASE Tick \/ UNCHANGED vars
  <2>1. UNCHANGED <<path, owner, fd, pc>>
    BY <1>1 DEF Tick, vars, lockVars
  <2> QED BY <2>1 DEF LockHeld, AtWork
<1>2. ASSUME NEW p \in Procs, Steps(p)
      PROVE  LockHeld'
  <2>1. \A q \in Procs : /\ fd[q] \in Files \cup {NoFile}
                         /\ q \in AtWork => fd[q] # NoFile /\ fd[q] = path /\ fd[q] \in Files
    BY TypeParts DEF FilesOK, Stages, LockHeld
  <2>2. ASSUME NEW q \in Procs, q # p
        PROVE  (q \in AtWork' <=> q \in AtWork) /\ fd'[q] = fd[q]
    BY <1>2, <2>2, Elsewhere DEF AtWork
  <2>3. ASSUME Quit(p), path' = path \/ \A q \in Procs \ {p} : fd[q] = NoFile
        PROVE  LockHeld'
    <3>1. p \notin AtWork' /\ fd'[p] = NoFile
      BY <2>3, QuitEffect DEF AtWork
    <3>2. ASSUME NEW q \in Procs, q # p
          PROVE  /\ fd'[q] \in {NoFile, path'}
                 /\ q \in AtWork' => owner'[fd'[q]] = q
      <4>1. fd'[q] \in {NoFile, path'}
        BY <2>2, <2>3, <3>2 DEF LockHeld
      <4>2. ASSUME q \in AtWork'
            PROVE  owner'[fd'[q]] = q
        <5>1. q \in AtWork /\ fd'[q] = fd[q] /\ fd[q] \in Files /\ owner[fd[q]] = q
          BY <2>1, <2>2, <3>2, <4>2 DEF LockHeld
        <5> QED BY <2>3, <3>2, <5>1, QuitEffect
      <4> QED BY <4>1, <4>2
    <3> QED BY <3>1, <3>2 DEF LockHeld
  <2>4. CASE Start(p)
    <3>1. /\ pc'[p] = "acquire" /\ fd'[p] = path' /\ UNCHANGED owner
          /\ path' = path \/ path = NoFile
      BY <2>4, Domains DEF Start, Goto
    <3>2. \A q \in Procs \ {p} : fd'[q] \in {NoFile, path'}
      BY <2>2, <3>1 DEF LockHeld
    <3>3. p \notin AtWork'
      BY <3>1 DEF AtWork
    <3> QED BY <2>2, <3>1, <3>2, <3>3 DEF LockHeld
  <2>5. CASE Lock(p)
    <3>1. /\ pc[p] = "acquire" /\ owner[fd[p]] = None
          /\ owner' = [owner EXCEPT ![fd[p]] = p] /\ UNCHANGED <<fd, path>>
      BY <2>5 DEF Lock
    <3>2. fd[p] \in Files /\ fd[p] = path
      BY <2>1, <3>1 DEF Stages, LockHeld
    <3>3. owner'[fd'[p]] = p
      BY <3>1, <3>2, Domains
    <3>4. \A q \in Procs \ {p} : q \notin AtWork
      BY <2>1, <3>1, <3>2, Constants DEF LockHeld
    <3> QED BY <2>2, <3>1, <3>3, <3>4 DEF LockHeld
  <2>6. CASE Unlock(p)
    <3>1. p \in AtWork /\ pc'[p] = "remove" /\ fd'[p] = NoFile /\ UNCHANGED path
      BY <2>6, Domains DEF Unlock, Goto, AtWork
    <3>2. \A q \in Procs \ {p} : q \notin AtWork
      BY <3>1, Alone
    <3>3. p \notin AtWork'
      BY <3>1 DEF AtWork
    <3> QED BY <2>2, <3>1, <3>2, <3>3 DEF LockHeld
  <2>7. CASE Remove(p)
    <3>1. Quit(p) /\ (path = NoFile \/ \A q \in Procs : fd[q] # path)
      BY <2>7 DEF Remove
    <3>2. \A q \in Procs : fd[q] = NoFile
      BY <3>1 DEF LockHeld
    <3> QED BY <2>3, <3>1, <3>2
  <2>8. CASE Refused(p) \/ Crash(p)
    BY <2>3, <2>8 DEF Refused, Crash
  <2>9. CASE Working(p)
    <3>1. p \in AtWork /\ UNCHANGED <<path, owner, fd>>
      BY <2>9, WorkEffect DEF AtWork
    <3> QED BY <1>2, <3>1, LockFrame
  <2>10. CASE EndSteps(p)
    <3>1. p \in AtWork /\ UNCHANGED path /\ (Quit(p) \/ UNCHANGED <<owner, fd>>)
      BY <2>10, EndEffect DEF AtWork
    <3> QED BY <1>2, <2>3, <3>1, LockFrame
  <2> QED BY <1>2, <2>4, <2>5, <2>6, <2>7, <2>8, <2>9, <2>10
          DEF Steps, LockSteps, QuitSteps, Working
<1> QED BY <1>1, <1>2, StepsOf DEF Steps

-----------------------------------------------------------------------------
(* The history.                                                             *)

\* Steps that leave the history and the books as they are.
LEMMA BooksFrame ==
  ASSUME TypeOK, NEW p \in Procs,
         LockSteps(p) \/ Refused(p) \/ Remove(p) \/ SelectSteps(p) \/ TaskEnds(p)
  PROVE  UNCHANGED <<now, hist, rest, torn, written, acked, cuts, good, lost>> /\ pc'[p] # "trim"
<1>1. CASE LockSteps(p)
  BY <1>1, Domains DEF LockSteps, Start, Lock, Unlock, Goto, file, ghosts
<1>2. CASE Refused(p) \/ Remove(p)
  BY <1>2, QuitEffect DEF Refused, Remove, file, ghosts
<1>3. CASE SelectSteps(p)
  BY <1>3, WorkEffect DEF Working, SelectSteps, Select, SelectBlindly, SelectBy, file, ghosts
<1>4. CASE TaskEnds(p)
  BY <1>4, WorkEffect DEF Working, TaskEnds, file
<1> QED BY <1>1, <1>2, <1>3, <1>4

\* What a write that fails and a death do to them.
LEMMA CutEffect ==
  ASSUME TypeOK, Stages, NEW p \in Procs, RecordFails(p) \/ Crash(p)
  PROVE  /\ UNCHANGED <<now, hist, acked, good>> /\ pc'[p] # "trim" /\ lost \subseteq lost'
         /\ \/ UNCHANGED <<rest, torn, written, cuts>>
            \/ /\ pc[p] = "record" /\ torn' = TRUE /\ cuts' = cuts + 1
               /\ \/ rest' = <<>> /\ written' = written
                  \/ /\ ~torn /\ written' = written + 1
                     /\ \E x \in Entry : /\ rest' = <<x>> /\ x.nr = written + 1 /\ x.at <= now
                                         /\ x.task \in lost' \cup {None}
<1> DEFINE r == Head(results[p])
<1>1. UNCHANGED <<now, hist, acked, good>> /\ pc'[p] # "trim" /\ lost \subseteq lost'
  <2>1. CASE RecordFails(p)
    BY <2>1, WorkEffect DEF Working, RecordFails
  <2>2. CASE Crash(p)
    BY <2>2, QuitEffect DEF Crash
  <2> QED BY <2>1, <2>2
<1>2. CASE UNCHANGED <<rest, torn, written, cuts>>
  BY <1>1, <1>2
<1>3. CASE ~UNCHANGED <<rest, torn, written, cuts>>
  <2>1. pc[p] = "record" /\ CutShort(p) /\ results[p] # <<>>
    BY <1>3 DEF RecordFails, Crash, Stages
  <2>2. r \in Result /\ Line(r) \in Entry /\ r = results[p][1] /\ 1 \in DOMAIN results[p]
    BY <2>1, Recordings, LineTyped
  <2>3. r.ok => r.task \in lost'
    <3>1. CASE RecordFails(p)
      BY <3>1 DEF RecordFails
    <3>2. CASE Crash(p)
      <4>1. lost' = lost \cup {results[p][i].task :
                               i \in {j \in DOMAIN results[p] : results[p][j].ok}}
        BY <3>2 DEF Crash
      <4> HIDE DEF r
      <4> QED BY <2>2, <4>1
    <3> QED BY <3>1, <3>2
  <2>4. Line(r).nr = written + 1 /\ Line(r).at <= now /\ Line(r).task \in lost' \cup {None}
    <3>1. 1 <= now /\ now \in Nat
      BY TypeParts DEF RestOK, Times
    <3> QED BY <2>3, <3>1 DEF Line
  <2>5. /\ torn' = TRUE /\ cuts' = cuts + 1
        /\ \/ rest' = <<>> /\ written' = written
           \/ ~torn /\ rest' = <<Line(r)>> /\ written' = written + 1
    BY <1>3, <2>1 DEF CutShort
  <2> HIDE DEF r
  <2> QED BY <1>1, <2>1, <2>2, <2>4, <2>5
<1> QED BY <1>2, <1>3

\* What Record does, to the history and to the books of every task.
LEMMA RecordEffect ==
  ASSUME TypeOK, NEW p \in Procs, Record(p)
  PROVE  LET r == Head(results[p])
         IN  /\ pc[p] = "record" /\ results[p] # <<>> /\ r \in Result
             /\ pc'[p] # "trim"
             /\ hist' = (IF torn THEN hist ELSE Append(hist, Line(r))) /\ Line(r) \in Entry
             /\ rest' = <<>> /\ torn' = FALSE
             /\ written' = written + 1 /\ acked' = acked \cup {written + 1}
             /\ results'[p] = Tail(results[p])
             /\ UNCHANGED <<now, ran, snap, cuts>>
             /\ \A t \in Tasks : IF r.ok /\ r.task = t
                                 THEN good'[t] = written + 1 /\ (torn => t \in lost')
                                 ELSE good'[t] = good[t] /\ (t \in lost => t \in lost')
<1> DEFINE r == Head(results[p])
<1>1. pc[p] = "record" /\ results[p] # <<>> /\ r \in Result /\ Line(r) \in Entry
  BY Recordings, LineTyped DEF Record
<1>2. pc'[p] # "trim" /\ results'[p] = Tail(results[p]) /\ UNCHANGED <<now, ran, snap, cuts>>
  BY Domains DEF Record, Goto
<1>3. /\ hist' = (IF torn THEN hist ELSE Append(hist, Line(r))) /\ rest' = <<>> /\ torn' = FALSE
      /\ written' = written + 1 /\ acked' = acked \cup {written + 1}
  BY DEF Record
<1>4. /\ good' = IF r.ok THEN [good EXCEPT ![r.task] = written + 1] ELSE good
      /\ lost' = IF ~r.ok THEN lost ELSE IF torn THEN lost \cup {r.task} ELSE lost \ {r.task}
  BY DEF Record
<1>5. r.ok \in BOOLEAN /\ r.task \in Tasks /\ good \in [Tasks -> Nat]
  BY <1>1, LineTyped, TypeParts DEF BooksOK
<1> HIDE DEF r
<1>6. \A t \in Tasks : IF r.ok /\ r.task = t
                       THEN good'[t] = written + 1 /\ (torn => t \in lost')
                       ELSE good'[t] = good[t] /\ (t \in lost => t \in lost')
  BY <1>4, <1>5
<1>7. /\ pc[p] = "record" /\ results[p] # <<>> /\ r \in Result /\ pc'[p] # "trim"
      /\ hist' = (IF torn THEN hist ELSE Append(hist, Line(r))) /\ Line(r) \in Entry
      /\ rest' = <<>> /\ torn' = FALSE
      /\ written' = written + 1 /\ acked' = acked \cup {written + 1}
      /\ results'[p] = Tail(results[p]) /\ UNCHANGED <<now, ran, snap, cuts>>
  BY <1>1, <1>2, <1>3
<1> QED BY <1>6, <1>7 DEF r

\* The lines as they are read have rising numbers too.
LEMMA NumberedLines ==
  ASSUME TypeOK, LinesKept
  PROVE  /\ Numbered(Lines) /\ Len(rest) \in {0, 1}
         /\ \A i \in DOMAIN Lines :
              \/ i \in DOMAIN hist /\ Lines[i] = hist[i]
              \/ /\ i = Len(hist) + 1 /\ rest # <<>> /\ Lines[i] = rest[1] /\ 1 \in DOMAIN rest
                 /\ Lines[i].nr = written /\ Lines[i].task \in lost \cup {None}
         /\ \A i \in DOMAIN hist : i \in DOMAIN Lines /\ Lines[i] = hist[i]
<1>1. /\ Len(hist) \in Nat /\ DOMAIN hist = 1..Len(hist) /\ written \in Nat
      /\ DOMAIN Lines = 1..(Len(hist) + Len(rest)) /\ Len(rest) \in Nat
      /\ DOMAIN rest = 1..Len(rest) /\ rest \in Seq(Entry)
      /\ \A i \in 1..(Len(hist) + Len(rest)) :
             Lines[i] = IF i <= Len(hist) THEN hist[i] ELSE rest[i - Len(hist)]
  BY Histories, TypeParts DEF BooksOK
<1>2. /\ \A i \in 1..Len(hist) : hist[i].nr \in 1..written
      /\ \A i, j \in 1..Len(hist) : i <= j => hist[j].nr - hist[i].nr >= j - i
  BY <1>1 DEF LinesKept, Numbered
<1>3. Len(rest) \in {0, 1} /\ (Len(rest) = 1 => rest # <<>>)
  <2>1. CASE rest = <<>>
    BY <2>1
  <2>2. CASE rest # <<>>
    BY <2>2 DEF LinesKept, RestKept
  <2> QED BY <2>1, <2>2
<1>4. Len(rest) = 1 => /\ rest[1].nr = written /\ rest[1].task \in lost \cup {None}
                       /\ \A i \in 1..Len(hist) : hist[i].nr < written
  BY <1>1, <1>3 DEF LinesKept, RestKept
<1>5. ASSUME NEW i \in DOMAIN Lines
      PROVE  \/ i \in 1..Len(hist) /\ Lines[i] = hist[i]
             \/ i = Len(hist) + 1 /\ Len(rest) = 1 /\ Lines[i] = rest[1]
  <2>1. CASE i <= Len(hist)
    BY <1>1, <2>1
  <2>2. CASE ~(i <= Len(hist))
    <3>1. i \in 1..(Len(hist) + Len(rest)) /\ Len(rest) = 1
      <4>1. i \in 1..(Len(hist) + Len(rest))
        BY <1>1, <1>5
      <4>2. Len(rest) # 0
        BY <1>1, <2>2, <4>1
      <4> QED BY <1>3, <4>1, <4>2
    <3>2. i = Len(hist) + 1 /\ i - Len(hist) = 1
      BY <1>1, <2>2, <3>1
    <3>3. Lines[i] = rest[i - Len(hist)]
      BY <1>1, <2>2, <3>1
    <3> QED BY <3>1, <3>2, <3>3
  <2> QED BY <2>1, <2>2
<1>6. \A i \in DOMAIN Lines :
        \/ i \in DOMAIN hist /\ Lines[i] = hist[i]
        \/ /\ i = Len(hist) + 1 /\ rest # <<>> /\ Lines[i] = rest[1] /\ 1 \in DOMAIN rest
           /\ Lines[i].nr = written /\ Lines[i].task \in lost \cup {None}
  BY <1>1, <1>3, <1>4, <1>5
<1>7. \A i \in DOMAIN hist : i \in DOMAIN Lines /\ Lines[i] = hist[i]
  BY <1>1
<1>8. ASSUME NEW i \in DOMAIN Lines
      PROVE  Lines[i].nr \in 1..written
  <2>1. CASE i \in 1..Len(hist)
    BY <1>2, <1>5, <2>1, <1>1
  <2>2. CASE i = Len(hist) + 1
    <3>1. Lines[i].nr = written
      BY <1>1, <1>6, <2>2
    <3>2. written > 0
      <4>1. Len(rest) = 1 /\ rest # <<>>
        BY <1>1, <1>3, <1>5, <2>2
      <4> QED BY <4>1 DEF LinesKept, RestKept
    <3> QED BY <1>1, <3>1, <3>2
  <2> QED BY <1>5, <2>1, <2>2
<1>9. ASSUME NEW i \in DOMAIN Lines, NEW j \in DOMAIN Lines, i <= j
      PROVE  Lines[j].nr - Lines[i].nr >= j - i
  <2>1. CASE j \in 1..Len(hist)
    <3>1. i \in 1..Len(hist)
      BY <1>1, <1>9, <2>1
    <3> QED BY <1>1, <1>2, <1>9, <2>1, <3>1
  <2>2. CASE j = Len(hist) + 1
    <3>1. Len(rest) = 1 /\ Lines[j].nr = written
      BY <1>1, <1>4, <1>5, <2>2
    <3>2. CASE i = j
      BY <1>1, <3>1, <3>2
    <3>3. CASE i # j
      <4>1. i \in 1..Len(hist) /\ Len(hist) \in 1..Len(hist)
        BY <1>1, <1>9, <2>2, <3>3
      <4>2. /\ hist[i].nr \in 1..written /\ hist[Len(hist)].nr \in 1..written
            /\ hist[Len(hist)].nr < written /\ Lines[i] = hist[i]
        BY <1>1, <1>2, <1>4, <3>1, <4>1
      <4>3. i <= Len(hist)
        BY <1>1, <4>1
      <4>4. hist[Len(hist)].nr - hist[i].nr >= Len(hist) - i
        BY <1>2, <4>1, <4>3
      <4> QED BY <1>1, <2>2, <3>1, <4>1, <4>2, <4>4
    <3> QED BY <3>2, <3>3
  <2> QED BY <1>5, <2>1, <2>2
<1> QED BY <1>3, <1>6, <1>7, <1>8, <1>9 DEF Numbered

\* The missing lines are finitely many.
LEMMA GoneCount ==
  ASSUME TypeOK
  PROVE  /\ IsFiniteSet(acked) /\ IsFiniteSet(Gone)
         /\ \A T : T \subseteq Gone => /\ Cardinality(T) \in Nat
                                       /\ Cardinality(T) <= Cardinality(Gone)
         /\ \A x : /\ Cardinality(Gone \cup {x}) \in Nat
                   /\ Cardinality(Gone \cup {x}) <= Cardinality(Gone) + 1
                   /\ \A T : T \subseteq Gone \cup {x} =>
                        /\ Cardinality(T) \in Nat
                        /\ Cardinality(T) <= Cardinality(Gone) + 1
<1>1. IsFiniteSet(1..written) /\ acked \subseteq 1..written
  BY TypeParts, FS_Interval DEF BooksOK
<1>2. IsFiniteSet(acked)
  BY <1>1, FS_Subset
<1>3. IsFiniteSet(Gone)
  BY <1>2, FS_Subset DEF Gone
<1>4. ASSUME NEW T, T \subseteq Gone
      PROVE  Cardinality(T) \in Nat /\ Cardinality(T) <= Cardinality(Gone)
  BY <1>3, <1>4, FS_Subset, FS_CardinalityType
<1>5. ASSUME NEW x
      PROVE  /\ IsFiniteSet(Gone \cup {x}) /\ Cardinality(Gone \cup {x}) \in Nat
             /\ Cardinality(Gone \cup {x}) <= Cardinality(Gone) + 1
  <2>1. Cardinality(Gone) \in Nat
    BY <1>3, FS_CardinalityType
  <2>2. /\ IsFiniteSet(Gone \cup {x})
        /\ Cardinality(Gone \cup {x}) = IF x \in Gone THEN Cardinality(Gone)
                                        ELSE Cardinality(Gone) + 1
    BY <1>3, FS_AddElement
  <2> QED BY <2>1, <2>2
<1>6. ASSUME NEW x, NEW T, T \subseteq Gone \cup {x}
      PROVE  Cardinality(T) \in Nat /\ Cardinality(T) <= Cardinality(Gone) + 1
  <2> DEFINE G == Gone \cup {x}
  <2>1. /\ IsFiniteSet(G) /\ Cardinality(G) \in Nat /\ Cardinality(G) <= Cardinality(Gone) + 1
        /\ T \subseteq G
    BY <1>5, <1>6
  <2>2. Cardinality(Gone) \in Nat
    BY <1>3, FS_CardinalityType
  <2> HIDE DEF G
  <2>3. IsFiniteSet(T) /\ Cardinality(T) <= Cardinality(G)
    BY <2>1, FS_Subset
  <2>4. Cardinality(T) \in Nat
    BY <2>3, FS_CardinalityType
  <2> QED BY <2>1, <2>2, <2>3, <2>4
<1> QED BY <1>2, <1>3, <1>4, <1>5, <1>6

LEMMA LinesFrame ==
  ASSUME TypeOK, LinesKept, NEW p \in Procs, Steps(p),
         UNCHANGED <<hist, rest, torn, written, acked, cuts, good, lost>>,
         pc'[p] = "trim" => snap'[p] = Lines /\ Len(Lines) > MaxLines
  PROVE  LinesKept'
<1>1. \A q \in Procs \ {p} : pc'[q] = pc[q] /\ snap'[q] = snap[q]
  BY Elsewhere
<1>2. Lines' = Lines /\ Gone' = Gone
  BY DEF Lines, Gone
<1>3. Numbered(hist)' /\ RestKept'
  BY DEF LinesKept, Numbered, RestKept
<1> QED BY <1>1, <1>2, <1>3 DEF LinesKept

LEMMA LinesKeptByCut ==
  ASSUME TypeOK, Stages, LockHeld, LinesKept, NEW p \in Procs, RecordFails(p) \/ Crash(p)
  PROVE  LinesKept'
<1>1. \A q \in Procs \ {p} : pc'[q] = pc[q] /\ snap'[q] = snap[q]
  BY Elsewhere DEF Steps, QuitSteps
<1>2. /\ written \in Nat /\ cuts \in Nat /\ torn \in BOOLEAN /\ Cardinality(Gone) \in Nat
      /\ good \in [Tasks -> Nat]
  BY TypeParts, GoneCount DEF BooksOK
<1>3. Gone' = Gone /\ UNCHANGED <<hist, good>> /\ lost \subseteq lost' /\ pc'[p] # "trim"
  BY CutEffect DEF Gone
<1>4. CASE UNCHANGED <<rest, torn, written, cuts>>
  <2>1. Numbered(hist)' /\ RestKept' /\ Lines' = Lines
    BY <1>3, <1>4 DEF LinesKept, Numbered, RestKept, Lines
  <2> QED BY <1>1, <1>3, <1>4, <2>1 DEF LinesKept
<1>5. CASE ~UNCHANGED <<rest, torn, written, cuts>>
  <2>1. /\ pc[p] = "record" /\ torn' = TRUE /\ cuts' = cuts + 1
        /\ \/ rest' = <<>> /\ written' = written
           \/ /\ written' = written + 1
              /\ \E x \in Entry : /\ rest' = <<x>> /\ x.nr = written + 1
                                  /\ x.task \in lost' \cup {None}
    BY <1>5, CutEffect
  <2>2. \A i \in DOMAIN hist : hist[i].nr \in 1..written
    BY DEF LinesKept, Numbered
  <2>3. Numbered(hist)'
    <3>1. \A i \in DOMAIN hist : hist[i].nr \in 1..written'
      BY <1>2, <2>1, <2>2
    <3> QED BY <1>3, <3>1 DEF LinesKept, Numbered
  <2>4. \A t \in Tasks : good'[t] <= written'
    BY <1>2, <1>3, <2>1 DEF LinesKept
  <2>5. RestKept'
    <3>1. CASE rest' = <<>>
      BY <3>1 DEF RestKept
    <3>2. CASE rest' # <<>>
      <4>1. PICK x \in Entry : rest' = <<x>> /\ x.nr = written + 1 /\ x.task \in lost' \cup {None}
        BY <2>1, <3>2
      <4>2. Len(rest') = 1 /\ rest'[1] = x /\ written' = written + 1 /\ written' > 0
        BY <1>2, <2>1, <3>2, <4>1
      <4>3. \A i \in DOMAIN hist : hist[i].nr < written'
        BY <1>2, <2>2, <4>2
      <4>4. \A t \in Tasks : good'[t] < written'
        BY <1>2, <1>3, <4>2 DEF LinesKept
      <4> QED BY <1>3, <2>1, <4>1, <4>2, <4>3, <4>4 DEF RestKept
    <3> QED BY <3>1, <3>2
  <2>6. Cardinality(Gone)' + (IF torn' THEN 1 ELSE 0) <= cuts'
    BY <1>2, <1>3, <2>1 DEF LinesKept
  <2>7. \A q \in Procs \ {p} : pc'[q] # "trim"
    BY <1>1, <2>1, Alone DEF AtWork
  <2> QED BY <1>3, <2>3, <2>4, <2>5, <2>6, <2>7 DEF LinesKept
<1> QED BY <1>4, <1>5

LEMMA LinesKeptByRecord ==
  ASSUME TypeOK, Stages, LockHeld, LinesKept, NEW p \in Procs, Record(p)
  PROVE  LinesKept'
<1> DEFINE r == Head(results[p])
<1>1. /\ pc[p] = "record" /\ pc'[p] # "trim"
      /\ hist' = (IF torn THEN hist ELSE Append(hist, Line(r))) /\ Line(r) \in Entry
      /\ rest' = <<>> /\ torn' = FALSE /\ cuts' = cuts
      /\ written' = written + 1 /\ acked' = acked \cup {written + 1}
      /\ \A t \in Tasks : good'[t] \in {good[t], written + 1}
  BY RecordEffect
<1>2. Line(r).nr = written + 1
  BY DEF Line
<1> HIDE DEF r
<1>3. /\ written \in Nat /\ cuts \in Nat /\ torn \in BOOLEAN /\ Cardinality(Gone) \in Nat
      /\ good \in [Tasks -> Nat] /\ Len(hist) \in Nat /\ DOMAIN hist = 1..Len(hist)
      /\ acked \subseteq 1..written /\ MaxLines \in Nat
  BY TypeParts, GoneCount, Histories, Constants DEF BooksOK
<1>4. /\ \A i \in DOMAIN hist : hist[i].nr \in 1..written
      /\ \A i, j \in 1..Len(hist) : i <= j => hist[j].nr - hist[i].nr >= j - i
  BY <1>3 DEF LinesKept, Numbered
<1>5. RestKept'
  BY <1>1 DEF RestKept
<1>6. \A t \in Tasks : good'[t] <= written'
  BY <1>1, <1>3 DEF LinesKept
<1>7. \A q \in Procs \ {p} : pc'[q] # "trim"
  <2>1. \A q \in Procs \ {p} : pc'[q] = pc[q]
    BY Elsewhere DEF Steps
  <2> QED BY <1>1, <2>1, Alone DEF AtWork
<1>8. CASE torn
  <2>1. hist' = hist
    BY <1>1, <1>8
  <2>2. Numbered(hist)'
    <3>1. \A i \in DOMAIN hist : hist[i].nr \in 1..written'
      BY <1>1, <1>3, <1>4
    <3> QED BY <2>1, <3>1 DEF Numbered, LinesKept
  <2>3. Gone' \subseteq Gone \cup {written + 1}
    BY <1>1, <2>1 DEF Gone
  <2>4. Cardinality(Gone') <= Cardinality(Gone) + 1 /\ Cardinality(Gone') \in Nat
    BY <2>3, GoneCount
  <2>5. Cardinality(Gone') + (IF torn' THEN 1 ELSE 0) <= cuts'
    BY <1>1, <1>3, <1>8, <2>4 DEF LinesKept
  <2> QED BY <1>1, <1>5, <1>6, <1>7, <2>2, <2>5 DEF LinesKept
<1>9. CASE ~torn
  <2>1. /\ Len(hist') = Len(hist) + 1 /\ DOMAIN hist' = 1..(Len(hist) + 1)
        /\ \A i \in 1..Len(hist) : hist'[i] = hist[i]
        /\ hist'[Len(hist) + 1] = Line(r)
    BY <1>1, <1>9, Histories
  <2>2. \A i \in DOMAIN hist' : hist'[i].nr \in 1..written'
    <3>1. \A i \in 1..Len(hist) : hist'[i].nr \in 1..written'
      BY <1>1, <1>3, <1>4, <2>1
    <3>2. hist'[Len(hist) + 1].nr \in 1..written'
      BY <1>1, <1>2, <1>3, <2>1
    <3> QED BY <1>3, <2>1, <3>1, <3>2
  <2>3. ASSUME NEW i \in DOMAIN hist', NEW j \in DOMAIN hist', i <= j
        PROVE  hist'[j].nr - hist'[i].nr >= j - i
    <3>1. CASE j \in 1..Len(hist)
      <4>1. i \in 1..Len(hist)
        BY <1>3, <2>1, <2>3, <3>1
      <4> QED BY <1>3, <1>4, <2>1, <2>3, <3>1, <4>1
    <3>2. CASE j = Len(hist) + 1 /\ i = j
      BY <1>2, <1>3, <2>1, <3>2
    <3>3. CASE j = Len(hist) + 1 /\ i # j
      <4>1. i \in 1..Len(hist) /\ Len(hist) \in 1..Len(hist)
        BY <1>3, <2>1, <2>3, <3>3
      <4>2. hist[i].nr \in 1..written /\ hist[Len(hist)].nr \in 1..written /\ i <= Len(hist)
        BY <1>3, <1>4, <4>1
      <4>3. hist'[i] = hist[i] /\ hist'[j].nr = written + 1
        BY <1>2, <2>1, <3>3, <4>1
      <4>4. hist[Len(hist)].nr - hist[i].nr >= Len(hist) - i
        BY <1>4, <4>1, <4>2
      <4> QED BY <1>3, <3>3, <4>1, <4>2, <4>3, <4>4
    <3> QED BY <1>3, <2>1, <3>1, <3>2, <3>3
  <2>4. Numbered(hist)'
    BY <2>2, <2>3 DEF Numbered
  <2>5. Gone' \subseteq Gone
    <3>1. ASSUME NEW n \in Gone'
          PROVE  n \in Gone
      <4>1. /\ n \in acked \cup {written + 1}
            /\ \A i \in DOMAIN hist' : hist'[i].nr # n
            /\ Len(hist') >= MaxLines => \E i \in DOMAIN hist' : hist'[i].nr < n
        BY <1>1, <3>1 DEF Gone
      <4>2. n # written + 1
        BY <1>2, <1>3, <2>1, <4>1
      <4>3. n \in acked /\ n \in 1..written
        BY <1>3, <4>1, <4>2
      <4>4. \A i \in DOMAIN hist : hist[i].nr # n
        BY <1>3, <2>1, <4>1
      <4>5. ASSUME Len(hist) >= MaxLines
            PROVE  \E i \in DOMAIN hist : hist[i].nr < n
        <5>1. PICK i \in DOMAIN hist' : hist'[i].nr < n
          BY <1>3, <2>1, <4>1, <4>5
        <5>2. i # Len(hist) + 1
          BY <1>2, <1>3, <2>1, <4>3, <5>1
        <5>3. i \in DOMAIN hist /\ hist'[i] = hist[i]
          BY <1>3, <2>1, <5>1, <5>2
        <5> QED BY <5>1, <5>3
      <4> QED BY <4>3, <4>4, <4>5 DEF Gone
    <3> QED BY <3>1
  <2>6. Cardinality(Gone') <= Cardinality(Gone) /\ Cardinality(Gone') \in Nat
    BY <2>5, GoneCount
  <2>7. Cardinality(Gone') + (IF torn' THEN 1 ELSE 0) <= cuts'
    BY <1>1, <1>3, <1>9, <2>6 DEF LinesKept
  <2> QED BY <1>1, <1>5, <1>6, <1>7, <2>4, <2>7 DEF LinesKept
<1> QED BY <1>3, <1>8, <1>9

\* What the history is after it was trimmed: the last of the lines that were read.
LEMMA TrimEffect ==
  ASSUME TypeOK, LinesKept, NEW p \in Procs, EndSteps(p), ~UNCHANGED file
  PROVE  /\ pc[p] = "trim" /\ pc'[p] # "trim" /\ rest' = <<>> /\ torn' = FALSE
         /\ UNCHANGED <<written, acked, cuts, good, lost>>
         /\ Len(hist') = MaxLines /\ DOMAIN hist' = 1..MaxLines /\ Len(Lines) > MaxLines
         /\ \A i \in 1..MaxLines : /\ hist'[i] = Lines[Len(Lines) - MaxLines + i]
                                   /\ Len(Lines) - MaxLines + i \in DOMAIN Lines
<1>1. /\ pc[p] = "trim" /\ hist' = Trimmed(snap[p]) /\ rest' = <<>> /\ torn' = FALSE
      /\ pc'[p] # "trim" /\ UNCHANGED <<written, acked, cuts, good, lost>>
  BY EndEffect
<1>2. snap[p] = Lines /\ Len(Lines) > MaxLines /\ Lines \in Seq(Entry)
  BY <1>1, Histories DEF LinesKept
<1> QED BY <1>1, <1>2, TrimmedLines

LEMMA LinesKeptByTrim ==
  ASSUME TypeOK, Stages, LockHeld, LinesKept, NEW p \in Procs, EndSteps(p), ~UNCHANGED file
  PROVE  LinesKept'
<1> DEFINE k == Len(Lines) - MaxLines
<1>1. /\ pc[p] = "trim" /\ pc'[p] # "trim" /\ rest' = <<>> /\ torn' = FALSE
      /\ UNCHANGED <<written, acked, cuts, good, lost>>
      /\ Len(hist') = MaxLines /\ DOMAIN hist' = 1..MaxLines /\ Len(Lines) > MaxLines
      /\ \A i \in 1..MaxLines : hist'[i] = Lines[k + i] /\ k + i \in DOMAIN Lines
  BY TrimEffect
<1>2. /\ written \in Nat /\ cuts \in Nat /\ torn \in BOOLEAN /\ Cardinality(Gone) \in Nat
      /\ acked \subseteq 1..written /\ MaxLines \in Nat
      /\ Len(hist) \in Nat /\ DOMAIN hist = 1..Len(hist) /\ Len(rest) \in Nat
      /\ Len(Lines) = Len(hist) + Len(rest) /\ DOMAIN Lines = 1..Len(Lines)
  BY TypeParts, GoneCount, Histories, Constants DEF BooksOK
<1>3. k \in Nat /\ k > 0 /\ Len(Lines) = k + MaxLines
  BY <1>1, <1>2
<1> HIDE DEF k
<1>4. /\ \A i \in DOMAIN Lines : Lines[i].nr \in 1..written
      /\ \A i, j \in 1..Len(Lines) : i <= j => Lines[j].nr - Lines[i].nr >= j - i
  BY <1>2, NumberedLines DEF Numbered
<1>5. Numbered(hist)'
  <2>1. \A i \in DOMAIN hist' : hist'[i].nr \in 1..written'
    BY <1>1, <1>4
  <2>2. ASSUME NEW i \in DOMAIN hist', NEW j \in DOMAIN hist', i <= j
        PROVE  hist'[j].nr - hist'[i].nr >= j - i
    <3>1. i \in 1..MaxLines /\ j \in 1..MaxLines
      BY <1>1, <2>2
    <3>2. hist'[i] = Lines[k + i] /\ hist'[j] = Lines[k + j]
      BY <1>1, <3>1
    <3>3. /\ k + i \in 1..Len(Lines) /\ k + j \in 1..Len(Lines) /\ k + i <= k + j
          /\ (k + j) - (k + i) = j - i
      BY <1>2, <1>3, <2>2, <3>1
    <3>4. Lines[k + j].nr - Lines[k + i].nr >= (k + j) - (k + i)
      BY <1>4, <3>3
    <3> QED BY <3>2, <3>3, <3>4
  <2> QED BY <2>1, <2>2 DEF Numbered
<1>6. RestKept'
  BY <1>1 DEF RestKept
<1>7. Gone' \subseteq Gone
  <2>1. ASSUME NEW n \in Gone'
        PROVE  n \in Gone
    <3>1. /\ n \in acked /\ \A i \in 1..MaxLines : hist'[i].nr # n
          /\ \E i \in 1..MaxLines : hist'[i].nr < n
      <4>1. /\ n \in acked' /\ \A i \in DOMAIN hist' : hist'[i].nr # n
            /\ Len(hist') >= MaxLines => \E i \in DOMAIN hist' : hist'[i].nr < n
        BY <2>1 DEF Gone
      <4>2. Len(hist') >= MaxLines
        BY <1>1, <1>2
      <4> QED BY <1>1, <4>1, <4>2
    <3>2. PICK i \in 1..MaxLines : hist'[i].nr < n
      BY <3>1
    <3>3. /\ n \in 1..written /\ k + i \in DOMAIN Lines /\ Lines[k + i].nr < n
          /\ Lines[k + i].nr \in Nat
      <4>1. k + i \in DOMAIN Lines /\ hist'[i] = Lines[k + i]
        BY <1>1, <3>2
      <4>2. Lines[k + i].nr \in 1..written /\ Lines[k + i].nr < n
        BY <1>4, <3>2, <4>1
      <4> QED BY <1>2, <3>1, <4>1, <4>2
    <3>4. ASSUME NEW j \in DOMAIN hist, hist[j].nr = n
          PROVE  FALSE
      <4>1. j \in 1..Len(Lines) /\ Lines[j].nr = n /\ k + i \in 1..Len(Lines)
        BY <1>2, <3>3, <3>4, NumberedLines
      <4>2. CASE j <= k + i
        <5>1. Lines[k + i].nr - Lines[j].nr >= (k + i) - j
          BY <1>4, <4>1, <4>2
        <5> QED BY <1>2, <1>3, <3>2, <3>3, <4>1, <4>2, <5>1
      <4>3. CASE ~(j <= k + i)
        <5>1. j - k \in 1..MaxLines /\ k + (j - k) = j
          BY <1>2, <1>3, <3>2, <4>1, <4>3
        <5>2. hist'[j - k] = Lines[k + (j - k)]
          BY <1>1, <5>1
        <5> QED BY <3>1, <4>1, <5>1, <5>2
      <4> QED BY <4>2, <4>3
    <3>5. k + i \in DOMAIN hist /\ hist[k + i].nr < n
      <4>1. Lines[k + i].nr # written
        BY <1>2, <3>3
      <4> QED BY <3>3, <4>1, NumberedLines
    <3> QED BY <3>1, <3>4, <3>5 DEF Gone
  <2> QED BY <2>1
<1>8. Cardinality(Gone') <= Cardinality(Gone) /\ Cardinality(Gone') \in Nat
  BY <1>7, GoneCount
<1>9. Cardinality(Gone') + (IF torn' THEN 1 ELSE 0) <= cuts'
  BY <1>1, <1>2, <1>8 DEF LinesKept
<1>10. \A q \in Procs \ {p} : pc'[q] # "trim"
  <2>1. \A q \in Procs \ {p} : pc'[q] = pc[q]
    BY Elsewhere DEF Steps
  <2> QED BY <1>1, <2>1, Alone DEF AtWork
<1>11. \A t \in Tasks : good'[t] <= written'
  BY <1>1 DEF LinesKept
<1> QED BY <1>1, <1>5, <1>6, <1>9, <1>10, <1>11 DEF LinesKept

LEMMA LinesKeptByNext ==
  ASSUME TypeOK, Stages, LockHeld, LinesKept, [Next]_vars
  PROVE  LinesKept'
<1>1. CASE Tick \/ UNCHANGED vars
  <2>1. UNCHANGED <<hist, rest, torn, written, acked, cuts, good, lost, pc, snap>>
    BY <1>1 DEF Tick, vars, workVars, file, ghosts
  <2>2. Lines' = Lines /\ Gone' = Gone /\ Numbered(hist)' /\ RestKept'
    BY <2>1 DEF LinesKept, Lines, Gone, Numbered, RestKept
  <2> QED BY <2>1, <2>2 DEF LinesKept
<1>2. ASSUME NEW p \in Procs, Steps(p)
      PROVE  LinesKept'
  <2>1. CASE LockSteps(p) \/ Refused(p) \/ Remove(p) \/ SelectSteps(p) \/ TaskEnds(p)
    BY <1>2, <2>1, BooksFrame, LinesFrame
  <2>2. CASE EndSteps(p)
    <3>1. CASE UNCHANGED file
      <4>1. UNCHANGED <<hist, rest, torn, written, acked, cuts, good, lost>>
        BY <2>2, <3>1, EndEffect DEF file
      <4>2. pc'[p] = "trim" => snap'[p] = Lines /\ Len(Lines) > MaxLines
        BY <2>2, EndEffect, QuitEffect
      <4> QED BY <1>2, <4>1, <4>2, LinesFrame
    <3>2. CASE ~UNCHANGED file
      BY <2>2, <3>2, LinesKeptByTrim
    <3> QED BY <3>1, <3>2
  <2> QED BY <1>2, <2>1, <2>2, LinesKeptByRecord, LinesKeptByCut DEF Steps, QuitSteps
<1> QED BY <1>1, <1>2, StepsOf DEF Steps

\* Where the lines of the next history come from.
LEMMA LinesFrom ==
  ASSUME TypeOK, Stages, LinesKept, NEW p \in Procs, Steps(p)
  PROVE  \/ Record(p)
         \/ UNCHANGED <<hist, good>> /\ written' \in {written, written + 1}
         \/ EndSteps(p) /\ ~UNCHANGED file
<1>1. CASE LockSteps(p) \/ Refused(p) \/ Remove(p) \/ SelectSteps(p) \/ TaskEnds(p)
  BY <1>1, BooksFrame
<1>2. CASE RecordFails(p) \/ Crash(p)
  BY <1>2, CutEffect
<1>3. CASE EndSteps(p)
  BY <1>3, EndEffect DEF file
<1> QED BY <1>1, <1>2, <1>3 DEF Steps, QuitSteps

LEMMA PastKept ==
  ASSUME TypeOK, Stages, LinesKept, InThePast, [Next]_vars
  PROVE  InThePast'
<1>1. now \in Nat /\ \A t \in Tasks : ran[t] \in Nat
  BY TypeParts DEF RestOK, BooksOK, Times, Zero
<1>2. /\ \A i \in DOMAIN hist : hist[i].at \in Nat
      /\ \A i \in DOMAIN rest : rest[i].at \in Nat
  BY Histories DEF Entry, Times
<1>3. CASE Tick \/ UNCHANGED vars
  <2>1. UNCHANGED <<hist, rest, ran>> /\ now' \in {now, now + 1}
    BY <1>3 DEF Tick, vars, file, ghosts
  <2> QED BY <1>1, <1>2, <2>1 DEF InThePast
<1>4. ASSUME NEW p \in Procs, Steps(p)
      PROVE  InThePast'
  <2>1. now' = now
    BY <1>4, BooksFrame, CutEffect, RecordEffect, EndEffect DEF Steps, QuitSteps
  <2>2. \A t \in Tasks : ran'[t] = ran[t] \/ ran'[t] = now
    <3>1. CASE TaskEnds(p)
      BY <3>1, TypeParts DEF TaskEnds, BooksOK
    <3>2. CASE ~TaskEnds(p)
      <4>1. UNCHANGED ran
        BY <1>4, <3>2, EndEffect, RecordEffect
           DEF Steps, LockSteps, QuitSteps, SelectSteps, Start, Lock, Unlock, Refused, Remove,
               Crash, Select, SelectBlindly, SelectBy, RecordFails, ghosts
      <4> QED BY <4>1
    <3> QED BY <3>1, <3>2
  <2>3. \A i \in DOMAIN hist' : hist'[i].at <= now
    <3>1. CASE Record(p)
      <4> DEFINE r == Head(results[p])
      <4>1. hist' = (IF torn THEN hist ELSE Append(hist, Line(r))) /\ Line(r) \in Entry
        BY <3>1, RecordEffect
      <4>2. Line(r).at <= now
        <5>1. 1 <= now
          BY TypeParts DEF RestOK, Times
        <5> QED BY <1>1, <5>1 DEF Line
      <4> HIDE DEF r
      <4>3. \A i \in DOMAIN hist' : hist'[i] = Line(r) \/ (i \in DOMAIN hist /\ hist'[i] = hist[i])
        <5>1. CASE torn
          BY <4>1, <5>1
        <5>2. CASE ~torn
          <6>1. /\ DOMAIN hist' = 1..(Len(hist) + 1) /\ DOMAIN hist = 1..Len(hist)
                /\ \A i \in 1..Len(hist) : hist'[i] = hist[i]
                /\ hist'[Len(hist) + 1] = Line(r) /\ Len(hist) \in Nat
            BY <4>1, <5>2, Histories
          <6>2. \A i \in 1..(Len(hist) + 1) : i \in 1..Len(hist) \/ i = Len(hist) + 1
            BY <6>1
          <6> QED BY <6>1, <6>2
        <5> QED BY <5>1, <5>2
      <4> QED BY <4>2, <4>3 DEF InThePast
    <3>2. CASE EndSteps(p) /\ ~UNCHANGED file
      <4>1. \A i \in DOMAIN Lines : Lines[i].at <= now
        BY NumberedLines DEF InThePast
      <4> QED BY <3>2, <4>1, TrimEffect
    <3> QED BY <1>4, <3>1, <3>2, LinesFrom DEF InThePast
  <2>4. \A i \in DOMAIN rest' : rest'[i].at <= now
    <3>1. rest' = rest \/ rest' = <<>> \/ \E x \in Entry : rest' = <<x>> /\ x.at <= now
      <4>1. CASE RecordFails(p) \/ Crash(p)
        BY <4>1, CutEffect
      <4>2. CASE ~(RecordFails(p) \/ Crash(p))
        BY <1>4, <4>2, BooksFrame, RecordEffect, EndEffect DEF Steps, QuitSteps, file
      <4> QED BY <4>1, <4>2
    <3>2. CASE rest' = rest \/ rest' = <<>>
      BY <3>2 DEF InThePast
    <3>3. ASSUME NEW x \in Entry, rest' = <<x>>, x.at <= now
          PROVE  \A i \in DOMAIN rest' : rest'[i].at <= now
      BY <3>3
    <3> QED BY <3>1, <3>2, <3>3
  <2> QED BY <1>1, <2>1, <2>2, <2>3, <2>4 DEF InThePast
<1> QED BY <1>3, <1>4, StepsOf DEF Steps

-----------------------------------------------------------------------------
(* The last success of a task.                                              *)

\* A success nobody still has to record was recorded before this step or is lost,
\* unless this step records it.
LEMMA SettledBefore ==
  ASSUME TypeOK, Stages, NEW p \in Procs, Steps(p), NEW t \in Tasks,
         Settled(t)', t \notin lost', ran'[t] # Zero,
         Record(p) => ~(Head(results[p]).ok /\ Head(results[p]).task = t)
  PROVE  Settled(t) /\ t \notin lost /\ ran'[t] = ran[t]
<1>1. SUFFICES /\ \A i \in DOMAIN results[p] : ~(results[p][i].ok /\ results[p][i].task = t)
               /\ t \notin lost /\ ran'[t] = ran[t]
  BY Elsewhere DEF Settled
<1>2. \A i \in DOMAIN results'[p] : ~(results'[p][i].ok /\ results'[p][i].task = t)
  BY DEF Settled
<1>3. CASE LockSteps(p)
  BY <1>2, <1>3 DEF LockSteps, Start, Lock, Unlock, workVars, file, ghosts
<1>4. CASE Refused(p) \/ Remove(p)
  <2>1. results[p] = <<>> /\ UNCHANGED <<lost, ran>>
    BY <1>4 DEF Refused, Remove, ghosts, Stages
  <2> QED BY <2>1
<1>5. CASE Crash(p)
  <2>1. /\ UNCHANGED ran
        /\ lost' = lost \cup {results[p][i].task :
                              i \in {j \in DOMAIN results[p] : results[p][j].ok}}
    BY <1>5 DEF Crash
  <2> QED BY <2>1
<1>6. CASE SelectSteps(p)
  BY <1>2, <1>6 DEF SelectSteps, Select, SelectBlindly, SelectBy, ghosts
<1>7. CASE TaskEnds(p)
  <2>1. PICK u \in todo[p], ok \in BOOLEAN :
          /\ results' = [results EXCEPT ![p] = Append(@, [task |-> u, ok |-> ok])]
          /\ ran' = IF ok THEN [ran EXCEPT ![u] = now] ELSE ran
    BY <1>7 DEF TaskEnds
  <2> DEFINE r == [task |-> u, ok |-> ok]
  <2>2. u \in Tasks /\ r \in Result /\ r.task = u /\ r.ok = ok
    BY TypeParts DEF WorkOK, Result
  <2>3. results'[p] = Append(results[p], r) /\ UNCHANGED lost
    BY <1>7, <2>1, Domains DEF TaskEnds
  <2> HIDE DEF r
  <2>4. /\ \A i \in DOMAIN results[p] : /\ i \in DOMAIN results'[p]
                                        /\ results'[p][i] = results[p][i]
        /\ Len(results[p]) + 1 \in DOMAIN results'[p]
        /\ results'[p][Len(results[p]) + 1] = r
    BY <2>2, <2>3, Recordings
  <2>5. ~(ok /\ u = t)
    BY <1>2, <2>2, <2>4
  <2>6. ran'[t] = ran[t]
    BY <2>1, <2>5, TypeParts DEF BooksOK
  <2> QED BY <1>2, <2>3, <2>4, <2>6
<1>8. CASE Record(p) \/ RecordFails(p)
  <2>1. /\ results[p] # <<>> /\ results'[p] = Tail(results[p]) /\ UNCHANGED ran
    BY <1>8, Domains DEF Record, RecordFails
  <2>2. ~(Head(results[p]).ok /\ Head(results[p]).task = t) /\ t \notin lost
    <3>1. CASE Record(p)
      BY <3>1, RecordEffect
    <3>2. CASE RecordFails(p)
      BY <3>2 DEF RecordFails
    <3> QED BY <1>8, <3>1, <3>2
  <2>3. /\ Head(results[p]) = results[p][1]
        /\ \A i \in DOMAIN results[p] : i = 1 \/
              (i - 1 \in DOMAIN results'[p] /\ results'[p][i - 1] = results[p][i])
    <3> DEFINE tail == Tail(results[p])
    <3>1. /\ Head(results[p]) = results[p][1]
          /\ \A i \in DOMAIN results[p] : i = 1 \/
                (i - 1 \in DOMAIN tail /\ tail[i - 1] = results[p][i])
      BY <2>1, Recordings
    <3>2. results'[p] = tail
      BY <2>1
    <3> HIDE DEF tail
    <3> QED BY <3>1, <3>2
  <2> QED BY <1>2, <2>1, <2>2, <2>3
<1>9. CASE EndSteps(p)
  <2>1. results[p] = <<>> /\ UNCHANGED <<lost, ran>>
    BY <1>9, EndEffect DEF Stages
  <2> QED BY <2>1
<1> QED BY <1>3, <1>4, <1>5, <1>6, <1>7, <1>8, <1>9 DEF Steps, QuitSteps

LEMMA SuccessKeptByNext ==
  ASSUME TypeOK, Stages, SafeInv, [Next]_vars
  PROVE  SuccessKept'
<1> USE DEF SafeInv
<1>1. written \in Nat /\ now \in Nat /\ MaxLines \in Nat /\ \A t \in Tasks : good[t] \in Nat
  BY TypeParts, Constants DEF BooksOK, RestOK, Times
<1>2. /\ Len(hist) \in Nat /\ DOMAIN hist = 1..Len(hist)
      /\ \A i \in DOMAIN hist : hist[i] \in Entry
  BY Histories
<1>3. \A i \in DOMAIN hist : hist[i].nr \in Nat /\ hist[i].nr <= written
  BY <1>1, <1>2 DEF LinesKept, Numbered
<1>4. CASE Tick \/ UNCHANGED vars
  <2>1. UNCHANGED <<hist, ran, good, written, results, lost>>
    BY <1>4 DEF Tick, vars, file, ghosts, workVars
  <2> QED BY <2>1 DEF SuccessKept, Settled, LastKept
<1>5. ASSUME NEW p \in Procs, Steps(p), NEW t \in Tasks,
             t \notin lost', ran'[t] # Zero, Settled(t)'
      PROVE  LastKept(t)'
  <2> DEFINE r == Head(results[p])
  <2>1. CASE Record(p)
    <3>1. /\ hist' = (IF torn THEN hist ELSE Append(hist, Line(r))) /\ Line(r) \in Entry
          /\ written' = written + 1 /\ UNCHANGED ran /\ r \in Result
          /\ IF r.ok /\ r.task = t THEN good'[t] = written + 1 /\ ~torn ELSE good'[t] = good[t]
      BY <1>5, <2>1, RecordEffect
    <3>2. /\ Line(r).nr = written + 1 /\ Line(r).task = (IF r.ok THEN r.task ELSE None)
          /\ r.ok => Line(r).at = now
      BY DEF Line
    <3>3. (~(r.ok /\ r.task = t) => LastKept(t))
      BY <1>5, <2>1, SettledBefore DEF SuccessKept
    <3>4. r.ok \in BOOLEAN /\ r.task \in Tasks
      BY <3>1, LineTyped
    <3> HIDE DEF r
    <3>5. CASE torn
      <4>1. LastKept(t) /\ UNCHANGED <<hist, ran>> /\ good'[t] = good[t]
        BY <3>1, <3>3, <3>5
      <4>2. good'[t] \in 1..written'
        BY <1>1, <3>1, <4>1 DEF LastKept
      <4> QED BY <4>1, <4>2 DEF LastKept
    <3>6. CASE ~torn
      <4>1. /\ DOMAIN hist' = 1..(Len(hist) + 1) /\ Len(hist') = Len(hist) + 1
            /\ \A i \in 1..Len(hist) : hist'[i] = hist[i]
            /\ hist'[Len(hist) + 1] = Line(r) /\ Len(hist) + 1 \in DOMAIN hist'
        BY <1>2, <3>1, <3>6, Histories
      <4>2. \A i \in DOMAIN hist' : \/ hist'[i] = Line(r)
                                    \/ i \in DOMAIN hist /\ hist'[i] = hist[i]
        BY <1>2, <4>1
      <4>3. \A i \in DOMAIN hist : i \in DOMAIN hist' /\ hist'[i] = hist[i]
        BY <1>2, <4>1
      <4>4. CASE r.ok /\ r.task = t
        <5>1. good'[t] = written + 1 /\ good'[t] \in 1..written'
          BY <1>1, <3>1, <4>4
        <5>2. \A i \in DOMAIN hist' : hist'[i].nr = good'[t] => hist'[i] = Line(r)
          BY <1>1, <1>3, <4>2, <5>1
        <5>3. Line(r).task = t /\ ran'[t] <= Line(r).at
          BY <3>1, <3>2, <4>4 DEF InThePast
        <5>4. \A i \in DOMAIN hist' : hist'[i].nr <= good'[t]
          BY <1>1, <1>3, <3>2, <4>2, <5>1
        <5>5. \E i \in DOMAIN hist' : hist'[i].nr = good'[t]
          BY <3>2, <4>1, <5>1
        <5> QED BY <5>1, <5>2, <5>3, <5>4, <5>5 DEF LastKept
      <4>5. CASE ~(r.ok /\ r.task = t)
        <5>1. LastKept(t) /\ good'[t] = good[t] /\ UNCHANGED ran
          BY <3>1, <3>3, <4>5
        <5>2. good'[t] \in 1..written' /\ good[t] # written + 1 /\ good[t] < written + 1
          BY <1>1, <3>1, <5>1 DEF LastKept
        <5>3. Line(r).task # t
          BY <3>2, <4>5, Constants
        <5>4. \/ \E i \in DOMAIN hist' : hist'[i].nr = good'[t]
              \/ Len(hist') >= MaxLines /\ \A i \in DOMAIN hist' : hist'[i].nr > good'[t]
          <6>1. CASE \E i \in DOMAIN hist : hist[i].nr = good[t]
            BY <4>3, <5>1, <6>1
          <6>2. CASE Len(hist) >= MaxLines /\ \A i \in DOMAIN hist : hist[i].nr > good[t]
            <7>1. \A i \in DOMAIN hist' : hist'[i].nr > good'[t]
              BY <3>2, <4>2, <5>1, <5>2, <6>2
            <7>2. Len(hist') >= MaxLines
              BY <1>1, <1>2, <4>1, <6>2
            <7> QED BY <7>1, <7>2
          <6> QED BY <5>1, <6>1, <6>2 DEF LastKept
        <5>5. /\ \A i \in DOMAIN hist' :
                    hist'[i].nr = good'[t] => hist'[i].task = t /\ ran'[t] <= hist'[i].at
              /\ \A i \in DOMAIN hist' : hist'[i].task = t => hist'[i].nr <= good'[t]
          BY <3>2, <4>2, <5>1, <5>2, <5>3 DEF LastKept
        <5> QED BY <5>2, <5>4, <5>5 DEF LastKept
      <4> QED BY <4>4, <4>5
    <3> QED BY <3>5, <3>6
  <2>2. CASE ~Record(p) /\ UNCHANGED <<hist, good>> /\ written' \in {written, written + 1}
    <3>1. LastKept(t) /\ ran'[t] = ran[t]
      BY <1>5, <2>2, SettledBefore DEF SuccessKept
    <3>2. good'[t] \in 1..written'
      BY <1>1, <2>2, <3>1 DEF LastKept
    <3> QED BY <2>2, <3>1, <3>2 DEF LastKept
  <2>3. CASE ~Record(p) /\ EndSteps(p) /\ ~UNCHANGED file
    <3> DEFINE k == Len(Lines) - MaxLines
    <3>1. LastKept(t) /\ t \notin lost /\ ran'[t] = ran[t]
      BY <1>5, <2>3, SettledBefore DEF SuccessKept
    <3>2. /\ UNCHANGED <<written, good>> /\ Len(hist') = MaxLines /\ DOMAIN hist' = 1..MaxLines
          /\ \A i \in 1..MaxLines : hist'[i] = Lines[k + i] /\ k + i \in DOMAIN Lines
          /\ Len(Lines) > MaxLines
      BY <2>3, TrimEffect
    <3>3. /\ \A i \in DOMAIN Lines :
               \/ i \in DOMAIN hist /\ Lines[i] = hist[i]
               \/ rest # <<>> /\ Lines[i].nr = written /\ Lines[i].task \in lost \cup {None}
          /\ rest # <<>> => good[t] < written
      BY NumberedLines DEF LinesKept, RestKept
    <3>4. /\ DOMAIN Lines = 1..Len(Lines) /\ Len(Lines) \in Nat
          /\ \A i \in DOMAIN hist : i \in DOMAIN Lines /\ Lines[i] = hist[i]
          /\ \A i \in DOMAIN Lines : Lines[i].nr \in 1..written
      BY NumberedLines, Histories DEF Numbered
    <3>10. \A i, j \in 1..Len(Lines) : i <= j => Lines[j].nr - Lines[i].nr >= j - i
      BY <3>4, NumberedLines DEF Numbered
    <3>5. k \in Nat /\ Len(Lines) = k + MaxLines
      BY <1>1, <3>2, <3>4
    <3> HIDE DEF k
    <3>6. \A i \in DOMAIN Lines :
            /\ Lines[i].nr = good[t] => Lines[i].task = t /\ ran[t] <= Lines[i].at
            /\ Lines[i].task = t => Lines[i].nr <= good[t]
      BY <1>1, <3>1, <3>3, Constants DEF LastKept
    <3>7. \/ \E i \in DOMAIN hist' : hist'[i].nr = good[t]
          \/ \A i \in DOMAIN hist' : hist'[i].nr > good[t]
      <4>1. CASE \E i \in DOMAIN hist : hist[i].nr = good[t]
        <5>1. PICK j \in DOMAIN Lines : Lines[j].nr = good[t]
          BY <3>4, <4>1
        <5>2. CASE j > k
          <6>1. j - k \in 1..MaxLines /\ k + (j - k) = j
            BY <1>1, <3>4, <3>5, <5>1, <5>2
          <6> QED BY <3>2, <5>1, <6>1
        <5>3. CASE ~(j > k)
          <6>1. ASSUME NEW i \in 1..MaxLines
                PROVE  hist'[i].nr > good[t]
            <7>1. j \in 1..Len(Lines) /\ k + i \in 1..Len(Lines)
              BY <3>2, <3>4, <5>1, <6>1
            <7>2. j <= k + i /\ (k + i) - j > 0
              BY <3>5, <5>3, <6>1, <7>1
            <7>3. Lines[k + i].nr - Lines[j].nr >= (k + i) - j
              BY <3>10, <7>1, <7>2
            <7>4. Lines[k + i].nr \in Nat /\ hist'[i] = Lines[k + i]
              BY <1>1, <3>2, <3>4, <6>1, <7>1
            <7>5. Lines[k + i].nr - good[t] >= (k + i) - j
              BY <5>1, <7>3
            <7>6. (k + i) - j \in Int /\ good[t] \in Nat
              BY <1>1, <3>4, <3>5, <6>1, <7>1
            <7>7. Lines[k + i].nr > good[t]
              BY <7>2, <7>4, <7>5, <7>6
            <7> QED BY <7>4, <7>7
          <6> QED BY <3>2, <6>1
        <5> QED BY <5>2, <5>3
      <4>2. CASE \A i \in DOMAIN hist : hist[i].nr > good[t]
        <5>1. \A i \in DOMAIN Lines : Lines[i].nr > good[t]
          BY <1>1, <3>3, <4>2
        <5> QED BY <3>2, <5>1
      <4> QED BY <3>1, <4>1, <4>2 DEF LastKept
    <3>8. \A i \in DOMAIN hist' :
            /\ hist'[i].nr = good'[t] => hist'[i].task = t /\ ran'[t] <= hist'[i].at
            /\ hist'[i].task = t => hist'[i].nr <= good'[t]
      BY <3>1, <3>2, <3>6
    <3>9. Len(hist') >= MaxLines /\ good'[t] \in 1..written'
      BY <1>1, <3>1, <3>2 DEF LastKept
    <3> QED BY <3>2, <3>7, <3>8, <3>9 DEF LastKept
  <2> QED BY <1>5, <2>1, <2>2, <2>3, LinesFrom
<1> QED BY <1>4, <1>5, StepsOf DEF Steps, SuccessKept

-----------------------------------------------------------------------------
(* Times of day and of the week.                                            *)

LEMMA Division ==
  ASSUME NEW a \in Nat, NEW n \in Nat \ {0}
  PROVE  a \div n \in Nat /\ n * (a \div n) <= a /\ a < n * (a \div n) + n
OBVIOUS

LEMMA Remainder ==
  ASSUME NEW a \in Nat, NEW n \in Nat \ {0}
  PROVE  (a % n) \in Nat /\ (a % n) < n /\ a = n * (a \div n) + (a % n)
OBVIOUS

\* A multiple of n between two numbers separates their quotients.
LEMMA Later ==
  ASSUME NEW a \in Nat, NEW b \in Nat, NEW k \in Nat, NEW n \in Nat \ {0},
         a < k * n, k * n <= b
  PROVE  a \div n < b \div n
<1>1. a \div n < k
  BY Division
<1>2. k <= b \div n
  BY Division
<1> QED BY <1>1, <1>2, Division

LEMMA FurtherOn ==
  ASSUME NEW a \in Nat, NEW b \in Nat, NEW n \in Nat \ {0}, b - a > n
  PROVE  a \div n < b \div n
<1> DEFINE k == (a \div n) + 1
<1>1. k \in Nat /\ k * n = n * (a \div n) + n
  BY Division
<1>2. a < k * n /\ k * n <= b
  BY <1>1, Division
<1> HIDE DEF k
<1> QED BY <1>1, <1>2, Later

LEMMA Distribute ==
  ASSUME NEW w \in Nat, NEW x \in Nat, NEW m \in {0, 1}
  PROVE  w * (x + 2 - m) = w * x + 2 * w - w * m
<1>1. w * (x + 1) = w * x + w /\ w * (x + 2) = w * x + 2 * w
  OBVIOUS
<1> QED BY <1>1

\* The day of the week is reached again after whole weeks.
LEMMA WeekDay ==
  ASSUME NEW q \in Nat, NEW w \in Nat \ {0}, NEW day \in 0..(w - 1)
  PROVE  /\ ((day + w - (q % w)) % w) \in Nat
         /\ \E k \in Nat : q + ((day + w - (q % w)) % w) + w = w * k + day
<1> DEFINE left == day + w - (q % w)
           m == left \div w
           k == (q \div w) + 2 - m
<1>1. (q % w) \in Nat /\ (q % w) < w /\ q = w * (q \div w) + (q % w) /\ q \div w \in Nat
  BY Remainder, Division
<1>2. left \in Nat /\ left < 2 * w
  BY <1>1
<1> HIDE DEF left
<1>3. m \in Nat /\ (left % w) \in Nat /\ left = w * m + (left % w) /\ w * m <= left
  BY <1>2, Remainder, Division
<1> HIDE DEF m
<1>4. m < 2
  BY <1>2, <1>3
<1>5. k \in Nat
  BY <1>1, <1>3, <1>4
<1>6. w * k = w * (q \div w) + 2 * w - w * m
  <2>1. m \in {0, 1} /\ w \in Nat
    BY <1>3, <1>4
  <2> QED BY <1>1, <2>1, Distribute
<1> HIDE DEF k
<1>7. q + (left % w) + w = w * k + day
  <2>1. w * k \in Nat /\ w * (q \div w) \in Nat /\ w * m \in Nat
    BY <1>1, <1>3, <1>5
  <2>2. left = day + w - (q % w)
    BY DEF left
  <2> QED BY <1>1, <1>3, <1>6, <2>1, <2>2
<1> QED BY <1>3, <1>5, <1>7 DEF left

\* A task with a time of day that is due after a success at a or later has had a
\* turn since then.
LEMMA TurnComes ==
  ASSUME TypeOK, NEW s, NEW a \in Nat, NEW last \in Nat, a <= last, last <= now,
         s \in [kind : {"daily"}, at : 0..DayLen - 1]
               \cup [kind : {"weekly"}, day : 0..WeekDays - 1, at : 0..DayLen - 1],
         now - last > Period(s) \/ (last < Target(s) /\ Target(s) <= now)
  PROVE  Turns(s, a) < Turns(s, now)
<1>1. now \in Nat /\ DayLen \in Nat \ {0} /\ WeekDays \in Nat \ {0}
  BY TypeParts, Constants DEF RestOK, Times
<1>2. now \div DayLen \in Nat
  BY <1>1, Division
<1> DEFINE q == now \div DayLen
<1>3. CASE s \in [kind : {"daily"}, at : 0..DayLen - 1]
  <2>1. s.kind = "daily" /\ s.at \in Nat /\ s.at < DayLen
    BY <1>1, <1>3
  <2>2. Period(s) = DayLen
    BY <2>1 DEF Period
  <2>3. Target(s) = q * DayLen + s.at
    BY <2>1 DEF Target, Midnight
  <2>4. /\ Turns(s, a) = (a + DayLen - s.at) \div DayLen
        /\ Turns(s, now) = (now + DayLen - s.at) \div DayLen
    BY <2>1 DEF Turns
  <2>5. a + DayLen - s.at \in Nat /\ now + DayLen - s.at \in Nat
    BY <1>1, <2>1
  <2>6. CASE now - last > Period(s)
    <3>1. (now + DayLen - s.at) - (a + DayLen - s.at) > DayLen
      BY <1>1, <2>1, <2>2, <2>6
    <3> QED BY <1>1, <2>4, <2>5, <3>1, FurtherOn
  <2>7. CASE last < Target(s) /\ Target(s) <= now
    <3>1. (q + 1) * DayLen = q * DayLen + DayLen /\ q * DayLen \in Nat /\ q + 1 \in Nat
      BY <1>1, <1>2
    <3> HIDE DEF q
    <3>2. /\ a + DayLen - s.at < (q + 1) * DayLen
          /\ (q + 1) * DayLen <= now + DayLen - s.at
      BY <1>1, <2>1, <2>3, <2>7, <3>1
    <3> QED BY <1>1, <2>4, <2>5, <3>1, <3>2, Later
  <2> QED BY <2>6, <2>7
<1>4. CASE s \in [kind : {"weekly"}, day : 0..WeekDays - 1, at : 0..DayLen - 1]
  <2> DEFINE days == (s.day + WeekDays - (q % WeekDays)) % WeekDays
             P == WeekDays * DayLen
             off == s.day * DayLen + s.at
  <2>1. /\ s.kind = "weekly" /\ s.at \in Nat /\ s.at < DayLen /\ s.day \in 0..(WeekDays - 1)
        /\ s.day \in Nat /\ s.day <= WeekDays - 1
    BY <1>1, <1>4
  <2>2. Period(s) = P
    BY <2>1 DEF Period
  <2>3. Target(s) = q * DayLen + days * DayLen + s.at
    BY <2>1 DEF Target, Midnight, DaysUntil
  <2>4. /\ Turns(s, a) = (a + P - off) \div P
        /\ Turns(s, now) = (now + P - off) \div P
    BY <2>1, <2>2 DEF Turns
  <2>5. P \in Nat \ {0} /\ off \in Nat /\ off < P
    <3>1. s.day * DayLen <= (WeekDays - 1) * DayLen
      BY <1>1, <2>1
    <3>2. (WeekDays - 1) * DayLen = WeekDays * DayLen - DayLen
      BY <1>1
    <3>3. WeekDays * DayLen \in Nat /\ s.day * DayLen \in Nat
      BY <1>1, <2>1
    <3> QED BY <1>1, <2>1, <3>1, <3>2, <3>3
  <2>6. days \in Nat /\ \E k \in Nat : q + days + WeekDays = WeekDays * k + s.day
    BY <1>1, <1>2, <2>1, WeekDay
  <2>7. PICK k \in Nat : q + days + WeekDays = WeekDays * k + s.day
    BY <2>6
  <2>8. q \in Nat
    BY <1>2
  <2> HIDE DEF q, days
  <2>9. q * DayLen + days * DayLen + s.at + P = k * P + off
    <3>1. (q + days + WeekDays) * DayLen = q * DayLen + days * DayLen + P
      BY <1>1, <2>6, <2>8
    <3>2. (WeekDays * k + s.day) * DayLen = k * P + s.day * DayLen
      BY <1>1, <2>1, <2>7
    <3>3. /\ q * DayLen \in Nat /\ days * DayLen \in Nat /\ k * P \in Nat /\ P \in Nat
          /\ s.day * DayLen \in Nat
      BY <1>1, <2>1, <2>6, <2>7, <2>8
    <3> QED BY <2>1, <2>7, <3>1, <3>2, <3>3
  <2>10. k * P \in Nat /\ q * DayLen \in Nat /\ days * DayLen \in Nat
    BY <1>1, <2>5, <2>6, <2>7, <2>8
  <2> HIDE DEF P, off
  <2>11. a + P - off \in Nat /\ now + P - off \in Nat
    BY <1>1, <2>5
  <2>12. CASE now - last > Period(s)
    <3>1. (now + P - off) - (a + P - off) > P
      BY <1>1, <2>2, <2>5, <2>12
    <3> QED BY <2>4, <2>5, <2>11, <3>1, FurtherOn
  <2>13. CASE last < Target(s) /\ Target(s) <= now
    <3>1. a + P - off < k * P /\ k * P <= now + P - off
      BY <1>1, <2>1, <2>3, <2>5, <2>9, <2>10, <2>13
    <3> QED BY <2>4, <2>5, <2>7, <2>11, <3>1, Later
  <2> QED BY <2>12, <2>13
<1> QED BY <1>3, <1>4

-----------------------------------------------------------------------------
(* The invariant.                                                           *)

LEMMA InvInit == Init => IInv
<1> SUFFICES ASSUME Init
             PROVE  IInv
  OBVIOUS
<1> USE DEF Init
<1>1. TypeOK
  <2>1. /\ pc \in PcType /\ path \in Files \cup {NoFile}
        /\ owner \in [Files -> Procs \cup {None}] /\ fd \in [Procs -> Files \cup {NoFile}]
    BY DEF PcType
  <2>2. WorkOK
    BY DEF WorkOK
  <2>3. BooksOK
    <3>1. <<>> \in Seq(Entry)
      OBVIOUS
    <3> QED BY <3>1 DEF BooksOK
  <2>4. RestOK
    <3>1. sched \in [Tasks -> UNION {Schedules[t] : t \in Tasks}]
      OBVIOUS
    <3>2. now = 1 /\ starts = 0 /\ faults = 0 /\ stolen = FALSE
      OBVIOUS
    <3> HIDE DEF Init
    <3>3. now \in Times /\ starts \in 0..MaxStarts /\ faults \in 0..MaxFaults
      BY <3>2, Constants DEF Times
    <3> QED BY <3>1, <3>2, <3>3 DEF RestOK
  <2> QED BY <2>1, <2>2, <2>3, <2>4, TypeParts DEF FilesOK
<1>2. Stages
  BY DEF Stages, AtWork
<1>3. LockHeld
  BY DEF LockHeld, AtWork
<1>4. LinesKept
  <2>1. DOMAIN hist = {}
    OBVIOUS
  <2>2. Gone = {}
    BY DEF Gone
  <2>3. Cardinality(Gone) = 0
    BY <2>2, FS_EmptySet
  <2>4. \A p \in Procs : pc[p] # "trim"
    OBVIOUS
  <2>5. \A t \in Tasks : good[t] <= written
    OBVIOUS
  <2>6. rest = <<>> /\ torn = FALSE /\ cuts = 0
    OBVIOUS
  <2> HIDE DEF Init
  <2> QED BY <2>1, <2>3, <2>4, <2>5, <2>6 DEF LinesKept, Numbered, RestKept
<1>5. InThePast /\ SuccessKept
  BY DEF InThePast, SuccessKept, Zero
<1> QED BY <1>1, <1>2, <1>3, <1>4, <1>5 DEF IInv, SafeInv

LEMMA StolenBefore ==
  ASSUME TypeOK, [Next]_vars, ~stolen'
  PROVE  ~stolen
<1>1. CASE Tick \/ UNCHANGED vars
  BY <1>1 DEF Tick, vars
<1>2. ASSUME NEW p \in Procs, Steps(p)
      PROVE  ~stolen
  <2>1. CASE LockSteps(p) \/ QuitSteps(p)
    BY <2>1 DEF LockSteps, QuitSteps, Start, Lock, Unlock, Refused, Remove, Crash
  <2>2. CASE Working(p) \/ EndSteps(p)
    BY <2>2, WorkEffect, EndEffect
  <2> QED BY <1>2, <2>1, <2>2 DEF Steps, Working
<1> QED BY <1>1, <1>2, StepsOf DEF Steps

LEMMA InvNext == IInv /\ [Next]_vars => IInv'
<1> SUFFICES ASSUME TypeOK, Stages, ~stolen => SafeInv, [Next]_vars
             PROVE  IInv'
  BY DEF IInv
<1>1. TypeOK' /\ Stages'
  BY TypeKept, StagesKept
<1>2. ASSUME ~stolen'
      PROVE  SafeInv'
  <2>1. SafeInv
    BY <1>2, StolenBefore
  <2>2. LockHeld' /\ LinesKept' /\ InThePast'
    BY <1>2, <2>1, LockKept, LinesKeptByNext, PastKept DEF SafeInv
  <2>3. SuccessKept'
    BY <2>1, SuccessKeptByNext
  <2> QED BY <2>2, <2>3 DEF SafeInv
<1> QED BY <1>1, <1>2 DEF IInv

LEMMA InvAlways == Spec => []IInv
BY InvInit, InvNext, PTL DEF Spec

\* Every variable has its type: a trimmed history is one, and there are files
\* enough for all the starts.
THEOREM TypeCorrect == Spec => []TypeOK
<1>1. IInv => TypeOK
  BY DEF IInv
<1> QED BY <1>1, InvAlways, PTL

\* As long as Release has not removed a lock file that somebody else had open,
\* one process at most is past Acquire and not past the unlocking.
THEOREM LockExcludes == Spec => []OneAtATime
<1>1. IInv => OneAtATime
  BY Alone DEF IInv, SafeInv, OneAtATime
<1> QED BY <1>1, InvAlways, PTL

\* Then the history also is read in the order of writing, and lacks no newer line that
\* was written without an error but one behind each that was cut short: who trims it does
\* it alone, and a death while trimming costs nothing.
THEOREM LinesAreKept == Spec => []HistoryKept
<1>1. ASSUME TypeOK, LinesKept
      PROVE  Missing \subseteq Gone
  <2>1. /\ acked \subseteq 1..written /\ written \in Nat /\ MaxLines \in Nat
        /\ Len(hist) \in Nat /\ Len(rest) \in Nat /\ Len(Lines) = Len(hist) + Len(rest)
    BY <1>1, TypeParts, Histories, Constants DEF BooksOK
  <2>2. ASSUME NEW n \in Missing
        PROVE  n \in Gone
    <3>1. /\ n \in acked /\ \A i \in DOMAIN Lines : Lines[i].nr # n
          /\ Len(Lines) >= MaxLines => \E i \in DOMAIN Lines : Lines[i].nr < n
      BY <2>2 DEF Missing
    <3>2. n \in 1..written
      BY <2>1, <3>1
    <3>3. \A i \in DOMAIN hist : hist[i].nr # n
      BY <1>1, <3>1, NumberedLines
    <3>4. ASSUME Len(hist) >= MaxLines
          PROVE  \E i \in DOMAIN hist : hist[i].nr < n
      <4>1. PICK i \in DOMAIN Lines : Lines[i].nr < n
        BY <2>1, <3>1, <3>4
      <4>2. Lines[i].nr # written
        BY <2>1, <3>2, <4>1
      <4> QED BY <1>1, <4>1, <4>2, NumberedLines
    <3> QED BY <3>1, <3>3, <3>4 DEF Gone
  <2> QED BY <2>2
<1>2. ASSUME TypeOK, LinesKept
      PROVE  Cardinality(Missing) <= cuts
  <2>1. Missing \subseteq Gone
    BY <1>1, <1>2
  <2>2. Cardinality(Missing) \in Nat /\ Cardinality(Missing) <= Cardinality(Gone)
    BY <1>2, <2>1, GoneCount
  <2>3. Cardinality(Gone) \in Nat /\ cuts \in Nat /\ torn \in BOOLEAN
    BY <1>2, GoneCount, TypeParts DEF BooksOK
  <2> QED BY <1>2, <2>2, <2>3 DEF LinesKept
<1>3. ASSUME TypeOK, LinesKept, NEW i \in DOMAIN Lines, NEW j \in DOMAIN Lines, i < j
      PROVE  Lines[i].nr < Lines[j].nr
  <2>1. /\ Lines[j].nr - Lines[i].nr >= j - i /\ Lines[i].nr \in Nat /\ Lines[j].nr \in Nat
        /\ i \in Nat /\ j \in Nat
    <3>1. DOMAIN Lines = 1..(Len(hist) + Len(rest)) /\ written \in Nat
      BY <1>3, Histories, TypeParts DEF BooksOK
    <3>2. Len(hist) + Len(rest) \in Nat
      BY <1>3, Histories
    <3>3. i \in Nat /\ j \in Nat /\ i <= j
      BY <1>3, <3>1, <3>2
    <3> QED BY <1>3, <3>1, <3>3, NumberedLines DEF Numbered
  <2> QED BY <1>3, <2>1
<1>4. IInv => HistoryKept
  BY <1>2, <1>3 DEF IInv, SafeInv, HistoryKept
<1> QED BY <1>4, InvAlways, PTL

\* The last success on record is what the search of the history finds.
LEMMA LastRunFound ==
  ASSUME TypeOK, LinesKept, NEW t \in Tasks, LastKept(t), OnRecord(t)
  PROVE  \E i \in DOMAIN hist : hist[i].nr = good[t] /\ LastRun(Lines, t) = hist[i].at
<1> DEFINE S == {j \in DOMAIN Lines : Lines[j].task = t}
<1>1. /\ Len(hist) \in Nat /\ DOMAIN hist = 1..Len(hist) /\ written \in Nat
      /\ MaxLines \in Nat /\ good[t] \in 1..written /\ good[t] + MaxLines > written
      /\ t \notin lost /\ Len(rest) \in Nat /\ DOMAIN Lines = 1..(Len(hist) + Len(rest))
  BY Histories, Constants, TypeParts DEF BooksOK, LastKept, OnRecord
<1>2. /\ \A i \in DOMAIN Lines : Lines[i].nr \in 1..written
      /\ \A i \in DOMAIN Lines : \/ i \in DOMAIN hist /\ Lines[i] = hist[i]
                                 \/ Lines[i].task \in lost \cup {None}
      /\ \A i \in DOMAIN hist : i \in DOMAIN Lines /\ Lines[i] = hist[i]
  BY NumberedLines DEF Numbered
<1>10. \A i, j \in 1..(Len(hist) + Len(rest)) :
          i <= j => Lines[j].nr - Lines[i].nr >= j - i
  BY <1>1, NumberedLines DEF Numbered
<1>3. \E i \in DOMAIN hist : hist[i].nr = good[t]
  <2>1. ASSUME Len(hist) >= MaxLines, \A i \in DOMAIN hist : hist[i].nr > good[t]
        PROVE  FALSE
    <3>1. MaxLines > 0 /\ 1 \in DOMAIN hist /\ Len(hist) \in DOMAIN hist /\ 1 <= Len(hist)
      BY <1>1, <2>1
    <3>2. /\ Lines[1].nr > good[t] /\ Lines[1].nr \in 1..written
          /\ Lines[Len(hist)].nr \in 1..written
      BY <1>2, <2>1, <3>1
    <3>3. 1 \in 1..(Len(hist) + Len(rest)) /\ Len(hist) \in 1..(Len(hist) + Len(rest))
      BY <1>1, <3>1
    <3>4. Lines[Len(hist)].nr - Lines[1].nr >= Len(hist) - 1
      BY <1>10, <3>1, <3>3
    <3> QED BY <1>1, <2>1, <3>1, <3>2, <3>4
  <2> QED BY <2>1 DEF LastKept
<1>4. PICK i \in DOMAIN hist : hist[i].nr = good[t]
  BY <1>3
<1>5. i \in S /\ Lines[i] = hist[i]
  BY <1>2, <1>4 DEF LastKept
<1>6. \A j \in S : j <= i
  <2>1. ASSUME NEW j \in S
        PROVE  j <= i
    <3>1. j \in DOMAIN hist /\ Lines[j] = hist[j] /\ Lines[j].nr <= good[t]
      BY <1>1, <1>2, <2>1, Constants DEF LastKept
    <3>2. i <= j => Lines[j].nr - Lines[i].nr >= j - i
      BY <1>1, <1>5, <1>10, <2>1
    <3>3. Lines[j].nr \in Nat /\ Lines[i].nr = good[t]
      BY <1>1, <1>2, <1>4, <1>5, <2>1
    <3> QED BY <1>1, <1>4, <3>1, <3>2, <3>3
  <2> QED BY <2>1
<1>7. S \subseteq Nat
  BY <1>1
<1>8. Max(S) = i
  <2>1. \A y \in S : i >= y
    BY <1>5, <1>6, <1>7
  <2>2. \A x \in S : (\A y \in S : x >= y) => x = i
    BY <1>5, <1>6, <1>7
  <2> HIDE DEF S
  <2> QED BY <1>5, <2>1, <2>2 DEF Max
<1>9. LastRun(Lines, t) = Lines[i].at
  <2>1. S # {}
    BY <1>5
  <2> QED BY <1>8, <2>1 DEF LastRun
<1> QED BY <1>4, <1>5, <1>9

\* A success on record keeps its task from being started again, by any start and
\* after any history of failures, until its interval is over or its next turn has
\* come.
THEOREM OncePerTime == Spec => OncePerPeriod
<1> DEFINE Again(p, t) == /\ pc[p] = "select" /\ pc'[p] = "execute" /\ only[p] = None
                          /\ UNCHANGED faults /\ t \in todo'[p] /\ ran[t] # Zero /\ OnRecord(t)
           InTime(t) == IF sched[t].kind = "every" THEN now - ran[t] >= sched[t].n
                        ELSE Turns(sched[t], ran[t]) < Turns(sched[t], now)
<1>1. ASSUME IInv, [Next]_vars, NEW p \in Procs, NEW t \in Tasks, Again(p, t)
      PROVE  InTime(t)
  <2>1. TypeOK /\ Stages /\ SafeInv
    BY <1>1 DEF IInv, OnRecord
  <2>2. Select(p)
    <3>1. ~Tick /\ ~UNCHANGED vars
      BY <1>1 DEF Tick, vars
    <3>2. PICK p0 \in Procs : Steps(p0)
      BY <1>1, <3>1, StepsOf DEF Steps
    <3>3. p0 = p
      BY <1>1, <2>1, <3>2, Elsewhere
    <3>4. ~LockSteps(p) /\ ~QuitSteps(p)
      BY <1>1, <2>1, QuitEffect
         DEF LockSteps, QuitSteps, Start, Lock, Unlock, Refused, Remove, Crash
    <3>5. ~TaskEnds(p) /\ ~Record(p) /\ ~RecordFails(p) /\ ~EndSteps(p)
      BY <1>1, <2>1, EndEffect DEF TaskEnds, Record, RecordFails
    <3>6. ~SelectBlindly(p)
      <4>1. faults \in Nat
        BY <2>1, TypeParts, Constants DEF RestOK
      <4> QED BY <1>1, <4>1 DEF SelectBlindly
    <3> QED BY <3>2, <3>3, <3>4, <3>5, <3>6 DEF Steps, SelectSteps
  <2>3. ShouldRun(sched[t], LastRun(Lines, t))
    <3>1. todo'[p] = Due(p, Lines)
      BY <2>1, <2>2, Domains DEF Select, SelectBy
    <3> QED BY <1>1, <3>1 DEF Due
  <2>4. Settled(t)
    <3>1. p \in AtWork
      BY <1>1 DEF AtWork
    <3>2. \A q \in Procs : pc[q] \notin {"execute", "record"}
      <4>1. ASSUME NEW q \in Procs, pc[q] \in {"execute", "record"}
            PROVE  FALSE
        <5>1. q \in AtWork
          BY <4>1 DEF AtWork
        <5>2. p = q
          BY <2>1, <3>1, <5>1, Alone DEF SafeInv
        <5> QED BY <1>1, <4>1, <5>2
      <4> QED BY <4>1
    <3>3. \A q \in Procs : results[q] = <<>>
      BY <2>1, <3>2 DEF Stages
    <3> QED BY <3>3 DEF Settled
  <2>5. LastKept(t)
    BY <1>1, <2>1, <2>4 DEF SafeInv, SuccessKept, OnRecord
  <2>6. PICK i \in DOMAIN hist : hist[i].nr = good[t] /\ LastRun(Lines, t) = hist[i].at
    BY <1>1, <2>1, <2>5, LastRunFound DEF SafeInv
  <2> DEFINE last == hist[i].at
  <2>7. /\ last \in Nat /\ last # Zero /\ ran[t] \in Nat /\ now \in Nat
        /\ ran[t] <= last /\ last <= now
    <3>1. last \in Times
      BY <2>1, Histories DEF Entry
    <3>2. ran[t] <= last /\ last <= now
      BY <2>1, <2>5, <2>6 DEF LastKept, SafeInv, InThePast
    <3> QED BY <2>1, <3>1, <3>2, TypeParts DEF Times, Zero, BooksOK, RestOK
  <2>8. ShouldRun(sched[t], last)
    BY <2>3, <2>6
  <2>9. sched[t] \in [kind : {"every"}, n : Nat \ {0}] \cup [kind : {"daily"}, at : 0..DayLen - 1]
                     \cup [kind : {"weekly"}, day : 0..WeekDays - 1, at : 0..DayLen - 1]
    BY <2>1, CronAssumption DEF Stages
  <2> HIDE DEF last
  <2>10. CASE sched[t] \in [kind : {"every"}, n : Nat \ {0}]
    <3>1. sched[t].kind = "every" /\ sched[t].n \in Nat
      BY <2>10
    <3>2. now - last >= sched[t].n
      BY <2>7, <2>8, <3>1 DEF ShouldRun
    <3>3. now - ran[t] >= sched[t].n
      BY <2>7, <3>1, <3>2
    <3> QED BY <3>1, <3>3
  <2>11. CASE sched[t] \in [kind : {"daily"}, at : 0..DayLen - 1]
                           \cup [kind : {"weekly"}, day : 0..WeekDays - 1, at : 0..DayLen - 1]
    <3>1. sched[t].kind # "every"
      BY <2>11
    <3>2. now - last > Period(sched[t]) \/ (last < Target(sched[t]) /\ now >= Target(sched[t]))
      BY <2>7, <2>8, <3>1 DEF ShouldRun
    <3>3. Target(sched[t]) \in Nat
      <4>1. now \in Nat /\ DayLen \in Nat \ {0} /\ WeekDays \in Nat \ {0} /\ now \div DayLen \in Nat
        BY <2>7, Constants, Division
      <4>2. CASE sched[t] \in [kind : {"daily"}, at : 0..DayLen - 1]
        <5>1. sched[t].kind = "daily" /\ sched[t].at \in Nat
          BY <4>1, <4>2
        <5> QED BY <4>1, <5>1 DEF Target, Midnight
      <4>3. CASE sched[t] \in [kind : {"weekly"}, day : 0..WeekDays - 1, at : 0..DayLen - 1]
        <5>1. /\ sched[t].kind = "weekly" /\ sched[t].at \in Nat
              /\ sched[t].day \in 0..(WeekDays - 1)
          BY <4>1, <4>3
        <5>2. DaysUntil(sched[t].day, now) \in Nat
          BY <4>1, <5>1, WeekDay DEF DaysUntil
        <5> QED BY <4>1, <5>1, <5>2 DEF Target, Midnight
      <4> QED BY <2>11, <4>2, <4>3
    <3>4. now - last > Period(sched[t]) \/ (last < Target(sched[t]) /\ Target(sched[t]) <= now)
      BY <2>7, <3>2, <3>3
    <3>5. Turns(sched[t], ran[t]) < Turns(sched[t], now)
      BY <2>1, <2>7, <2>11, <3>4, TurnComes
    <3> QED BY <3>1, <3>5
  <2> QED BY <2>9, <2>10, <2>11
<1>2. IInv /\ [Next]_vars =>
        [ \A p \in Procs, t \in Tasks :
            /\ pc[p] = "select" /\ pc'[p] = "execute" /\ only[p] = None
            /\ UNCHANGED faults /\ t \in todo'[p] /\ ran[t] # Zero /\ OnRecord(t)
            => IF sched[t].kind = "every" THEN now - ran[t] >= sched[t].n
               ELSE Turns(sched[t], ran[t]) < Turns(sched[t], now) ]_vars
  BY <1>1
<1> QED BY <1>2, InvAlways, PTL DEF Spec, OncePerPeriod
=============================================================================
