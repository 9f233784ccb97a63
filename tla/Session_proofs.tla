--------------------------- MODULE Session_proofs ---------------------------
(***************************************************************************)
(* Proofs about Session, for any number of processes, entries, calls,      *)
(* writes cut short and openings.                                          *)
(***************************************************************************)
EXTENDS Session, FiniteSetTheorems, SequenceTheorems, WellFoundedInduction, TLAPS

\* Who writes has the lock alone; its entry is the newest, and what it has written
\* of it is the last piece of the file.  Its parent is in its memory, as its leaf is.
WriterInv ==
    /\ \A p \in Procs : op[p] # 0 <=> p \in lock
    /\ \A p, q \in lock : p = q
    /\ \A p \in lock :
          /\ mem[p].open /\ op[p] = Len(entries)
          /\ Len(file) > 0 /\ file[Len(file)] = [e |-> op[p], part |-> "head"]
          /\ entries[op[p]].parent \in mem[p].nodes \union {0}
    /\ \A p \in Procs : mem[p].leaf \in mem[p].nodes \union {0}

\* Entries are referred to after they were begun; labels have a target.
EntriesInv ==
    /\ \A i \in DOMAIN file : file[i].e \in DOMAIN entries
    /\ \A p \in lock : \A i \in DOMAIN file : i < Len(file) => file[i].e # op[p]
    /\ acked \subseteq DOMAIN entries /\ \A p \in lock : op[p] \notin acked
    /\ \A e \in DOMAIN entries : entries[e].type = "label" => entries[e].ref # 0
    /\ \A e \in DOMAIN entries : entries[e].type = "message" => Len(entries[e].msgs) = 1
    /\ \A p \in Procs : mem[p].nodes \subseteq DOMAIN entries

\* Where a complete line begins.
Full(f) ==
    {i \in DOMAIN f : /\ i > 1 => f[i - 1].part = "tail"
                      /\ f[i].part = "head" /\ i < Len(f)
                      /\ f[i + 1] = [e |-> f[i].e, part |-> "tail"]}
Complete(f) == {f[i].e : i \in Full(f)}

\* The pieces without that of a write in progress, and whether they end inside a line.
Before == IF lock = {} THEN Len(file) ELSE Len(file) - 1
Dirty == Before > 0 /\ file[Before].part # "tail"

\* A fault pays for one entry, and for an unfinished line that has not cost one yet.
LossInv == Cardinality(acked \ Complete(file)) + (IF Dirty THEN 1 ELSE 0) <= faults

\* The targets whose last label is set.
Labelled(f) ==
    {t \in Ids : LastRead(f, Labels(t)) # 0 /\ entries[LastRead(f, Labels(t))].set}

\* A memory says what a file says, but for the title.
Remembers(m, f, title) ==
    /\ m.open = TRUE /\ m.alone = TRUE
    /\ m.nodes = Readable(f) \intersect Nodes /\ m.leaf = LastRead(f, Nodes)
    /\ m.labels = Labelled(f) /\ m.title = title

\* A process that knows the file has it in memory, and a title it is writing.
ReplayInv ==
    \A p \in Procs : mem[p].open /\ mem[p].alone =>
        /\ ~Dirty
        /\ Remembers(mem[p], file, IF op[p] # 0 /\ entries[op[p]].type = "meta"
                                   THEN op[p] ELSE LastRead(file, Metas))

\* Without faults lines are complete, and memories have the parents of their entries.
TreeInv ==
    faults = 0 =>
        /\ ~Dirty
        /\ \A e \in Readable(file) \intersect Nodes :
              entries[e].parent \in (Readable(file) \intersect Nodes) \union {0}
        /\ \A p \in Procs : mem[p].open =>
              /\ mem[p].nodes \subseteq Readable(file) \intersect Nodes
              /\ \A e \in mem[p].nodes : entries[e].parent \in mem[p].nodes \union {0}

IInv == TypeOK /\ WriterInv /\ EntriesInv /\ LossInv /\ ReplayInv /\ TreeInv

-----------------------------------------------------------------------------
(* Types.                                                                   *)

Memory == [open : BOOLEAN, nodes : SUBSET Ids, leaf : 0..MaxEntries, labels : SUBSET Ids,
           title : 0..MaxEntries, alone : BOOLEAN]

Agent == [told : Seq(Message), running : 0..MaxCalls, due : Seq(Message)]

\* What agents do between two appends leaves all but them as it is.
lines == <<entries, file, lock, mem, op, opens, acked, faults>>

LinesTyped ==
    /\ entries \in Seq(Entry) /\ Len(entries) <= MaxEntries
    /\ file \in Seq(Piece) /\ lock \subseteq Procs
    /\ mem \in [Procs -> Memory] /\ op \in [Procs -> 0..MaxEntries]
    /\ opens \in 0..MaxOpens /\ acked \subseteq Ids /\ faults \in 0..MaxFaults

AgentsTyped == agent \in [Procs -> Agent] /\ calls \in 0..MaxCalls

LEMMA TypeParts ==
  /\ TypeOK <=> LinesTyped /\ AgentsTyped
  /\ TypeOK <=> /\ entries \in Seq(Entry) /\ Len(entries) <= MaxEntries
                /\ file \in Seq(Piece) /\ lock \subseteq Procs
                /\ mem \in [Procs -> Memory] /\ op \in [Procs -> 0..MaxEntries]
                /\ agent \in [Procs -> Agent] /\ calls \in 0..MaxCalls
                /\ opens \in 0..MaxOpens /\ acked \subseteq Ids /\ faults \in 0..MaxFaults
BY DEF TypeOK, Memory, Agent, LinesTyped, AgentsTyped

LEMMA Bounds ==
  /\ MaxEntries \in Nat /\ MaxCalls \in Nat /\ MaxFaults \in Nat /\ MaxOpens \in Nat
  /\ Ids \subseteq Nat /\ 0 \notin Ids /\ Ids \subseteq 0..MaxEntries
  /\ \A e \in 0..MaxEntries : e # 0 => e \in Ids
BY SessionAssumption DEF Ids

LEMMA Lists ==
  ASSUME TypeOK
  PROVE  /\ Len(entries) \in Nat /\ DOMAIN entries = 1..Len(entries)
         /\ DOMAIN entries \subseteq Ids
         /\ \A e \in DOMAIN entries : entries[e] \in Entry
         /\ Len(file) \in Nat /\ DOMAIN file = 1..Len(file)
         /\ \A i \in DOMAIN file : file[i] \in Piece /\ file[i].e \in Ids
         /\ \A p \in Procs : mem[p] \in Memory /\ op[p] \in 0..MaxEntries
<1>1. entries \in Seq(Entry) /\ Len(entries) <= MaxEntries /\ file \in Seq(Piece)
  BY TypeParts
<1>2. /\ Len(entries) \in Nat /\ DOMAIN entries = 1..Len(entries)
      /\ \A e \in DOMAIN entries : entries[e] \in Entry
      /\ Len(file) \in Nat /\ DOMAIN file = 1..Len(file)
      /\ \A i \in DOMAIN file : file[i] \in Piece
  BY <1>1, LenProperties, ElementOfSeq
<1>3. DOMAIN entries \subseteq Ids
  BY <1>1, <1>2, Bounds DEF Ids
<1>4. \A x \in Piece : x.e \in Ids
  BY DEF Piece
<1> QED BY <1>2, <1>3, <1>4, TypeParts

LEMMA Positions ==
  ASSUME NEW n \in Nat
  PROVE  /\ \A i \in 1..n : i \in 1..(n - 1) \/ i = n
         /\ \A i \in 1..(n - 1) : i \in 1..n /\ i # n /\ i < n
         /\ \A i \in 1..(n + 1) : i \in 1..n \/ i = n + 1
         /\ \A i \in 1..n : i \in 1..(n + 1) /\ i < n + 1
         /\ \A i \in 1..(n + 1) : i < n + 1 /\ i # n => i \in Nat /\ i < n
         /\ n > 0 => n \in 1..n
OBVIOUS

\* A file, or a history of entries, with one more.
LEMMA Longer ==
  ASSUME NEW S, NEW s \in Seq(S), NEW x \in S
  PROVE  /\ Append(s, x) \in Seq(S) /\ Len(Append(s, x)) = Len(s) + 1 /\ Len(s) \in Nat
         /\ DOMAIN Append(s, x) = 1..(Len(s) + 1) /\ DOMAIN s = 1..Len(s)
         /\ \A i \in DOMAIN s : Append(s, x)[i] = s[i]
         /\ Append(s, x)[Len(s) + 1] = x
BY AppendProperties, LenProperties

LEMMA Shorter ==
  ASSUME NEW S, NEW s \in Seq(S), Len(s) > 0
  PROVE  /\ Front(s) \in Seq(S) /\ Len(Front(s)) = Len(s) - 1 /\ Len(s) \in Nat
         /\ DOMAIN Front(s) = 1..(Len(s) - 1) /\ DOMAIN s = 1..Len(s)
         /\ \A i \in 1..(Len(s) - 1) : Front(s)[i] = s[i]
<1>1. /\ Len(s) \in Nat /\ DOMAIN s = 1..Len(s) /\ \A i \in 1..Len(s) : s[i] \in S
  BY LenProperties, ElementOfSeq
<1> DEFINE n == Len(s) - 1
<1>2. n \in Nat /\ n <= Len(s) /\ \A i \in 1..n : s[i] \in S
  BY <1>1
<1>3. Front(s) = SubSeq(s, 1, n)
  BY DEF Front
<1> HIDE DEF n
<1>4. /\ SubSeq(s, 1, n) \in Seq(S)
      /\ Len(SubSeq(s, 1, n)) = IF 1 <= n THEN n - 1 + 1 ELSE 0
      /\ \A i \in 1..(n - 1 + 1) : SubSeq(s, 1, n)[i] = s[1 + i - 1]
  BY <1>1, <1>2, SubSeqProperties
<1>5. Len(SubSeq(s, 1, n)) = n /\ \A i \in 1..n : SubSeq(s, 1, n)[i] = s[i]
  BY <1>2, <1>4
<1>6. DOMAIN SubSeq(s, 1, n) = 1..n
  BY <1>4, <1>5, LenProperties
<1> QED BY <1>1, <1>3, <1>4, <1>5, <1>6 DEF n

\* The steps that begin an entry, and those of an agent alone.
BeginSteps(p) == AppendMessage(p) \/ AppendTurn(p) \/ AppendCompact(p) \/ AppendLabel(p)
                 \/ BranchTo(p) \/ SetMeta(p)
AgentSteps(p) == Adopt(p) \/ BeginTurn(p) \/ EndTurn(p) \/ EndRun(p)

LEMMA StepsOf ==
  [Next]_vars => UNCHANGED lines \/ \E p \in Procs : \/ BeginSteps(p) \/ Finish(p) \/ Fail(p)
                                                     \/ Crash(p) \/ Close(p) \/ Open(p)
<1>1. \A p : AgentSteps(p) => UNCHANGED lines
  BY DEF AgentSteps, Adopt, BeginTurn, EndTurn, EndRun, lines
<1>2. UNCHANGED vars => UNCHANGED lines
  BY DEF vars, lines
<1> QED BY <1>1, <1>2 DEF Next, BeginSteps, AgentSteps

\* The messages that entries are begun with.
LEMMA BeginMsgs ==
  ASSUME TypeOK
  PROVE  /\ Text \in Message /\ <<>> \in Seq(Message)
         /\ <<Text>> \in Seq(Message) /\ Len(<<Text>>) = 1 /\ <<Text>>[1] = Text
         /\ \A p \in Procs : /\ agent[p].told \in Seq(Message) /\ agent[p].due \in Seq(Message)
                             /\ agent[p].running \in 0..MaxCalls
         /\ \A p \in Procs : agent[p].due # <<>> =>
               /\ Head(agent[p].due) \in Message /\ Head(agent[p].due) = agent[p].due[1]
               /\ <<Head(agent[p].due)>> \in Seq(Message) /\ Len(<<Head(agent[p].due)>>) = 1
               /\ Tail(agent[p].due) \in Seq(Message)
         /\ \A p \in Procs : \A k \in 1..(Len(agent[p].told) + 1) :
               <<Text>> \o SubSeq(agent[p].told, k, Len(agent[p].told)) \in Seq(Message)
<1>1. Text \in Message
  BY Bounds DEF Text, Message
<1>2. \A p \in Procs : /\ agent[p].told \in Seq(Message) /\ agent[p].due \in Seq(Message)
                       /\ agent[p].running \in 0..MaxCalls
  BY TypeParts DEF Agent
<1>3. <<Text>> \in Seq(Message) /\ <<>> \in Seq(Message) /\ Len(<<Text>>) = 1 /\ <<Text>>[1] = Text
  BY <1>1
<1>4. ASSUME NEW p \in Procs, agent[p].due # <<>>
      PROVE  /\ Head(agent[p].due) \in Message /\ Head(agent[p].due) = agent[p].due[1]
             /\ <<Head(agent[p].due)>> \in Seq(Message) /\ Len(<<Head(agent[p].due)>>) = 1
             /\ Tail(agent[p].due) \in Seq(Message)
  <2>1. agent[p].due \in Seq(Message)
    BY <1>2
  <2>2. Head(agent[p].due) \in Message /\ Tail(agent[p].due) \in Seq(Message)
    BY <1>4, <2>1, HeadTailProperties
  <2> QED BY <2>1, <2>2
<1>5. ASSUME NEW p \in Procs, NEW k \in 1..(Len(agent[p].told) + 1)
      PROVE  <<Text>> \o SubSeq(agent[p].told, k, Len(agent[p].told)) \in Seq(Message)
  <2> DEFINE t == agent[p].told
  <2>1. t \in Seq(Message) /\ Len(t) \in Nat /\ \A i \in 1..Len(t) : t[i] \in Message
    BY <1>2, LenProperties, ElementOfSeq
  <2> HIDE DEF t
  <2>2. k \in Nat /\ k >= 1 /\ \A i \in k..Len(t) : t[i] \in Message
    BY <2>1 DEF t
  <2>3. SubSeq(t, k, Len(t)) \in Seq(Message)
    BY <2>1, <2>2, SubSeqProperties
  <2>4. <<Text>> \o SubSeq(t, k, Len(t)) \in Seq(Message)
    BY <1>3, <2>3, ConcatProperties
  <2> QED BY <2>4 DEF t
<1> QED BY <1>1, <1>2, <1>3, <1>4, <1>5

LEMMA BeginEffect ==
  ASSUME TypeOK, WriterInv, NEW p \in Procs, BeginSteps(p)
  PROVE  \E type \in Types, parent \in mem[p].nodes \union {0}, ref \in 0..MaxEntries,
            set \in BOOLEAN, msgs \in Seq(Message) :
            /\ Begin(p, type, parent, ref, set, msgs)
            /\ (type = "label" => ref # 0) /\ (type = "message" => Len(msgs) = 1)
            /\ IF type = "meta" THEN mem' = [mem EXCEPT ![p].title = Len(entries) + 1]
                                ELSE mem' = mem
<1> DEFINE Begun == \E type \in Types, parent \in mem[p].nodes \union {0},
                       ref \in 0..MaxEntries, set \in BOOLEAN, msgs \in Seq(Message) :
                       /\ Begin(p, type, parent, ref, set, msgs)
                       /\ (type = "label" => ref # 0) /\ (type = "message" => Len(msgs) = 1)
                       /\ IF type = "meta" THEN mem' = [mem EXCEPT ![p].title = Len(entries) + 1]
                                           ELSE mem' = mem
<1>1. ASSUME NEW type \in Types \ {"meta"}, NEW parent \in mem[p].nodes \union {0},
             NEW ref \in 0..MaxEntries, NEW set \in BOOLEAN, NEW msgs \in Seq(Message),
             Begin(p, type, parent, ref, set, msgs), type = "label" => ref # 0,
             type = "message" => Len(msgs) = 1, mem' = mem
      PROVE  Begun
  BY <1>1
<1>2. /\ mem[p].nodes \subseteq Ids /\ mem[p].leaf \in mem[p].nodes \union {0}
      /\ mem[p].leaf \in 0..MaxEntries /\ 0 \in 0..MaxEntries
      /\ mem[p].nodes \subseteq 0..MaxEntries /\ 0 \notin mem[p].nodes
  <2>1. mem[p].nodes \subseteq Ids /\ mem[p].leaf \in 0..MaxEntries
    BY Lists DEF Memory
  <2>2. mem[p].leaf \in mem[p].nodes \union {0}
    BY DEF WriterInv
  <2>3. 0 \in 0..MaxEntries
    BY Bounds
  <2> QED BY <2>1, <2>2, <2>3, Bounds
<1>3. {"message", "custom", "compact", "label", "branchSummary"}
        \subseteq Types \ {"meta"} /\ "meta" \in Types
  BY DEF Types
<1>4. CASE SetMeta(p)
  <2>1. Begin(p, "meta", 0, 0, TRUE, <<>>) /\ mem' = [mem EXCEPT ![p].title = op'[p]]
    BY <1>4 DEF SetMeta
  <2> DEFINE x == [type |-> "meta", parent |-> 0, ref |-> 0, set |-> TRUE, msgs |-> <<>>]
  <2>2. entries' = Append(entries, x) /\ op' = [op EXCEPT ![p] = Len(entries')]
    BY <2>1 DEF Begin
  <2>3. x \in Entry
    BY <1>2, <1>3, BeginMsgs DEF Entry
  <2> HIDE DEF x
  <2>4. Len(entries') = Len(entries) + 1
    BY <2>2, <2>3, TypeParts, Longer
  <2>5. op'[p] = Len(entries) + 1
    <3>1. op \in [Procs -> 0..MaxEntries]
      BY TypeParts
    <3> QED BY <2>2, <2>4, <3>1
  <2>6. mem' = [mem EXCEPT ![p].title = Len(entries) + 1]
    BY <2>1, <2>5
  <2> QED BY <1>2, <1>3, <2>1, <2>6, BeginMsgs
<1> HIDE DEF Begun
<1>5. CASE AppendMessage(p)
  <2>1. mem' = mem /\ \/ Begin(p, "message", mem[p].leaf, 0, TRUE, <<Text>>)
                      \/ Begin(p, "custom", mem[p].leaf, 0, TRUE, <<>>)
    BY <1>5 DEF AppendMessage
  <2> QED BY <1>1, <1>2, <1>3, <2>1, BeginMsgs
<1>6. CASE AppendTurn(p)
  <2>1. /\ mem' = mem /\ agent[p].due # <<>>
        /\ Begin(p, "message", mem[p].leaf, 0, TRUE, <<Head(agent[p].due)>>)
    BY <1>6 DEF AppendTurn
  <2>2. <<Head(agent[p].due)>> \in Seq(Message) /\ Len(<<Head(agent[p].due)>>) = 1
    BY <2>1, BeginMsgs
  <2> QED BY <1>1, <1>2, <1>3, <2>1, <2>2
<1>7. CASE AppendCompact(p)
  <2>1. mem' = mem /\ \E k \in 1..(Len(agent[p].told) + 1) :
           Begin(p, "compact", mem[p].leaf, 0, TRUE,
                 <<Text>> \o SubSeq(agent[p].told, k, Len(agent[p].told)))
    BY <1>7 DEF AppendCompact
  <2>2. PICK held \in Seq(Message) : Begin(p, "compact", mem[p].leaf, 0, TRUE, held)
    BY <2>1, BeginMsgs
  <2> QED BY <1>1, <1>2, <1>3, <2>1, <2>2
<1>8. CASE AppendLabel(p)
  <2>1. mem' = mem /\ \E t \in mem[p].nodes, set \in BOOLEAN :
                         Begin(p, "label", mem[p].leaf, t, set, <<>>)
    BY <1>8 DEF AppendLabel
  <2>2. PICK t \in mem[p].nodes, set \in BOOLEAN : Begin(p, "label", mem[p].leaf, t, set, <<>>)
    BY <2>1
  <2>3. /\ t \in 0..MaxEntries /\ t # 0 /\ <<>> \in Seq(Message)
        /\ "label" \in Types \ {"meta"} /\ mem' = mem
    BY <1>2, <1>3, <2>1, BeginMsgs
  <2> HIDE DEF Begun
  <2>4. "label" # "message" /\ mem[p].leaf \in mem[p].nodes \union {0}
    BY <1>2
  <2>5. Begun
    BY <1>1, <2>2, <2>3, <2>4
  <2> QED BY <2>5 DEF Begun
<1>9. CASE BranchTo(p)
  <2>1. mem' = mem /\ \E t \in mem[p].nodes \union {0} :
                         Begin(p, "branchSummary", t, mem[p].leaf, TRUE, <<>>)
    BY <1>9 DEF BranchTo
  <2> QED BY <1>1, <1>2, <1>3, <2>1, BeginMsgs
<1>10. Begun
  BY <1>4, <1>5, <1>6, <1>7, <1>8, <1>9 DEF BeginSteps, Begun
<1> QED BY <1>10 DEF Begun

\* What beginning an entry does to the lists.
LEMMA BeginLists ==
  ASSUME TypeOK, NEW p \in Procs, NEW type \in Types, NEW parent \in 0..MaxEntries,
         NEW ref \in 0..MaxEntries, NEW set \in BOOLEAN, NEW msgs \in Seq(Message),
         Begin(p, type, parent, ref, set, msgs)
  PROVE  /\ Len(entries) + 1 \in Ids
         /\ op' = [op EXCEPT ![p] = Len(entries) + 1]
         /\ [e |-> Len(entries) + 1, part |-> "head"] \in Piece
         /\ file' = Append(file, [e |-> Len(entries) + 1, part |-> "head"])
         /\ lock = {} /\ lock' = {p} /\ mem[p].open /\ op[p] = 0
         /\ UNCHANGED <<opens, acked, faults>>
<1> DEFINE n == Len(entries) + 1
           x == [type |-> type, parent |-> parent, ref |-> ref, set |-> set, msgs |-> msgs]
<1>1. n \in Ids
  BY Lists, Bounds DEF Begin, Ids
<1>2. x \in Entry /\ [e |-> n, part |-> "head"] \in Piece
  BY <1>1 DEF Entry, Piece
<1>3. entries' = Append(entries, x) /\ entries \in Seq(Entry)
  BY TypeParts DEF Begin
<1> HIDE DEF x
<1>4. Len(entries') = n
  BY <1>2, <1>3, Longer
<1>5. /\ op' = [op EXCEPT ![p] = Len(entries')]
      /\ file' = Append(file, [e |-> Len(entries'), part |-> "head"])
      /\ lock = {} /\ lock' = {p} /\ mem[p].open /\ op[p] = 0
      /\ UNCHANGED <<opens, acked, faults>>
  BY DEF Begin
<1> QED BY <1>1, <1>2, <1>4, <1>5

\* What a write that is cut short leaves is a file.
LEMMA CutTyped ==
  ASSUME TypeOK, Len(file) > 0, CutShort
  PROVE  file' \in Seq(Piece)
<1>1. file \in Seq(Piece)
  BY TypeParts
<1>2. CASE file' = Front(file)
  BY <1>1, <1>2, Shorter
<1>3. CASE file' = [file EXCEPT ![Len(file)].part = "most"]
  <2>1. Len(file) \in Nat /\ Len(file) \in DOMAIN file /\ file[Len(file)] \in Piece
    BY Lists
  <2>2. [file[Len(file)] EXCEPT !.part = "most"] \in Piece
    BY <2>1 DEF Piece
  <2>3. file' = [file EXCEPT ![Len(file)] = [file[Len(file)] EXCEPT !.part = "most"]]
    BY <1>3
  <2> QED BY <1>1, <2>1, <2>2, <2>3, ExceptSeq
<1> QED BY <1>1, <1>2, <1>3 DEF CutShort

\* A set of numbers has a least one, and a greatest one if it is bounded.
LessThan == {ss \in Nat \X Nat : ss[1] < ss[2]}

LEMMA LessThanWellFounded == IsWellFoundedOn(LessThan, Nat)
BY NatLessThanWellFounded DEF OpToRel, LessThan

LEMMA LessThanPairs == \A a, b \in Nat : a < b => <<a, b>> \in LessThan
BY DEF LessThan

LEMMA HasLeast ==
  ASSUME NEW S \in SUBSET Nat, S # {}
  PROVE  \E m \in S : \A y \in S : m <= y
<1>1. PICK m \in S : \A y \in S : ~(<<y, m>> \in LessThan)
  BY LessThanWellFounded, WFMin
<1>2. ASSUME NEW y \in S
      PROVE  m <= y
  <2>1. m \in Nat /\ y \in Nat
    OBVIOUS
  <2>2. ~(y < m)
    BY <1>1, <2>1, LessThanPairs
  <2> QED BY <2>1, <2>2
<1> QED BY <1>2

LEMMA HasGreatest ==
  ASSUME NEW S \in SUBSET Nat, S # {}, NEW n \in Nat, \A y \in S : y <= n
  PROVE  Max(S) \in S /\ \A y \in S : y <= Max(S)
<1> DEFINE T == {k \in Nat : n - k \in S}
<1>1. T \in SUBSET Nat
  OBVIOUS
<1>2. T # {}
  <2>1. PICK y \in S : y <= n
    OBVIOUS
  <2>2. n - y \in Nat /\ n - (n - y) = y
    BY <2>1
  <2> QED BY <2>2
<1> HIDE DEF T
<1>3. PICK t \in T : \A y \in T : t <= y
  BY <1>1, <1>2, HasLeast
<1>4. t \in Nat /\ n - t \in S
  BY <1>3 DEF T
<1>5. ASSUME NEW y \in S
      PROVE  n - t >= y
  <2>1. y \in Nat /\ n - y \in Nat /\ n - (n - y) = y
    OBVIOUS
  <2>2. n - y \in T
    BY <2>1 DEF T
  <2> QED BY <1>3, <1>4, <2>1, <2>2
<1>6. \E x \in S : \A y \in S : x >= y
  BY <1>4, <1>5
<1>7. Max(S) \in S /\ \A y \in S : Max(S) >= y
  BY <1>6 DEF Max
<1>8. \A y \in S : y <= Max(S)
  BY <1>7
<1> QED BY <1>7, <1>8

\* The entry that is read last is one of those that are read.
LEMMA LastReadIs ==
  ASSUME TypeOK, NEW es
  PROVE  \/ LastRead(file, es) = 0 /\ \A i \in Starts(file) : file[i].e \notin es
         \/ \E i \in Starts(file) :
              /\ LastRead(file, es) = file[i].e /\ file[i].e \in es
              /\ \A j \in Starts(file) : file[j].e \in es => j <= i
<1> DEFINE at == {i \in Starts(file) : file[i].e \in es}
<1>1. at \in SUBSET Nat /\ \A i \in at : i <= Len(file)
  BY Lists DEF Starts
<1>2. CASE at = {}
  BY <1>2 DEF LastRead
<1>3. CASE at # {}
  <2>1. LastRead(file, es) = file[Max(at)].e
    BY <1>3 DEF LastRead
  <2> HIDE DEF at
  <2>2. Max(at) \in at /\ \A i \in at : i <= Max(at)
    BY <1>1, <1>3, Lists, HasGreatest
  <2> QED BY <2>1, <2>2 DEF at
<1> QED BY <1>2, <1>3

LEMMA ReadableTyped ==
  ASSUME TypeOK
  PROVE  /\ Readable(file) \subseteq Ids
         /\ \A i \in Starts(file) : i \in DOMAIN file /\ file[i].e \in Readable(file)
<1>1. \A i \in Starts(file) : i \in DOMAIN file
  BY DEF Starts
<1> QED BY <1>1, Lists DEF Readable

LEMMA ReplayTyped ==
  ASSUME TypeOK
  PROVE  /\ Replay(file) \in Memory
         /\ Replay(file).leaf \in Replay(file).nodes \union {0}
<1>1. \A es : LastRead(file, es) = 0 \/ LastRead(file, es) \in Readable(file) \intersect es
  BY LastReadIs, ReadableTyped
<1>2. \A es : LastRead(file, es) \in 0..MaxEntries
  <2> SUFFICES ASSUME NEW es
               PROVE  LastRead(file, es) \in 0..MaxEntries
    OBVIOUS
  <2>1. LastRead(file, es) = 0 \/ LastRead(file, es) \in Readable(file)
    BY <1>1
  <2>2. Readable(file) \subseteq 0..MaxEntries /\ 0 \in 0..MaxEntries
    BY ReadableTyped, SessionAssumption DEF Ids
  <2> QED BY <2>1, <2>2
<1>3. Readable(file) \intersect Nodes \in SUBSET Ids
  BY ReadableTyped
<1>4. LastRead(file, Nodes) \in (Readable(file) \intersect Nodes) \union {0}
  BY <1>1
<1> DEFINE labels == {t \in Ids : LET l == LastRead(file, Labels(t)) IN l # 0 /\ entries[l].set}
<1>5. labels \in SUBSET Ids
  OBVIOUS
<1>6. Replay(file) = [open |-> TRUE, nodes |-> Readable(file) \intersect Nodes,
                      leaf |-> LastRead(file, Nodes), labels |-> labels,
                      title |-> LastRead(file, Metas), alone |-> TRUE]
  BY DEF Replay
<1> HIDE DEF labels
<1> QED BY <1>2, <1>3, <1>4, <1>5, <1>6 DEF Memory

LEMMA WithTyped ==
  ASSUME TypeOK, EntriesInv, NEW p \in Procs, NEW e \in DOMAIN entries
  PROVE  /\ With(mem[p], e) \in Memory
         /\ mem[p].leaf \in mem[p].nodes \union {0} =>
              With(mem[p], e).leaf \in With(mem[p], e).nodes \union {0}
<1>1. /\ mem[p] \in Memory /\ e \in Ids /\ e \in 0..MaxEntries /\ entries[e] \in Entry
      /\ entries[e].type = "label" => entries[e].ref \in Ids
  <2>1. mem[p] \in Memory /\ e \in Ids /\ entries[e] \in Entry
    BY Lists
  <2>2. entries[e].ref \in 0..MaxEntries
    BY <2>1 DEF Entry
  <2> QED BY <2>1, <2>2, Bounds DEF EntriesInv
<1>2. CASE entries[e].type = "meta"
  BY <1>1, <1>2 DEF With
<1>3. CASE entries[e].type # "meta"
  <2> DEFINE labels == IF entries[e].type # "label" THEN mem[p].labels
                       ELSE IF entries[e].set THEN mem[p].labels \union {entries[e].ref}
                                              ELSE mem[p].labels \ {entries[e].ref}
  <2>1. labels \in SUBSET Ids
    BY <1>1 DEF Memory
  <2>2. With(mem[p], e) = [mem[p] EXCEPT !.nodes = mem[p].nodes \union {e}, !.leaf = e,
                                         !.labels = labels]
    BY <1>3 DEF With
  <2> HIDE DEF labels
  <2>3. mem[p].nodes \union {e} \in SUBSET Ids
    BY <1>1 DEF Memory
  <2>4. With(mem[p], e) \in Memory
    BY <1>1, <2>1, <2>2, <2>3 DEF Memory
  <2>5. With(mem[p], e).leaf = e /\ e \in With(mem[p], e).nodes
    BY <1>1, <2>2 DEF Memory
  <2> QED BY <2>4, <2>5
<1> QED BY <1>2, <1>3

\* The other steps, with what the lock tells of the process that writes.
LEMMA Writing ==
  ASSUME TypeOK, WriterInv, EntriesInv, NEW p \in Procs, op[p] # 0
  PROVE  /\ lock = {p} /\ lock \ {p} = {} /\ mem[p].open
         /\ op[p] = Len(entries) /\ op[p] \in DOMAIN entries /\ op[p] \notin acked
         /\ Len(file) \in Nat /\ Len(file) > 0 /\ file[Len(file)] = [e |-> op[p], part |-> "head"]
         /\ [e |-> op[p], part |-> "tail"] \in Piece
         /\ \A i \in DOMAIN file : i < Len(file) => file[i].e # op[p]
<1>1. lock = {p} /\ lock \ {p} = {}
  BY DEF WriterInv
<1>2. op[p] = Len(entries) /\ op[p] \in DOMAIN entries /\ op[p] \in Ids
  BY <1>1, Lists, Bounds DEF WriterInv, Ids
<1>3. [e |-> op[p], part |-> "tail"] \in Piece
  BY <1>2 DEF Piece
<1> QED BY <1>1, <1>2, <1>3, Lists DEF WriterInv, EntriesInv

Forgotten(m) == [m EXCEPT !.alone = FALSE]

LEMMA ForgottenTyped ==
  ASSUME NEW m \in Memory
  PROVE  /\ Forgotten(m) \in Memory /\ Closed \in Memory
         /\ Forgotten(m).open = m.open /\ Forgotten(m).nodes = m.nodes
         /\ Forgotten(m).leaf = m.leaf /\ Forgotten(m).alone = FALSE
         /\ Closed.open = FALSE /\ Closed.leaf = 0
<1>1. /\ Forgotten(m) \in Memory /\ Forgotten(m).open = m.open
      /\ Forgotten(m).nodes = m.nodes /\ Forgotten(m).leaf = m.leaf
      /\ Forgotten(m).alone = FALSE
  BY DEF Forgotten, Memory
<1>2. 0 \in 0..MaxEntries
  BY Bounds
<1>3. Closed \in Memory /\ Closed.open = FALSE /\ Closed.leaf = 0
  BY <1>2 DEF Memory, Closed
<1> QED BY <1>1, <1>3

LEMMA FinishEffect ==
  ASSUME TypeOK, WriterInv, EntriesInv, NEW p \in Procs, Finish(p)
  PROVE  /\ op[p] # 0 /\ lock' = {} /\ op' = [op EXCEPT ![p] = 0]
         /\ file' = Append(file, [e |-> op[p], part |-> "tail"])
         /\ acked' = acked \union {op[p]}
         /\ mem' = [q \in Procs |-> IF q = p THEN With(mem[p], op[p]) ELSE Forgotten(mem[q])]
         /\ UNCHANGED <<entries, opens, faults>>
BY Writing DEF Finish, Disturbed, Forgotten

LEMMA CutEffect ==
  ASSUME TypeOK, WriterInv, EntriesInv, NEW p \in Procs, Fail(p) \/ Crash(p)
  PROVE  /\ op[p] # 0 /\ lock' = {} /\ op' = [op EXCEPT ![p] = 0]
         /\ CutShort /\ faults' = faults + 1 /\ faults < MaxFaults
         /\ \E gone \in BOOLEAN :
               mem' = [q \in Procs |-> IF gone /\ q = p THEN Closed ELSE Forgotten(mem[q])]
         /\ UNCHANGED <<entries, opens, acked>>
<1>1. CASE Fail(p)
  <2>1. mem' = [q \in Procs |-> IF FALSE /\ q = p THEN Closed ELSE Forgotten(mem[q])]
    BY <1>1 DEF Fail, Disturbed, Forgotten
  <2> QED BY <1>1, <2>1, Writing DEF Fail
<1>2. CASE Crash(p)
  <2>1. mem' = [q \in Procs |-> IF TRUE /\ q = p THEN Closed ELSE Forgotten(mem[q])]
    BY <1>2 DEF Crash, Disturbed, Forgotten
  <2> QED BY <1>2, <2>1, Writing DEF Crash
<1> QED BY <1>1, <1>2

\* What begins, as a whole.
LEMMA BeginMemory ==
  ASSUME TypeOK, WriterInv, NEW p \in Procs, BeginSteps(p)
  PROVE  \E x \in Entry :
           LET n == Len(entries) + 1
           IN  /\ n \in Ids /\ entries' = Append(entries, x)
               /\ x.parent \in mem[p].nodes \union {0} /\ (x.type = "label" => x.ref # 0)
               /\ (x.type = "message" => Len(x.msgs) = 1)
               /\ op' = [op EXCEPT ![p] = n] /\ [e |-> n, part |-> "head"] \in Piece
               /\ file' = Append(file, [e |-> n, part |-> "head"])
               /\ lock = {} /\ lock' = {p} /\ mem[p].open /\ op[p] = 0
               /\ mem' = [q \in Procs |-> IF x.type = "meta" /\ q = p
                                          THEN [mem[q] EXCEPT !.title = n] ELSE mem[q]]
               /\ UNCHANGED <<opens, acked, faults>>
<1>1. PICK type \in Types, parent \in mem[p].nodes \union {0}, ref \in 0..MaxEntries,
           set \in BOOLEAN, msgs \in Seq(Message) :
        /\ Begin(p, type, parent, ref, set, msgs)
        /\ (type = "label" => ref # 0) /\ (type = "message" => Len(msgs) = 1)
        /\ IF type = "meta" THEN mem' = [mem EXCEPT ![p].title = Len(entries) + 1]
                            ELSE mem' = mem
  BY BeginEffect
<1> DEFINE x == [type |-> type, parent |-> parent, ref |-> ref, set |-> set, msgs |-> msgs]
           n == Len(entries) + 1
<1>2. parent \in 0..MaxEntries
  <2>1. mem[p].nodes \subseteq Ids
    BY Lists DEF Memory
  <2>2. 0 \in 0..MaxEntries
    BY Bounds
  <2> QED BY <2>1, <2>2, Bounds
<1>3. /\ x \in Entry /\ x.parent = parent /\ x.type = type /\ x.ref = ref
      /\ x.msgs = msgs
  BY <1>2 DEF Entry
<1>4. entries' = Append(entries, x)
  BY <1>1 DEF Begin
<1>5. /\ n \in Ids /\ op' = [op EXCEPT ![p] = n] /\ [e |-> n, part |-> "head"] \in Piece
      /\ file' = Append(file, [e |-> n, part |-> "head"])
      /\ lock = {} /\ lock' = {p} /\ mem[p].open /\ op[p] = 0
      /\ UNCHANGED <<opens, acked, faults>>
  <2>1. Begin(p, type, parent, ref, set, msgs)
    BY <1>1
  <2> QED BY <1>2, <2>1, BeginLists
<1>6. mem' = [q \in Procs |-> IF type = "meta" /\ q = p
                              THEN [mem[q] EXCEPT !.title = n] ELSE mem[q]]
  <2>1. mem = [q \in Procs |-> mem[q]]
    BY TypeParts
  <2>2. CASE type = "meta"
    BY <1>1, <2>1, <2>2
  <2>3. CASE type # "meta"
    BY <1>1, <2>1, <2>3
  <2> QED BY <2>2, <2>3
<1> HIDE DEF x, n
<1>7. mem' = [q \in Procs |-> IF x.type = "meta" /\ q = p
                              THEN [mem[q] EXCEPT !.title = n] ELSE mem[q]]
  BY <1>3, <1>6
<1>8. /\ x.parent \in mem[p].nodes \union {0} /\ (x.type = "label" => x.ref # 0)
      /\ (x.type = "message" => Len(x.msgs) = 1)
  BY <1>1, <1>3
<1> QED BY <1>3, <1>4, <1>5, <1>7, <1>8 DEF n

LEMMA LinesTypeKept ==
  ASSUME TypeOK, WriterInv, EntriesInv, [Next]_vars
  PROVE  LinesTyped'
<1> DEFINE TypeParts2 == /\ entries' \in Seq(Entry) /\ Len(entries') <= MaxEntries
                         /\ file' \in Seq(Piece) /\ lock' \subseteq Procs
                         /\ mem' \in [Procs -> Memory] /\ op' \in [Procs -> 0..MaxEntries]
                         /\ opens' \in 0..MaxOpens /\ acked' \subseteq Ids
                         /\ faults' \in 0..MaxFaults
<1>1. TypeParts2 => LinesTyped'
  BY DEF LinesTyped
<1>2. /\ entries \in Seq(Entry) /\ Len(entries) <= MaxEntries /\ Len(entries) \in Nat
      /\ file \in Seq(Piece) /\ lock \subseteq Procs
      /\ mem \in [Procs -> Memory] /\ op \in [Procs -> 0..MaxEntries]
      /\ opens \in 0..MaxOpens /\ acked \subseteq Ids /\ faults \in 0..MaxFaults
      /\ 0 \in 0..MaxEntries
  BY TypeParts, Lists, Bounds
<1> HIDE DEF TypeParts2
<1>3. CASE UNCHANGED lines
  BY <1>1, <1>2, <1>3 DEF lines, TypeParts2
<1>4. ASSUME NEW p \in Procs, BeginSteps(p)
      PROVE  TypeParts2
  <2> DEFINE n == Len(entries) + 1
  <2>1. PICK x \in Entry :
           /\ n \in Ids /\ entries' = Append(entries, x)
           /\ op' = [op EXCEPT ![p] = n] /\ [e |-> n, part |-> "head"] \in Piece
           /\ file' = Append(file, [e |-> n, part |-> "head"]) /\ lock' = {p}
           /\ mem' = [q \in Procs |-> IF x.type = "meta" /\ q = p
                                      THEN [mem[q] EXCEPT !.title = n] ELSE mem[q]]
           /\ UNCHANGED <<opens, acked, faults>>
    BY <1>4, BeginMemory
  <2>2. entries' \in Seq(Entry) /\ Len(entries') = n /\ file' \in Seq(Piece)
    BY <1>2, <2>1, Longer
  <2>3. n \in 0..MaxEntries /\ n <= MaxEntries
    BY <2>1, Bounds DEF Ids
  <2> HIDE DEF n
  <2>4. mem' \in [Procs -> Memory]
    BY <1>2, <2>1, <2>3 DEF Memory
  <2>5. op' \in [Procs -> 0..MaxEntries]
    BY <1>2, <2>1, <2>3
  <2> QED BY <1>2, <2>1, <2>2, <2>3, <2>4, <2>5 DEF TypeParts2
<1>5. ASSUME NEW p \in Procs, Finish(p)
      PROVE  TypeParts2
  <2>1. /\ op[p] \in DOMAIN entries /\ op[p] \in Ids /\ [e |-> op[p], part |-> "tail"] \in Piece
    BY <1>5, FinishEffect, Writing, Lists
  <2>2. file' \in Seq(Piece)
    <3>1. file' = Append(file, [e |-> op[p], part |-> "tail"])
      BY <1>5, FinishEffect
    <3> QED BY <1>2, <2>1, <3>1, Longer
  <2>3. mem' \in [Procs -> Memory]
    <3>1. \A q \in Procs : Forgotten(mem[q]) \in Memory
      BY <1>2, ForgottenTyped
    <3>2. With(mem[p], op[p]) \in Memory
      BY <2>1, WithTyped
    <3> QED BY <1>5, <3>1, <3>2, FinishEffect
  <2>4. op' \in [Procs -> 0..MaxEntries]
    BY <1>2, <1>5, FinishEffect, Bounds
  <2> QED BY <1>2, <1>5, <2>1, <2>2, <2>3, <2>4, FinishEffect DEF TypeParts2
<1>6. ASSUME NEW p \in Procs, Fail(p) \/ Crash(p)
      PROVE  TypeParts2
  <2>1. file' \in Seq(Piece)
    BY <1>6, CutEffect, Writing, CutTyped
  <2>2. mem' \in [Procs -> Memory]
    <3>1. \A q \in Procs : Forgotten(mem[q]) \in Memory /\ Closed \in Memory
      BY <1>2, ForgottenTyped
    <3> QED BY <1>6, <3>1, CutEffect
  <2>3. op' \in [Procs -> 0..MaxEntries]
    BY <1>2, <1>6, CutEffect, Bounds
  <2>4. faults' \in 0..MaxFaults
    BY <1>2, <1>6, CutEffect, Bounds
  <2> QED BY <1>2, <1>6, <2>1, <2>2, <2>3, <2>4, CutEffect DEF TypeParts2
<1>7. ASSUME NEW p \in Procs, Close(p)
      PROVE  TypeParts2
  <2>1. mem' \in [Procs -> Memory]
    BY <1>2, <1>7, ForgottenTyped DEF Close
  <2> QED BY <1>2, <1>7, <2>1 DEF Close, TypeParts2
<1>8. ASSUME NEW p \in Procs, Open(p)
      PROVE  TypeParts2
  <2>1. Ended \in BOOLEAN
    BY DEF Ended
  <2>2. [Replay(file) EXCEPT !.alone = Ended] \in Memory
    BY <2>1, ReplayTyped DEF Memory
  <2>3. mem' \in [Procs -> Memory]
    BY <1>2, <1>8, <2>2 DEF Open
  <2>4. opens' \in 0..MaxOpens
    BY <1>2, <1>8, Bounds DEF Open
  <2> QED BY <1>2, <1>8, <2>3, <2>4 DEF Open, TypeParts2
<1> QED BY <1>1, <1>3, <1>4, <1>5, <1>6, <1>7, <1>8, StepsOf

-----------------------------------------------------------------------------
(* The lock and the numbers of the entries.                                 *)

\* The outcomes of a write that is cut short, piece by piece.
LEMMA CutPieces ==
  ASSUME TypeOK, Len(file) > 0, file[Len(file)].part = "head", CutShort
  PROVE  /\ Len(file) \in Nat
         /\ \/ /\ Len(file') = Len(file) - 1 /\ DOMAIN file' = 1..(Len(file) - 1)
               /\ \A i \in DOMAIN file' : file'[i] = file[i]
            \/ file' = file
            \/ /\ Len(file') = Len(file) /\ DOMAIN file' = 1..Len(file)
               /\ \A i \in 1..(Len(file) - 1) : file'[i] = file[i]
               /\ file'[Len(file)] = [e |-> file[Len(file)].e, part |-> "most"]
<1>1. /\ Len(file) \in Nat /\ Len(file) \in DOMAIN file /\ file \in Seq(Piece)
      /\ DOMAIN file = 1..Len(file) /\ file[Len(file)] \in Piece
  BY Lists, TypeParts
<1>2. CASE file' = Front(file)
  BY <1>1, <1>2, Shorter
<1>3. CASE file' = [file EXCEPT ![Len(file)].part = "most"]
  <2> DEFINE x == [file[Len(file)] EXCEPT !.part = "most"]
  <2>1. file' = [file EXCEPT ![Len(file)] = x]
    BY <1>3
  <2>2. x = [e |-> file[Len(file)].e, part |-> "most"] /\ x \in Piece
    BY <1>1 DEF Piece
  <2> HIDE DEF x
  <2>3. /\ Len(file') = Len(file) /\ file' \in Seq(Piece)
        /\ \A j \in 1..Len(file) : file'[j] = IF j = Len(file) THEN x ELSE file[j]
    BY <1>1, <2>1, <2>2, ExceptSeq
  <2>4. DOMAIN file' = 1..Len(file)
    BY <2>3, LenProperties
  <2>5. file'[Len(file)] = x /\ \A i \in 1..(Len(file) - 1) : file'[i] = file[i]
    <3>1. Len(file) \in 1..Len(file) /\ \A i \in 1..(Len(file) - 1) : i \in 1..Len(file) /\ i # Len(file)
      BY <1>1, Positions
    <3> QED BY <2>3, <3>1
  <2> QED BY <1>1, <2>2, <2>3, <2>4, <2>5
<1> QED BY <1>1, <1>2, <1>3 DEF CutShort

LEMMA WriterKept ==
  ASSUME TypeOK, WriterInv, EntriesInv, [Next]_vars
  PROVE  WriterInv'
<1>1. /\ \A p \in Procs : mem[p] \in Memory /\ op[p] \in 0..MaxEntries
      /\ op \in [Procs -> 0..MaxEntries] /\ mem \in [Procs -> Memory] /\ lock \subseteq Procs
      /\ entries \in Seq(Entry) /\ file \in Seq(Piece) /\ Len(entries) \in Nat
      /\ Len(file) \in Nat /\ 0 \notin Ids
  BY Lists, TypeParts, Bounds
<1>2. CASE UNCHANGED lines
  BY <1>2 DEF WriterInv, lines
<1>3. ASSUME NEW p \in Procs, BeginSteps(p)
      PROVE  WriterInv'
  <2> DEFINE n == Len(entries) + 1
             h == [e |-> n, part |-> "head"]
  <2>1. PICK x \in Entry :
           /\ n \in Ids /\ entries' = Append(entries, x)
           /\ x.parent \in mem[p].nodes \union {0}
           /\ op' = [op EXCEPT ![p] = n] /\ h \in Piece /\ file' = Append(file, h)
           /\ lock = {} /\ lock' = {p} /\ mem[p].open
           /\ mem' = [q \in Procs |-> IF x.type = "meta" /\ q = p
                                      THEN [mem[q] EXCEPT !.title = n] ELSE mem[q]]
    BY <1>3, BeginMemory
  <2>2. /\ Len(entries') = n /\ entries'[n] = x
        /\ Len(file') = Len(file) + 1 /\ file'[Len(file) + 1] = h
    BY <1>1, <2>1, Longer
  <2>3. \A q \in Procs : /\ mem'[q].open = mem[q].open /\ mem'[q].nodes = mem[q].nodes
                         /\ mem'[q].leaf = mem[q].leaf
    BY <1>1, <2>1 DEF Memory
  <2>4. op'[p] = n /\ n # 0 /\ \A q \in Procs \ {p} : op'[q] = 0
    BY <1>1, <2>1 DEF WriterInv
  <2>5. file'[Len(file')] = [e |-> op'[p], part |-> "head"] /\ Len(file') > 0
    BY <1>1, <2>2, <2>4
  <2>6. entries'[op'[p]].parent \in mem'[p].nodes \union {0}
    BY <2>1, <2>2, <2>3, <2>4
  <2> HIDE DEF n, h
  <2>7. \A q \in Procs : op'[q] # 0 <=> q \in lock'
    BY <2>1, <2>4
  <2> QED BY <2>1, <2>2, <2>3, <2>4, <2>5, <2>6, <2>7 DEF WriterInv
<1>4. ASSUME NEW p \in Procs, Finish(p) \/ Fail(p) \/ Crash(p)
      PROVE  WriterInv'
  <2>1. op[p] # 0 /\ lock' = {} /\ op' = [op EXCEPT ![p] = 0]
    BY <1>4, FinishEffect, CutEffect
  <2>2. \A q \in Procs : op'[q] = 0
    BY <1>1, <2>1, Writing DEF WriterInv
  <2>3. \A q \in Procs : mem'[q].leaf \in mem'[q].nodes \union {0}
    <3>1. \A q \in Procs : /\ Forgotten(mem[q]).leaf \in Forgotten(mem[q]).nodes \union {0}
                           /\ Closed.leaf \in Closed.nodes \union {0}
      BY <1>1, ForgottenTyped DEF WriterInv
    <3>2. CASE Finish(p)
      <4>1. With(mem[p], op[p]).leaf \in With(mem[p], op[p]).nodes \union {0}
        <5>1. op[p] \in DOMAIN entries /\ mem[p].leaf \in mem[p].nodes \union {0}
          BY <2>1, Writing DEF WriterInv
        <5> QED BY <5>1, WithTyped
      <4>2. \A q \in Procs : mem'[q] = IF q = p THEN With(mem[p], op[p]) ELSE Forgotten(mem[q])
        BY <3>2, FinishEffect
      <4> QED BY <3>1, <4>1, <4>2
    <3>3. CASE Fail(p) \/ Crash(p)
      BY <3>1, <3>3, CutEffect
    <3> QED BY <1>4, <3>2, <3>3
  <2> QED BY <2>1, <2>2, <2>3 DEF WriterInv
<1>5. ASSUME NEW p \in Procs, Close(p) \/ Open(p)
      PROVE  WriterInv'
  <2>1. /\ UNCHANGED <<entries, file, lock, op>> /\ p \notin lock
        /\ \A q \in Procs \ {p} : mem'[q] = mem[q]
    BY <1>1, <1>5 DEF Close, Open, WriterInv
  <2>2. mem'[p].leaf \in mem'[p].nodes \union {0}
    <3>1. CASE Close(p)
      BY <1>1, <3>1 DEF Close, Closed
    <3>2. CASE Open(p)
      <4>1. mem'[p] = [Replay(file) EXCEPT !.alone = Ended]
        BY <1>1, <3>2 DEF Open
      <4>2. mem'[p].leaf = Replay(file).leaf /\ mem'[p].nodes = Replay(file).nodes
        BY <4>1, ReplayTyped DEF Memory
      <4> QED BY <4>2, ReplayTyped
    <3> QED BY <1>5, <3>1, <3>2
  <2> QED BY <1>1, <2>1, <2>2 DEF WriterInv
<1> QED BY <1>2, <1>3, <1>4, <1>5, StepsOf

LEMMA EntriesKept ==
  ASSUME TypeOK, WriterInv, EntriesInv, [Next]_vars
  PROVE  EntriesInv'
<1>1. /\ entries \in Seq(Entry) /\ file \in Seq(Piece) /\ Len(entries) \in Nat
      /\ Len(file) \in Nat /\ DOMAIN file = 1..Len(file) /\ DOMAIN entries = 1..Len(entries)
      /\ op \in [Procs -> 0..MaxEntries]
      /\ \A q \in Procs : mem[q] \in Memory /\ Closed.nodes = {}
  BY Lists, TypeParts DEF Closed
<1>2. CASE UNCHANGED lines
  BY <1>2 DEF EntriesInv, lines
<1>3. ASSUME NEW p \in Procs, BeginSteps(p)
      PROVE  EntriesInv'
  <2> DEFINE n == Len(entries) + 1
             h == [e |-> n, part |-> "head"]
  <2>1. PICK x \in Entry :
           /\ n \in Ids /\ entries' = Append(entries, x) /\ (x.type = "label" => x.ref # 0)
           /\ (x.type = "message" => Len(x.msgs) = 1)
           /\ op' = [op EXCEPT ![p] = n] /\ h \in Piece /\ file' = Append(file, h)
           /\ lock' = {p} /\ UNCHANGED acked
           /\ mem' = [q \in Procs |-> IF x.type = "meta" /\ q = p
                                      THEN [mem[q] EXCEPT !.title = n] ELSE mem[q]]
    BY <1>3, BeginMemory
  <2>2. /\ DOMAIN entries' = 1..n /\ entries'[n] = x
        /\ \A e \in DOMAIN entries : entries'[e] = entries[e]
    BY <1>1, <2>1, Longer
  <2>3. /\ DOMAIN file' = 1..(Len(file) + 1) /\ file'[Len(file) + 1] = h
        /\ Len(file') = Len(file) + 1 /\ \A i \in DOMAIN file : file'[i] = file[i]
    BY <1>1, <2>1, Longer
  <2>4. n \notin DOMAIN entries /\ DOMAIN entries \subseteq DOMAIN entries' /\ n \in DOMAIN entries'
    BY <1>1, <2>2
  <2>5. \A e \in DOMAIN entries' : e = n \/ e \in DOMAIN entries
    BY <1>1, <2>2
  <2>6. \A i \in DOMAIN file' : i = Len(file) + 1 \/ i \in DOMAIN file
    BY <1>1, <2>3
  <2>7. op'[p] = n /\ h.e = n
    BY <1>1, <2>1
  <2> HIDE DEF n, h
  <2>8. \A i \in DOMAIN file' : file'[i].e \in DOMAIN entries'
    BY <2>3, <2>4, <2>6, <2>7 DEF EntriesInv
  <2>9. \A q \in lock' : \A i \in DOMAIN file' : i < Len(file') => file'[i].e # op'[q]
    BY <1>1, <2>1, <2>3, <2>4, <2>6, <2>7 DEF EntriesInv
  <2>10. acked' \subseteq DOMAIN entries' /\ \A q \in lock' : op'[q] \notin acked'
    BY <2>1, <2>4, <2>7 DEF EntriesInv
  <2>11. \A e \in DOMAIN entries' : entries'[e].type = "label" => entries'[e].ref # 0
    BY <2>1, <2>2, <2>5 DEF EntriesInv
  <2>12. \A e \in DOMAIN entries' : entries'[e].type = "message" => Len(entries'[e].msgs) = 1
    BY <2>1, <2>2, <2>5 DEF EntriesInv
  <2>13. \A q \in Procs : mem'[q].nodes \subseteq DOMAIN entries'
    <3>1. \A q \in Procs : mem'[q].nodes = mem[q].nodes
      BY <1>1, <2>1 DEF Memory
    <3> QED BY <2>4, <3>1 DEF EntriesInv
  <2> QED BY <2>8, <2>9, <2>10, <2>11, <2>12, <2>13 DEF EntriesInv
<1>4. ASSUME NEW p \in Procs, Finish(p)
      PROVE  EntriesInv'
  <2>1. /\ op[p] # 0 /\ lock' = {} /\ file' = Append(file, [e |-> op[p], part |-> "tail"])
        /\ acked' = acked \union {op[p]} /\ UNCHANGED entries
    BY <1>4, FinishEffect
  <2>2. op[p] \in DOMAIN entries /\ [e |-> op[p], part |-> "tail"] \in Piece
    BY <2>1, Writing
  <2>3. /\ DOMAIN file' = 1..(Len(file) + 1)
        /\ file'[Len(file) + 1] = [e |-> op[p], part |-> "tail"]
        /\ \A i \in DOMAIN file : file'[i] = file[i]
    BY <1>1, <2>1, <2>2, Longer
  <2>4. \A i \in DOMAIN file' : i = Len(file) + 1 \/ i \in DOMAIN file
    BY <1>1, <2>3
  <2>5. \A q \in Procs : mem'[q].nodes \subseteq DOMAIN entries
    <3>1. With(mem[p], op[p]).nodes \subseteq mem[p].nodes \union {op[p]}
      BY <1>1 DEF With, Memory
    <3>2. \A q \in Procs : Forgotten(mem[q]).nodes = mem[q].nodes
      BY <1>1, ForgottenTyped
    <3> QED BY <1>4, <2>2, <3>1, <3>2, FinishEffect DEF EntriesInv
  <2> QED BY <2>1, <2>2, <2>3, <2>4, <2>5 DEF EntriesInv
<1>5. ASSUME NEW p \in Procs, Fail(p) \/ Crash(p)
      PROVE  EntriesInv'
  <2>1. op[p] # 0 /\ lock' = {} /\ CutShort /\ UNCHANGED <<acked, entries>>
    BY <1>5, CutEffect
  <2>2. Len(file) > 0 /\ file[Len(file)].part = "head"
    <3>1. Len(file) > 0 /\ file[Len(file)] = [e |-> op[p], part |-> "head"]
      BY <2>1, Writing
    <3> QED BY <3>1
  <2>3. \A i \in DOMAIN file' : i \in DOMAIN file /\ file'[i].e = file[i].e
    <3>1. CASE file' = file
      BY <3>1
    <3>2. CASE Len(file') = Len(file) - 1 /\ DOMAIN file' = 1..(Len(file) - 1)
               /\ \A i \in DOMAIN file' : file'[i] = file[i]
      BY <1>1, <3>2
    <3>3. CASE /\ Len(file') = Len(file) /\ DOMAIN file' = 1..Len(file)
               /\ \A i \in 1..(Len(file) - 1) : file'[i] = file[i]
               /\ file'[Len(file)] = [e |-> file[Len(file)].e, part |-> "most"]
      <4>1. \A i \in 1..Len(file) : i \in 1..(Len(file) - 1) \/ i = Len(file)
        BY <1>1, Positions
      <4>2. file'[Len(file)].e = file[Len(file)].e
        BY <3>3
      <4>3. \A i \in 1..(Len(file) - 1) : file'[i].e = file[i].e
        BY <3>3
      <4>4. DOMAIN file' = DOMAIN file
        BY <1>1, <3>3
      <4> HIDE <3>3
      <4> QED BY <1>1, <4>1, <4>2, <4>3, <4>4
    <3> QED BY <2>1, <2>2, <3>1, <3>2, <3>3, CutPieces
  <2>4. \A q \in Procs : mem'[q].nodes \subseteq DOMAIN entries
    <3>1. \A q \in Procs : Forgotten(mem[q]).nodes = mem[q].nodes
      BY <1>1, ForgottenTyped
    <3> QED BY <1>1, <1>5, <3>1, CutEffect DEF EntriesInv
  <2> QED BY <2>1, <2>3, <2>4 DEF EntriesInv
<1>6. ASSUME NEW p \in Procs, Close(p) \/ Open(p)
      PROVE  EntriesInv'
  <2>1. UNCHANGED <<entries, file, lock, op, acked>>
    BY <1>6 DEF Close, Open
  <2>2. /\ \A q \in Procs \ {p} : mem'[q] = mem[q]
        /\ mem'[p].nodes = {} \/ mem'[p].nodes = Readable(file) \intersect Nodes
    <3>1. mem \in [Procs -> Memory]
      BY TypeParts
    <3> QED BY <1>1, <1>6, <3>1 DEF Close, Open, Replay
  <2>3. \A q \in Procs : mem'[q].nodes \subseteq DOMAIN entries
    BY <2>2 DEF EntriesInv, Nodes
  <2> QED BY <2>1, <2>3 DEF EntriesInv
<1> QED BY <1>2, <1>3, <1>4, <1>5, <1>6, StepsOf

-----------------------------------------------------------------------------
(* The lines of a file.                                                     *)

\* Lines are complete, and read, unless the file ends just before a newline.
LEMMA StartsAreFull ==
  ASSUME NEW f, Len(f) \in Nat, DOMAIN f = 1..Len(f),
         Len(f) > 0 => f[Len(f)].part # "most"
  PROVE  Starts(f) = Full(f)
<1>1. ASSUME NEW i \in DOMAIN f
      PROVE  ~(f[i].part = "most" /\ i = Len(f))
  BY <1>1
<1> QED BY <1>1 DEF Starts, Full

LEMMA FullPositions ==
  ASSUME NEW f, Len(f) \in Nat, DOMAIN f = 1..Len(f), NEW i \in Full(f)
  PROVE  i \in 1..(Len(f) - 1) /\ i \in DOMAIN f /\ i < Len(f)
BY DEF Full

LEMMA FullInside ==
  ASSUME NEW f, NEW g, NEW n \in Nat, n <= Len(f), n <= Len(g),
         Len(f) \in Nat, DOMAIN f = 1..Len(f), Len(g) \in Nat, DOMAIN g = 1..Len(g),
         \A i \in 1..n : g[i] = f[i], NEW i \in Nat, i < n
  PROVE  i \in Full(f) <=> i \in Full(g)
<1>1. CASE i = 0
  BY <1>1 DEF Full
<1>2. CASE i > 0
  <2>1. i \in 1..n /\ i + 1 \in 1..n /\ (i > 1 => i - 1 \in 1..n)
    BY <1>2
  <2>2. g[i] = f[i] /\ g[i + 1] = f[i + 1] /\ (i > 1 => g[i - 1] = f[i - 1])
    BY <2>1
  <2>3. i \in DOMAIN f /\ i \in DOMAIN g /\ i < Len(f) /\ i < Len(g)
    BY <1>2
  <2> QED BY <2>2, <2>3 DEF Full
<1> QED BY <1>1, <1>2

\* A file with a piece more, or with a last piece that is not the tail of the one
\* before it.
LEMMA FullWithHead ==
  ASSUME NEW f, NEW g, Len(f) \in Nat, DOMAIN f = 1..Len(f),
         Len(g) = Len(f) + 1, DOMAIN g = 1..(Len(f) + 1),
         \A i \in 1..Len(f) : g[i] = f[i], g[Len(f) + 1].part # "tail"
  PROVE  Full(g) = Full(f)
<1>1. \A i \in Nat : i < Len(f) => (i \in Full(f) <=> i \in Full(g))
  BY FullInside
<1>2. \A i \in Full(f) : i \in Nat /\ i < Len(f)
  BY FullPositions
<1>3. ASSUME NEW i \in Full(g)
      PROVE  i \in Nat /\ i < Len(f)
  <2>1. i \in 1..(Len(f) + 1) /\ i < Len(f) + 1
    BY <1>3 DEF Full
  <2>2. g[i + 1] = [e |-> g[i].e, part |-> "tail"]
    BY <1>3 DEF Full
  <2>3. g[i + 1].part = "tail"
    BY <2>2
  <2>4. i # Len(f)
    BY <2>3
  <2> QED BY <2>1, <2>4, Positions
<1> QED BY <1>1, <1>2, <1>3

\* The tail completes a line if its head is at the beginning of one.
LEMMA FullWithTail ==
  ASSUME NEW f, NEW g, NEW e, Len(f) \in Nat, DOMAIN f = 1..Len(f), Len(f) > 0,
         f[Len(f)] = [e |-> e, part |-> "head"],
         Len(g) = Len(f) + 1, DOMAIN g = 1..(Len(f) + 1),
         \A i \in 1..Len(f) : g[i] = f[i], g[Len(f) + 1] = [e |-> e, part |-> "tail"]
  PROVE  Full(g) = Full(f) \union {i \in {Len(f)} : i > 1 => f[i - 1].part = "tail"}
<1>1. \A i \in Nat : i < Len(f) => (i \in Full(f) <=> i \in Full(g))
  BY FullInside
<1>2. \A i \in Full(f) : i \in Nat /\ i < Len(f)
  BY FullPositions
<1>3. \A i \in Full(g) : i \in Nat /\ (i < Len(f) \/ i = Len(f))
  BY DEF Full
<1>4. Len(f) \in Full(g) <=> (Len(f) > 1 => f[Len(f) - 1].part = "tail")
  <2>1. Len(f) > 1 => g[Len(f) - 1] = f[Len(f) - 1]
    OBVIOUS
  <2>2. g[Len(f)].part = "head" /\ g[Len(f)].e = e
    OBVIOUS
  <2>3. Len(f) \in DOMAIN g /\ Len(f) < Len(g)
    OBVIOUS
  <2> QED BY <2>1, <2>2, <2>3 DEF Full
<1> QED BY <1>1, <1>2, <1>3, <1>4

\* What is left of a write that is cut short is no line.
LEMMA FullCut ==
  ASSUME TypeOK, Len(file) > 0, file[Len(file)].part = "head", CutShort
  PROVE  /\ Full(file') = Full(file) /\ Complete(file') = Complete(file)
         /\ \A i \in Full(file) : i < Len(file)
<1>1. /\ Len(file) \in Nat /\ DOMAIN file = 1..Len(file)
      /\ \A i \in Full(file) : i < Len(file) /\ i \in 1..(Len(file) - 1)
  BY Lists, FullPositions
<1>2. CASE file' = file
  BY <1>1, <1>2
<1>3. CASE /\ Len(file') = Len(file) - 1 /\ DOMAIN file' = 1..(Len(file) - 1)
           /\ \A i \in DOMAIN file' : file'[i] = file[i]
  <2> DEFINE g == file'
  <2>1. /\ Len(g) \in Nat /\ DOMAIN g = 1..Len(g) /\ Len(file) = Len(g) + 1
        /\ DOMAIN file = 1..(Len(g) + 1) /\ \A i \in 1..Len(g) : file[i] = g[i]
        /\ file[Len(g) + 1].part # "tail"
    BY <1>1, <1>3
  <2> HIDE DEF g
  <2>2. Full(file) = Full(g)
    BY <2>1, FullWithHead
  <2>3. \A i \in Full(file) : g[i] = file[i]
    BY <1>1, <2>1, <2>2, FullPositions
  <2>4. Complete(g) = Complete(file)
    BY <2>2, <2>3 DEF Complete
  <2> QED BY <1>1, <2>2, <2>4 DEF g
<1>4. CASE /\ Len(file') = Len(file) /\ DOMAIN file' = 1..Len(file)
           /\ \A i \in 1..(Len(file) - 1) : file'[i] = file[i]
           /\ file'[Len(file)] = [e |-> file[Len(file)].e, part |-> "most"]
  <2> DEFINE g == file'
             n == Len(file) - 1
  <2>1. /\ n \in Nat /\ Len(g) = Len(file) /\ DOMAIN g = 1..Len(file)
        /\ \A i \in 1..n : g[i] = file[i] /\ g[Len(file)].part = "most"
        /\ g[Len(file)].part = "most"
    BY <1>1, <1>4
  <2> HIDE DEF g
  <2>2. \A i \in Nat : i < n => (i \in Full(file) <=> i \in Full(g))
    BY <1>1, <2>1, FullInside
  <2>3. n \notin Full(file) /\ n \notin Full(g)
    <3>1. n + 1 = Len(file)
      BY <1>1
    <3>2. \A x : file[n + 1] # [e |-> x, part |-> "tail"] /\ g[n + 1] # [e |-> x, part |-> "tail"]
      BY <2>1, <3>1
    <3> QED BY <3>2 DEF Full
  <2>4. \A i \in Full(g) \union Full(file) : i \in 1..n
    BY <1>1, <2>1, FullPositions
  <2> HIDE DEF n
  <2>5. \A i \in 1..n : i # n => i \in Nat /\ i < n
    BY <2>1
  <2>6. Full(g) = Full(file)
    <3>1. \A i \in Full(g) \union Full(file) : i \in Nat /\ i < n
      BY <2>3, <2>4, <2>5
    <3> QED BY <2>2, <3>1
  <2>7. Complete(g) = Complete(file)
    BY <2>1, <2>4, <2>6 DEF Complete
  <2> QED BY <1>1, <2>6, <2>7 DEF g
<1> QED BY <1>2, <1>3, <1>4, CutPieces

LEMMA LinesBegin ==
  ASSUME TypeOK, WriterInv, NEW p \in Procs, BeginSteps(p)
  PROVE  /\ Full(file') = Full(file) /\ Complete(file') = Complete(file)
         /\ Starts(file') = Full(file') /\ (Dirty' <=> Dirty)
         /\ \A i \in DOMAIN file : file'[i] = file[i]
<1> DEFINE h == [e |-> Len(entries) + 1, part |-> "head"]
           g == file'
<1>1. h \in Piece /\ file' = Append(file, h) /\ lock = {} /\ lock' = {p}
  BY BeginMemory
<1>2. h.part = "head" /\ file \in Seq(Piece) /\ Len(file) \in Nat /\ DOMAIN file = 1..Len(file)
  BY TypeParts, Lists
<1> HIDE DEF h
<1>3. /\ Len(g) = Len(file) + 1 /\ DOMAIN g = 1..(Len(file) + 1)
      /\ \A i \in 1..Len(file) : g[i] = file[i]
      /\ g[Len(file) + 1].part # "tail"
  BY <1>1, <1>2, Longer
<1>4. Before' = Len(file) /\ Before = Len(file)
  <2>1. lock' # {} /\ Len(file') = Len(file) + 1
    BY <1>1, <1>3
  <2>2. Before' = Len(file') - 1 /\ Before = Len(file)
    BY <1>1, <2>1 DEF Before
  <2>3. \A m \in Nat : m + 1 - 1 = m
    OBVIOUS
  <2> QED BY <1>2, <2>1, <2>2, <2>3
<1>5. Len(file) > 0 => file'[Len(file)] = file[Len(file)]
  BY <1>2, <1>3
<1>6. Dirty' <=> Dirty
  BY <1>4, <1>5 DEF Dirty
<1> HIDE DEF g
<1>7. Full(g) = Full(file)
  BY <1>2, <1>3, FullWithHead
<1>8. \A i \in Full(file) : g[i] = file[i]
  <2>1. \A i \in Full(file) : i \in 1..Len(file)
    BY <1>2, FullPositions
  <2> QED BY <1>3, <2>1
<1>9. Complete(g) = Complete(file)
  BY <1>7, <1>8 DEF Complete
<1>10. Starts(g) = Full(g)
  <2>1. g[Len(file) + 1].part = "head"
    BY <1>1, <1>2, Longer DEF g
  <2>2. Len(g) \in Nat /\ DOMAIN g = 1..Len(g) /\ g[Len(g)].part # "most"
    BY <1>2, <1>3, <2>1
  <2> QED BY <2>2, StartsAreFull
<1> QED BY <1>2, <1>3, <1>6, <1>7, <1>9, <1>10 DEF g

LEMMA LinesFinish ==
  ASSUME TypeOK, WriterInv, EntriesInv, NEW p \in Procs, Finish(p)
  PROVE  /\ ~Dirty' /\ Starts(file') = Full(file')
         /\ Full(file') = Full(file) \union {i \in {Len(file)} : ~Dirty}
         /\ \A i \in DOMAIN file : file'[i] = file[i]
         /\ Len(file) \in DOMAIN file /\ file[Len(file)].e = op[p]
         /\ \A i \in Full(file) : i < Len(file)
         /\ Complete(file') = Complete(file) \union {e \in {op[p]} : ~Dirty}
<1> DEFINE t == [e |-> op[p], part |-> "tail"]
           g == file'
<1>1. /\ op[p] # 0 /\ lock' = {} /\ file' = Append(file, t)
  BY FinishEffect
<1>2. /\ lock = {p} /\ Len(file) \in Nat /\ Len(file) > 0 /\ t \in Piece
      /\ file[Len(file)] = [e |-> op[p], part |-> "head"]
  BY <1>1, Writing
<1>3. file \in Seq(Piece) /\ DOMAIN file = 1..Len(file) /\ Len(file) \in DOMAIN file
  BY <1>2, TypeParts, Lists
<1>4. file[Len(file)].e = op[p] /\ t.part = "tail"
  BY <1>2
<1> HIDE DEF t
<1>5. /\ Len(g) = Len(file) + 1 /\ DOMAIN g = 1..(Len(file) + 1)
      /\ \A i \in 1..Len(file) : g[i] = file[i]
      /\ g[Len(file) + 1] = t
  BY <1>1, <1>2, <1>3, Longer
<1>6. Before' = Len(file) + 1 /\ Before = Len(file) - 1
  BY <1>1, <1>2, <1>5 DEF Before
<1>7. ~Dirty'
  BY <1>4, <1>5, <1>6 DEF Dirty
<1>8. ~Dirty <=> (Len(file) > 1 => file[Len(file) - 1].part = "tail")
  BY <1>2, <1>6 DEF Dirty
<1> HIDE DEF g
<1>9. Full(g) = Full(file) \union {i \in {Len(file)} : i > 1 => file[i - 1].part = "tail"}
  BY <1>2, <1>3, <1>5, FullWithTail DEF t
<1>10. Full(g) = Full(file) \union {i \in {Len(file)} : ~Dirty}
  BY <1>8, <1>9
<1>11. \A i \in Full(file) : i < Len(file) /\ i \in DOMAIN file /\ g[i] = file[i]
  BY <1>2, <1>3, <1>5, FullPositions
<1>12. g[Len(file)].e = op[p]
  BY <1>3, <1>4, <1>5
<1>13. Complete(g) = Complete(file) \union {e \in {op[p]} : ~Dirty}
  BY <1>10, <1>11, <1>12 DEF Complete
<1>14. Starts(g) = Full(g)
  <2>1. Len(g) \in Nat /\ DOMAIN g = 1..Len(g) /\ g[Len(g)].part # "most"
    BY <1>2, <1>4, <1>5
  <2> QED BY <2>1, StartsAreFull
<1> QED BY <1>3, <1>4, <1>5, <1>7, <1>10, <1>11, <1>13, <1>14 DEF g

\* While a write is in progress, or if the file ends with a newline, the complete
\* lines are those that are read.
LEMMA FullIsRead ==
  ASSUME TypeOK, WriterInv, lock # {} \/ ~Dirty
  PROVE  Starts(file) = Full(file) /\ Readable(file) = Complete(file)
<1>1. Len(file) \in Nat /\ DOMAIN file = 1..Len(file)
  BY Lists
<1>2. Len(file) > 0 => file[Len(file)].part # "most"
  <2>1. CASE lock = {}
    BY <1>1, <2>1 DEF Dirty, Before
  <2>2. CASE lock # {}
    <3>1. PICK p \in lock : TRUE
      BY <2>2
    <3>2. file[Len(file)] = [e |-> op[p], part |-> "head"]
      BY <3>1 DEF WriterInv
    <3> QED BY <3>2
  <2> QED BY <2>1, <2>2
<1>3. Starts(file) = Full(file)
  BY <1>1, <1>2, StartsAreFull
<1> QED BY <1>3 DEF Readable, Complete

-----------------------------------------------------------------------------
(* What faults cost.                                                        *)

LEMMA LossKept ==
  ASSUME TypeOK, WriterInv, EntriesInv, LossInv, [Next]_vars
  PROVE  LossInv'
<1> DEFINE lossAfter == acked' \ Complete(file')
           loss == acked \ Complete(file)
           c == Cardinality(loss)
<1>1. IsFiniteSet(loss) /\ c \in Nat /\ faults \in Nat
  <2>1. IsFiniteSet(Ids)
    BY SessionAssumption, FS_Interval DEF Ids
  <2>2. loss \subseteq Ids
    BY TypeParts
  <2>3. IsFiniteSet(loss)
    BY <2>1, <2>2, FS_Subset
  <2>4. faults \in Nat
    BY TypeParts, Bounds
  <2> QED BY <2>3, <2>4, FS_CardinalityType
<1>2. c + (IF Dirty THEN 1 ELSE 0) <= faults
  BY DEF LossInv
<1>3. SUFFICES Cardinality(lossAfter) + (IF Dirty' THEN 1 ELSE 0) <= faults'
  BY DEF LossInv
<1>4. CASE UNCHANGED lines
  <2>1. lossAfter = loss /\ (Dirty' <=> Dirty) /\ faults' = faults
    BY <1>4 DEF lines, Complete, Full, Dirty, Before
  <2> QED BY <1>2, <2>1
<1>5. ASSUME NEW p \in Procs, BeginSteps(p)
      PROVE  Cardinality(lossAfter) + (IF Dirty' THEN 1 ELSE 0) <= faults'
  <2>1. lossAfter = loss /\ (Dirty' <=> Dirty) /\ faults' = faults
    BY <1>5, BeginMemory, LinesBegin
  <2> QED BY <1>2, <2>1
<1>6. ASSUME NEW p \in Procs, Finish(p)
      PROVE  Cardinality(lossAfter) + (IF Dirty' THEN 1 ELSE 0) <= faults'
  <2>1. ~Dirty' /\ faults' = faults /\ acked' = acked \union {op[p]}
    BY <1>6, FinishEffect, LinesFinish
  <2>2. Complete(file') = Complete(file) \union {e \in {op[p]} : ~Dirty}
    BY <1>6, LinesFinish
  <2>3. CASE Dirty
    <3>1. lossAfter \subseteq loss \union {op[p]}
      BY <2>1, <2>2
    <3>2. /\ IsFiniteSet(loss \union {op[p]})
          /\ Cardinality(loss \union {op[p]}) = IF op[p] \in loss THEN c ELSE c + 1
      BY <1>1, FS_AddElement
    <3> HIDE DEF c, loss, lossAfter
    <3>3. Cardinality(lossAfter) <= Cardinality(loss \union {op[p]}) /\ IsFiniteSet(lossAfter)
      BY <3>1, <3>2, FS_Subset
    <3>4. Cardinality(lossAfter) \in Nat
      BY <3>3, FS_CardinalityType
    <3> QED BY <1>1, <1>2, <2>1, <2>3, <3>2, <3>3, <3>4
  <2>4. CASE ~Dirty
    <3>1. lossAfter \subseteq loss
      BY <2>1, <2>2, <2>4
    <3> HIDE DEF loss, lossAfter
    <3>2. Cardinality(lossAfter) <= c /\ IsFiniteSet(lossAfter)
      BY <1>1, <3>1, FS_Subset
    <3>3. Cardinality(lossAfter) \in Nat
      BY <3>2, FS_CardinalityType
    <3> HIDE DEF c
    <3> QED BY <1>1, <1>2, <2>1, <2>4, <3>2, <3>3
  <2> QED BY <2>3, <2>4
<1>7. ASSUME NEW p \in Procs, Fail(p) \/ Crash(p)
      PROVE  Cardinality(lossAfter) + (IF Dirty' THEN 1 ELSE 0) <= faults'
  <2>1. op[p] # 0 /\ CutShort /\ acked' = acked /\ faults' = faults + 1
    BY <1>7, CutEffect
  <2>2. Len(file) > 0 /\ file[Len(file)].part = "head"
    <3>1. Len(file) > 0 /\ file[Len(file)] = [e |-> op[p], part |-> "head"]
      BY <2>1, Writing
    <3> QED BY <3>1
  <2>3. lossAfter = loss
    BY <2>1, <2>2, FullCut
  <2> QED BY <1>1, <1>2, <2>1, <2>3
<1>8. ASSUME NEW p \in Procs, Close(p) \/ Open(p)
      PROVE  Cardinality(lossAfter) + (IF Dirty' THEN 1 ELSE 0) <= faults'
  <2>1. UNCHANGED <<file, lock, acked, faults>>
    BY <1>8 DEF Close, Open
  <2>2. lossAfter = loss /\ (Dirty' <=> Dirty) /\ faults' = faults
    BY <2>1 DEF Complete, Full, Dirty, Before
  <2> QED BY <1>2, <2>2
<1> QED BY <1>4, <1>5, <1>6, <1>7, <1>8, StepsOf

-----------------------------------------------------------------------------
(* What is read last.                                                       *)

LEMMA ReadPositions ==
  ASSUME NEW f, NEW es, Len(f) \in Nat, DOMAIN f = 1..Len(f),
         NEW i \in Starts(f), f[i].e \in es
  PROVE  LET at == {j \in Starts(f) : f[j].e \in es} IN Max(at) \in at /\ \A j \in at : j <= Max(at)
<1> DEFINE at == {j \in Starts(f) : f[j].e \in es}
<1>1. at \in SUBSET Nat /\ at # {} /\ \A j \in at : j <= Len(f)
  BY DEF Starts
<1> HIDE DEF at
<1>2. Max(at) \in at /\ \A j \in at : j <= Max(at)
  BY <1>1, HasGreatest
<1> QED BY <1>2 DEF at

\* Two files with the same lines.
LEMMA SameRead ==
  ASSUME NEW f, NEW g, NEW es, NEW fs, Len(f) \in Nat, DOMAIN f = 1..Len(f),
         Starts(g) = Starts(f),
         \A i \in Starts(f) : g[i].e = f[i].e /\ (f[i].e \in es <=> f[i].e \in fs)
  PROVE  LastRead(g, fs) = LastRead(f, es) /\ Readable(g) \intersect fs = Readable(f) \intersect es
<1> DEFINE at == {j \in Starts(f) : f[j].e \in es}
<1>1. at = {j \in Starts(g) : g[j].e \in fs}
  OBVIOUS
<1>2. Readable(g) \intersect fs = Readable(f) \intersect es
  BY DEF Readable
<1>3. CASE at = {}
  BY <1>1, <1>2, <1>3 DEF LastRead
<1>4. CASE at # {}
  <2>1. Max(at) \in at
    BY <1>4, ReadPositions
  <2>2. g[Max(at)].e = f[Max(at)].e
    BY <2>1
  <2>3. LastRead(g, fs) = g[Max(at)].e /\ LastRead(f, es) = f[Max(at)].e
    BY <1>1, <1>4 DEF LastRead
  <2> QED BY <1>2, <2>2, <2>3
<1> QED BY <1>3, <1>4

\* A file with one line more.
LEMMA MoreRead ==
  ASSUME NEW f, NEW g, NEW es, NEW n \in Nat, Len(f) \in Nat, DOMAIN f = 1..Len(f),
         Starts(g) = Starts(f) \union {n}, \A i \in Starts(f) : i < n /\ g[i] = f[i]
  PROVE  /\ LastRead(g, es) = IF g[n].e \in es THEN g[n].e ELSE LastRead(f, es)
         /\ Readable(g) = Readable(f) \union {g[n].e}
<1> DEFINE at == {j \in Starts(f) : f[j].e \in es}
           bt == {j \in Starts(g) : g[j].e \in es}
<1>1. Readable(g) = Readable(f) \union {g[n].e}
  BY DEF Readable
<1>2. CASE g[n].e \in es
  <2>1. bt = at \union {n}
    BY <1>2
  <2>2. LastRead(g, es) = g[Max(bt)].e
    BY <1>2 DEF LastRead
  <2>6. \A j \in at : j \in Nat /\ j < n
    <3>1. \A j \in Starts(f) : j \in Nat
      BY DEF Starts
    <3> QED BY <3>1
  <2> HIDE DEF at, bt
  <2>3. n \in bt /\ bt \in SUBSET Nat /\ \A j \in bt : j <= n
    BY <2>1, <2>6
  <2>4. Max(bt) \in bt /\ \A j \in bt : j <= Max(bt)
    BY <2>3, HasGreatest
  <2>5. Max(bt) = n
    <3>1. Max(bt) \in Nat /\ Max(bt) <= n /\ n <= Max(bt)
      BY <2>3, <2>4
    <3> HIDE DEF Max
    <3> QED BY <3>1
  <2> QED BY <1>1, <1>2, <2>2, <2>5
<1>3. CASE g[n].e \notin es
  <2>1. bt = at
    BY <1>3
  <2>2. CASE at = {}
    BY <1>1, <1>3, <2>1, <2>2 DEF LastRead
  <2>3. CASE at # {}
    <3>1. Max(at) \in at
      BY <2>3, ReadPositions
    <3>2. g[Max(at)] = f[Max(at)]
      BY <3>1
    <3>3. LastRead(g, es) = g[Max(at)].e /\ LastRead(f, es) = f[Max(at)].e
      BY <2>1, <2>3 DEF LastRead
    <3> QED BY <1>1, <1>3, <3>2, <3>3
  <2> QED BY <2>2, <2>3
<1> QED BY <1>2, <1>3

-----------------------------------------------------------------------------
(* What a process remembers of the file.                                    *)

\* A new entry is of the kind it has, and changes the kind of no other.
LEMMA KindsKept ==
  ASSUME TypeOK, NEW x \in Entry, entries' = Append(entries, x)
  PROVE  /\ \A e \in DOMAIN entries :
              /\ entries'[e] = entries[e]
              /\ e \in Nodes' <=> e \in Nodes
              /\ e \in Metas' <=> e \in Metas
              /\ \A t : e \in Labels(t)' <=> e \in Labels(t)
         /\ entries'[Len(entries) + 1] = x
<1>1. /\ DOMAIN entries' = 1..(Len(entries) + 1) /\ DOMAIN entries = 1..Len(entries)
      /\ \A e \in DOMAIN entries : entries'[e] = entries[e]
      /\ entries'[Len(entries) + 1] = x /\ Len(entries) \in Nat
  BY TypeParts, Longer
<1>2. DOMAIN entries \subseteq DOMAIN entries'
  BY <1>1
<1> QED BY <1>1, <1>2 DEF Nodes, Metas, Labels

LEMMA ReplayBegin ==
  ASSUME TypeOK, WriterInv, EntriesInv, ReplayInv, NEW p \in Procs, BeginSteps(p)
  PROVE  ReplayInv'
<1> DEFINE n == Len(entries) + 1
<1>1. PICK x \in Entry :
         /\ n \in Ids /\ entries' = Append(entries, x)
         /\ op' = [op EXCEPT ![p] = n] /\ lock = {} /\ op[p] = 0
         /\ mem' = [q \in Procs |-> IF x.type = "meta" /\ q = p
                                    THEN [mem[q] EXCEPT !.title = n] ELSE mem[q]]
  BY BeginMemory
<1>2. /\ \A e \in DOMAIN entries :
            /\ entries'[e] = entries[e]
            /\ e \in Nodes' <=> e \in Nodes
            /\ e \in Metas' <=> e \in Metas
            /\ \A t : e \in Labels(t)' <=> e \in Labels(t)
      /\ entries'[n] = x
  BY <1>1, KindsKept
<1>3. /\ n # 0 /\ Len(file) \in Nat /\ DOMAIN file = 1..Len(file)
      /\ mem \in [Procs -> Memory] /\ op \in [Procs -> 0..MaxEntries]
      /\ \A q \in Procs : op[q] = 0
  BY <1>1, Lists, TypeParts, Bounds DEF WriterInv
<1> HIDE DEF n
<1>4. SUFFICES ASSUME NEW q \in Procs, mem'[q].open, mem'[q].alone
               PROVE  /\ ~Dirty'
                      /\ Remembers(mem[q], file, IF op[q] # 0 /\ entries[op[q]].type = "meta"
                                                 THEN op[q] ELSE LastRead(file, Metas))'
  BY DEF ReplayInv
<1>5. /\ mem[q] \in Memory /\ mem[q].open /\ mem[q].alone
      /\ mem'[q] = IF x.type = "meta" /\ q = p THEN [mem[q] EXCEPT !.title = n] ELSE mem[q]
  BY <1>1, <1>3, <1>4 DEF Memory
<1>6. ~Dirty /\ Remembers(mem[q], file, LastRead(file, Metas))
  BY <1>3, <1>5 DEF ReplayInv
<1>7. /\ ~Dirty' /\ Starts(file') = Starts(file)
      /\ \A i \in Starts(file) : file'[i].e = file[i].e /\ file[i].e \in DOMAIN entries
  <2>1. Starts(file') = Starts(file) /\ ~Dirty' /\ \A i \in DOMAIN file : file'[i] = file[i]
    BY <1>6, LinesBegin, FullIsRead
  <2>2. \A i \in Starts(file) : i \in DOMAIN file
    BY ReadableTyped
  <2> QED BY <2>1, <2>2 DEF EntriesInv
<1>8. /\ LastRead(file', Nodes') = LastRead(file, Nodes)
      /\ Readable(file') \intersect Nodes' = Readable(file) \intersect Nodes
  <2>1. \A i \in Starts(file) : /\ file'[i].e = file[i].e
                               /\ file[i].e \in Nodes <=> file[i].e \in Nodes'
    BY <1>2, <1>7
  <2>2. LastRead(file', Nodes') = LastRead(file, Nodes)
    BY <1>3, <1>7, <2>1, SameRead
  <2>3. Readable(file') \intersect Nodes' = Readable(file) \intersect Nodes
    BY <1>7, <2>1 DEF Readable
  <2> QED BY <2>2, <2>3
<1>9. LastRead(file', Metas') = LastRead(file, Metas)
  BY <1>2, <1>3, <1>7, SameRead
<1>10. Labelled(file)' = Labelled(file)
  <2>1. \A t : LastRead(file', Labels(t)') = LastRead(file, Labels(t))
    BY <1>2, <1>3, <1>7, SameRead
  <2>2. \A t : LastRead(file, Labels(t)) # 0 =>
           entries'[LastRead(file, Labels(t))] = entries[LastRead(file, Labels(t))]
    BY <1>2, <1>7, LastReadIs
  <2> QED BY <2>1, <2>2 DEF Labelled
<1>11. /\ mem'[q].open = TRUE /\ mem'[q].alone = TRUE
       /\ mem'[q].nodes = mem[q].nodes /\ mem'[q].leaf = mem[q].leaf
       /\ mem'[q].labels = mem[q].labels
       /\ mem'[q].title = IF x.type = "meta" /\ q = p THEN n ELSE mem[q].title
  BY <1>5 DEF Memory
<1>12. mem'[q].title = IF op'[q] # 0 /\ entries'[op'[q]].type = "meta"
                       THEN op'[q] ELSE LastRead(file', Metas')
  <2>1. mem[q].title = LastRead(file, Metas)
    BY <1>6 DEF Remembers
  <2>2. CASE q = p
    <3>1. op'[q] = n
      BY <1>1, <1>3, <2>2
    <3> QED BY <1>2, <1>3, <1>9, <1>11, <2>1, <2>2, <3>1
  <2>3. CASE q # p
    <3>1. op'[q] = 0
      BY <1>1, <1>3, <2>3
    <3> QED BY <1>9, <1>11, <2>1, <2>3, <3>1
  <2> QED BY <2>2, <2>3
<1> QED BY <1>6, <1>7, <1>8, <1>10, <1>11, <1>12 DEF Remembers

LEMMA ReplayFinish ==
  ASSUME TypeOK, WriterInv, EntriesInv, ReplayInv, NEW p \in Procs, Finish(p)
  PROVE  ReplayInv'
<1> DEFINE e == op[p]
           m == mem[p]
           g == file'
<1>1. /\ e # 0 /\ op' = [op EXCEPT ![p] = 0] /\ entries' = entries
      /\ mem' = [q \in Procs |-> IF q = p THEN With(m, e) ELSE Forgotten(mem[q])]
  BY FinishEffect
<1>2. /\ lock = {p} /\ m.open /\ m \in Memory /\ e \in DOMAIN entries /\ e \in Ids
      /\ Len(file) \in Nat /\ Len(file) > 0 /\ DOMAIN file = 1..Len(file)
  BY <1>1, Lists, Writing
<1>3. \A q \in Procs \ {p} : mem'[q].alone = FALSE
  <2>1. \A q \in Procs : Forgotten(mem[q]).alone = FALSE
    BY Lists, ForgottenTyped
  <2> QED BY <1>1, <2>1
<1>4. mem'[p] = With(m, e) /\ op'[p] = 0
  <2>1. op \in [Procs -> 0..MaxEntries]
    BY TypeParts
  <2> QED BY <1>1, <2>1
<1>5. Nodes' = Nodes /\ Metas' = Metas /\ \A t : Labels(t)' = Labels(t)
  BY <1>1 DEF Nodes, Metas, Labels
<1>6. SUFFICES ASSUME With(m, e).open, With(m, e).alone
               PROVE  ~Dirty' /\ Remembers(mem[p], file, LastRead(file, Metas))'
  <2>1. \A q \in Procs : mem'[q].open /\ mem'[q].alone =>
           q = p /\ op'[q] = 0 /\ With(m, e).open /\ With(m, e).alone
    BY <1>3, <1>4
  <2> QED BY <1>6, <2>1 DEF ReplayInv
<1>7. m.alone
  <2>1. CASE entries[e].type = "meta"
    BY <1>6, <2>1 DEF With
  <2>2. CASE entries[e].type # "meta"
    BY <1>2, <1>6, <2>2 DEF With, Memory
  <2> QED BY <2>1, <2>2
<1>8. /\ ~Dirty
      /\ Remembers(m, file, IF entries[e].type = "meta" THEN e ELSE LastRead(file, Metas))
  BY <1>1, <1>2, <1>7 DEF ReplayInv
<1>9. /\ ~Dirty' /\ Starts(g) = Starts(file) \union {Len(file)} /\ g[Len(file)].e = e
      /\ \A i \in Starts(file) : i < Len(file) /\ g[i] = file[i] /\ file[i].e # e
  <2>1. /\ ~Dirty' /\ Starts(g) = Full(file) \union {Len(file)}
        /\ \A i \in DOMAIN file : g[i] = file[i]
        /\ Len(file) \in DOMAIN file /\ file[Len(file)].e = e
        /\ \A i \in Full(file) : i < Len(file)
    BY <1>8, LinesFinish
  <2>2. Starts(file) = Full(file)
    BY <1>8, FullIsRead
  <2>3. \A i \in Starts(file) : i \in DOMAIN file
    BY ReadableTyped
  <2>4. \A i \in DOMAIN file : i < Len(file) => file[i].e # e
    BY <1>1, Writing
  <2> QED BY <2>1, <2>2, <2>3, <2>4
<1> HIDE DEF g, e, m
<1>10. /\ \A es : LastRead(g, es) = IF e \in es THEN e ELSE LastRead(file, es)
       /\ Readable(g) = Readable(file) \union {e}
  <2>1. \A i \in Starts(file) : i < Len(file) /\ g[i] = file[i]
    BY <1>9
  <2>2. \A es : LastRead(g, es) = IF g[Len(file)].e \in es THEN g[Len(file)].e
                                  ELSE LastRead(file, es)
    BY <1>2, <1>9, <2>1, MoreRead
  <2>3. Readable(g) = Readable(file) \union {g[Len(file)].e}
    BY <1>9 DEF Readable
  <2> QED BY <1>9, <2>2, <2>3
<1>11. CASE entries[e].type = "meta"
  <2>1. With(m, e) = m /\ e \in Metas /\ e \notin Nodes /\ \A t : e \notin Labels(t)
    BY <1>2, <1>11 DEF With, Metas, Nodes, Labels
  <2>2. /\ LastRead(g, Nodes) = LastRead(file, Nodes) /\ LastRead(g, Metas) = e
        /\ Readable(g) \intersect Nodes = Readable(file) \intersect Nodes
        /\ \A t : LastRead(g, Labels(t)) = LastRead(file, Labels(t))
    BY <1>10, <2>1
  <2>3. Labelled(g) = Labelled(file)
    BY <2>2 DEF Labelled
  <2>4. Remembers(m, file, e)
    BY <1>8, <1>11
  <2>5. Remembers(m, g, LastRead(g, Metas))
    BY <2>2, <2>3, <2>4 DEF Remembers
  <2>6. mem'[p] = m
    BY <1>4, <2>1
  <2> QED BY <1>1, <1>5, <1>9, <2>5, <2>6 DEF Remembers, Labelled, g
<1>12. CASE entries[e].type # "meta"
  <2> DEFINE labels == IF entries[e].type # "label" THEN m.labels
                       ELSE IF entries[e].set THEN m.labels \union {entries[e].ref}
                                              ELSE m.labels \ {entries[e].ref}
  <2>1. /\ With(m, e) = [m EXCEPT !.nodes = m.nodes \union {e}, !.leaf = e, !.labels = labels]
        /\ e \notin Metas /\ e \in Nodes
    <3>1. With(m, e) = [m EXCEPT !.nodes = m.nodes \union {e}, !.leaf = e, !.labels = labels]
      BY <1>12 DEF With
    <3>2. e \notin Metas /\ e \in Nodes
      BY <1>2, <1>12 DEF Metas, Nodes
    <3> QED BY <3>1, <3>2
  <2>2. Remembers(m, file, LastRead(file, Metas))
    BY <1>8, <1>12
  <2>3. /\ LastRead(g, Nodes) = e /\ LastRead(g, Metas) = LastRead(file, Metas)
        /\ Readable(g) \intersect Nodes = (Readable(file) \intersect Nodes) \union {e}
        /\ \A t : LastRead(g, Labels(t)) = IF e \in Labels(t) THEN e
                                           ELSE LastRead(file, Labels(t))
    BY <1>10, <2>1
  <2>4. labels = Labelled(g)
    <3>1. m.labels = Labelled(file)
      BY <2>2 DEF Remembers
    <3>2. CASE entries[e].type # "label"
      <4>1. \A t : e \notin Labels(t)
        BY <3>2 DEF Labels
      <4> QED BY <2>3, <3>1, <3>2, <4>1 DEF Labelled
    <3>3. CASE entries[e].type = "label"
      <4>1. entries[e].ref # 0 /\ entries[e].ref \in 0..MaxEntries /\ entries[e].set \in BOOLEAN
        BY <1>2, <3>3, Lists DEF EntriesInv, Entry
      <4>2. entries[e].ref \in Ids
        BY <4>1, Bounds
      <4>3. \A t : e \in Labels(t) <=> t = entries[e].ref
        BY <1>2, <3>3 DEF Labels
      <4>4. \A t : t \in Labelled(g) <=>
               /\ t \in Ids
               /\ IF t = entries[e].ref THEN e # 0 /\ entries[e].set ELSE t \in Labelled(file)
        BY <2>3, <4>3 DEF Labelled
      <4>5. e # 0
        BY <1>1 DEF e
      <4>6. \A t \in Labelled(file) : t \in Ids
        BY DEF Labelled
      <4>7. labels = IF entries[e].set THEN Labelled(file) \union {entries[e].ref}
                                       ELSE Labelled(file) \ {entries[e].ref}
        BY <3>1, <3>3
      <4> QED BY <4>2, <4>4, <4>5, <4>6, <4>7
    <3> QED BY <3>2, <3>3
  <2> HIDE DEF labels
  <2>5. /\ With(m, e).open = m.open /\ With(m, e).alone = m.alone /\ With(m, e).title = m.title
        /\ With(m, e).nodes = m.nodes \union {e} /\ With(m, e).leaf = e
        /\ With(m, e).labels = labels
    BY <1>2, <2>1 DEF Memory, m
  <2>6. Remembers(With(m, e), g, LastRead(g, Metas))
    BY <2>2, <2>3, <2>4, <2>5 DEF Remembers
  <2> QED BY <1>1, <1>4, <1>5, <1>9, <2>6 DEF Remembers, Labelled, g
<1> QED BY <1>11, <1>12

LEMMA ReplayKept ==
  ASSUME TypeOK, WriterInv, EntriesInv, ReplayInv, [Next]_vars
  PROVE  ReplayInv'
<1>1. CASE UNCHANGED lines
  BY <1>1 DEF ReplayInv, Remembers, Labelled, Labels, Nodes, Metas, Dirty, Before, lines
<1>2. ASSUME NEW p \in Procs, BeginSteps(p)
      PROVE  ReplayInv'
  BY <1>2, ReplayBegin
<1>3. ASSUME NEW p \in Procs, Finish(p)
      PROVE  ReplayInv'
  BY <1>3, ReplayFinish
<1>4. ASSUME NEW p \in Procs, Fail(p) \/ Crash(p)
      PROVE  ReplayInv'
  <2>1. \A q \in Procs : Forgotten(mem[q]).alone = FALSE /\ Closed.open = FALSE
    BY Lists, ForgottenTyped
  <2>2. \A q \in Procs : ~(mem'[q].open /\ mem'[q].alone)
    BY <1>4, <2>1, CutEffect
  <2> QED BY <2>2 DEF ReplayInv
<1>5. ASSUME NEW p \in Procs, Close(p) \/ Open(p)
      PROVE  ReplayInv'
  <2>1. UNCHANGED <<entries, file, lock, op>> /\ \A q \in Procs \ {p} : mem'[q] = mem[q]
    BY <1>5, TypeParts DEF Close, Open
  <2>2. /\ Nodes' = Nodes /\ Metas' = Metas /\ (Dirty' <=> Dirty)
        /\ Labelled(file)' = Labelled(file)
    BY <2>1 DEF Nodes, Metas, Labelled, Labels, Dirty, Before
  <2>3. ASSUME NEW q \in Procs \ {p}, mem'[q].open, mem'[q].alone
        PROVE  /\ ~Dirty'
               /\ Remembers(mem[q], file, IF op[q] # 0 /\ entries[op[q]].type = "meta"
                                          THEN op[q] ELSE LastRead(file, Metas))'
    <3>1. mem'[q] = mem[q] /\ mem[q].open /\ mem[q].alone
      BY <2>1, <2>3
    <3>2. ~Dirty /\ Remembers(mem[q], file, IF op[q] # 0 /\ entries[op[q]].type = "meta"
                                            THEN op[q] ELSE LastRead(file, Metas))
      BY <3>1 DEF ReplayInv
    <3> QED BY <2>1, <2>2, <3>1, <3>2 DEF Remembers
  <2>4. ASSUME mem'[p].open, mem'[p].alone
        PROVE  /\ ~Dirty'
               /\ Remembers(mem[p], file, IF op[p] # 0 /\ entries[op[p]].type = "meta"
                                          THEN op[p] ELSE LastRead(file, Metas))'
    <3>1. mem \in [Procs -> Memory] /\ Len(file) \in Nat /\ file \in Seq(Piece)
      BY TypeParts, Lists
    <3>2. Open(p)
      BY <1>5, <2>4, <3>1 DEF Close, Closed
    <3>3. mem'[p] = [Replay(file) EXCEPT !.alone = Ended]
      BY <3>1, <3>2 DEF Open
    <3>4. /\ mem'[p].open = TRUE /\ mem'[p].nodes = Readable(file) \intersect Nodes
          /\ mem'[p].leaf = LastRead(file, Nodes) /\ mem'[p].labels = Labelled(file)
          /\ mem'[p].title = LastRead(file, Metas) /\ mem'[p].alone = Ended
      BY <3>3 DEF Replay, Labelled
    <3>5. Ended
      BY <2>4, <3>4
    <3>6. op[p] = 0 /\ ~Dirty
      <4>1. op[p] = 0 /\ Before = Len(file)
        BY <3>5 DEF Ended, WriterInv, Before
      <4>2. Len(file) > 0 => file[Len(file)].part = "tail"
        BY <3>1, <3>5, EmptySeq DEF Ended, Last
      <4> QED BY <4>1, <4>2 DEF Dirty
    <3> QED BY <2>1, <2>2, <3>4, <3>5, <3>6 DEF Remembers
  <2> QED BY <2>3, <2>4 DEF ReplayInv
<1> QED BY <1>1, <1>2, <1>3, <1>4, <1>5, StepsOf

-----------------------------------------------------------------------------
(* The tree.                                                                *)

LEMMA TreeBegin ==
  ASSUME TypeOK, WriterInv, EntriesInv, TreeInv, NEW p \in Procs, BeginSteps(p)
  PROVE  TreeInv'
<1> DEFINE n == Len(entries) + 1
<1>1. PICK x \in Entry :
         /\ n \in Ids /\ entries' = Append(entries, x) /\ UNCHANGED faults
         /\ mem' = [q \in Procs |-> IF x.type = "meta" /\ q = p
                                    THEN [mem[q] EXCEPT !.title = n] ELSE mem[q]]
  BY BeginMemory
<1> HIDE DEF n
<1>2. \A e \in DOMAIN entries : entries'[e] = entries[e] /\ (e \in Nodes' <=> e \in Nodes)
  BY <1>1, KindsKept
<1>3. \A q \in Procs : mem'[q].open = mem[q].open /\ mem'[q].nodes = mem[q].nodes
  BY <1>1, TypeParts DEF Memory
<1>4. SUFFICES ASSUME faults = 0
               PROVE  /\ ~Dirty'
                      /\ \A e \in Readable(file') \intersect Nodes' :
                            entries'[e].parent \in (Readable(file') \intersect Nodes') \union {0}
                      /\ \A q \in Procs : mem'[q].open =>
                            /\ mem'[q].nodes \subseteq Readable(file') \intersect Nodes'
                            /\ \A e \in mem'[q].nodes :
                                  entries'[e].parent \in mem'[q].nodes \union {0}
  BY <1>1 DEF TreeInv
<1>5. /\ ~Dirty
      /\ \A e \in Readable(file) \intersect Nodes :
            entries[e].parent \in (Readable(file) \intersect Nodes) \union {0}
      /\ \A q \in Procs : mem[q].open =>
            /\ mem[q].nodes \subseteq Readable(file) \intersect Nodes
            /\ \A e \in mem[q].nodes : entries[e].parent \in mem[q].nodes \union {0}
  BY <1>4 DEF TreeInv
<1>6. ~Dirty' /\ Readable(file') = Readable(file) /\ Readable(file) \subseteq DOMAIN entries
  <2>1. Starts(file') = Starts(file) /\ ~Dirty' /\ \A i \in DOMAIN file : file'[i] = file[i]
    BY <1>5, LinesBegin, FullIsRead
  <2>2. \A i \in Starts(file) : i \in DOMAIN file
    BY ReadableTyped
  <2> QED BY <2>1, <2>2 DEF EntriesInv, Readable
<1>7. Readable(file') \intersect Nodes' = Readable(file) \intersect Nodes
  BY <1>2, <1>6
<1>8. \A e \in Readable(file) \intersect Nodes : entries'[e] = entries[e]
  BY <1>2, <1>6
<1> QED BY <1>3, <1>5, <1>6, <1>7, <1>8

LEMMA TreeFinish ==
  ASSUME TypeOK, WriterInv, EntriesInv, TreeInv, NEW p \in Procs, Finish(p)
  PROVE  TreeInv'
<1> DEFINE e == op[p]
<1>1. /\ e # 0 /\ UNCHANGED <<entries, faults>>
      /\ mem' = [q \in Procs |-> IF q = p THEN With(mem[p], e) ELSE Forgotten(mem[q])]
  BY FinishEffect
<1>2. /\ mem[p].open /\ mem[p] \in Memory /\ e \in DOMAIN entries
      /\ entries[e].parent \in mem[p].nodes \union {0}
  BY <1>1, Lists, Writing DEF WriterInv
<1>3. Nodes' = Nodes
  BY <1>1 DEF Nodes
<1>4. SUFFICES ASSUME faults = 0
               PROVE  /\ ~Dirty'
                      /\ \A d \in Readable(file') \intersect Nodes :
                            entries[d].parent \in (Readable(file') \intersect Nodes) \union {0}
                      /\ \A q \in Procs : mem'[q].open =>
                            /\ mem'[q].nodes \subseteq Readable(file') \intersect Nodes
                            /\ \A d \in mem'[q].nodes :
                                  entries[d].parent \in mem'[q].nodes \union {0}
  BY <1>1, <1>3 DEF TreeInv
<1>5. /\ ~Dirty
      /\ \A d \in Readable(file) \intersect Nodes :
            entries[d].parent \in (Readable(file) \intersect Nodes) \union {0}
      /\ \A q \in Procs : mem[q].open =>
            /\ mem[q].nodes \subseteq Readable(file) \intersect Nodes
            /\ \A d \in mem[q].nodes : entries[d].parent \in mem[q].nodes \union {0}
  BY <1>4 DEF TreeInv
<1>6. ~Dirty' /\ Readable(file') = Readable(file) \union {e}
  <2>1. Readable(file) = Complete(file) /\ Starts(file') = Full(file') /\ ~Dirty'
    BY <1>5, FullIsRead, LinesFinish
  <2>2. Complete(file') = Complete(file) \union {e}
    BY <1>5, LinesFinish
  <2>3. Readable(file') = Complete(file')
    BY <2>1 DEF Readable, Complete
  <2> QED BY <2>1, <2>2, <2>3
<1>7. /\ \A q \in Procs \ {p} : mem'[q].open = mem[q].open /\ mem'[q].nodes = mem[q].nodes
      /\ mem'[p].nodes = mem[p].nodes \union ({e} \intersect Nodes)
  <2>1. \A q \in Procs : /\ Forgotten(mem[q]).open = mem[q].open
                         /\ Forgotten(mem[q]).nodes = mem[q].nodes
    BY Lists, ForgottenTyped
  <2>2. With(mem[p], e).nodes = mem[p].nodes \union ({e} \intersect Nodes)
    <3>1. CASE entries[e].type = "meta"
      BY <3>1 DEF With, Nodes
    <3>2. CASE entries[e].type # "meta"
      <4>1. With(mem[p], e).nodes = mem[p].nodes \union {e}
        BY <1>2, <3>2 DEF With, Memory
      <4> QED BY <1>2, <3>2, <4>1 DEF Nodes
    <3> QED BY <3>1, <3>2
  <2> HIDE DEF e
  <2> QED BY <1>1, <2>1, <2>2
<1> HIDE DEF e
<1>8. /\ mem[p].nodes \subseteq Readable(file) \intersect Nodes
      /\ \A d \in mem[p].nodes : entries[d].parent \in mem[p].nodes \union {0}
  BY <1>2, <1>5
<1>9. \A d \in Readable(file') \intersect Nodes :
         entries[d].parent \in (Readable(file') \intersect Nodes) \union {0}
  BY <1>2, <1>5, <1>6, <1>8
<1>10. ASSUME NEW q \in Procs, mem'[q].open
       PROVE  /\ mem'[q].nodes \subseteq Readable(file') \intersect Nodes
              /\ \A d \in mem'[q].nodes : entries[d].parent \in mem'[q].nodes \union {0}
  <2>1. CASE q = p
    BY <1>2, <1>6, <1>7, <1>8, <2>1
  <2>2. CASE q # p
    <3>1. mem[q].open /\ mem'[q].nodes = mem[q].nodes
      BY <1>7, <1>10, <2>2
    <3> QED BY <1>5, <1>6, <3>1
  <2> QED BY <2>1, <2>2
<1> QED BY <1>6, <1>9, <1>10

LEMMA TreeKept ==
  ASSUME TypeOK, WriterInv, EntriesInv, TreeInv, [Next]_vars
  PROVE  TreeInv'
<1>1. CASE UNCHANGED lines
  BY <1>1 DEF TreeInv, Nodes, Dirty, Before, lines
<1>2. ASSUME NEW p \in Procs, BeginSteps(p)
      PROVE  TreeInv'
  BY <1>2, TreeBegin
<1>3. ASSUME NEW p \in Procs, Finish(p)
      PROVE  TreeInv'
  BY <1>3, TreeFinish
<1>4. ASSUME NEW p \in Procs, Fail(p) \/ Crash(p)
      PROVE  TreeInv'
  <2>1. faults \in Nat /\ faults' = faults + 1
    BY <1>4, CutEffect, TypeParts, Bounds
  <2>2. faults' # 0
    BY <2>1
  <2> QED BY <2>2 DEF TreeInv
<1>5. ASSUME NEW p \in Procs, Close(p) \/ Open(p)
      PROVE  TreeInv'
  <2>1. /\ UNCHANGED <<entries, file, lock, faults>> /\ \A q \in Procs \ {p} : mem'[q] = mem[q]
        /\ mem \in [Procs -> Memory]
    BY <1>5, TypeParts DEF Close, Open
  <2>2. Nodes' = Nodes /\ (Dirty' <=> Dirty)
    BY <2>1 DEF Nodes, Dirty, Before
  <2>3. mem'[p].open => mem'[p].nodes = Readable(file) \intersect Nodes
    <3>1. CASE Close(p)
      BY <2>1, <3>1 DEF Close, Closed
    <3>2. CASE Open(p)
      BY <2>1, <3>2 DEF Open, Replay
    <3> QED BY <1>5, <3>1, <3>2
  <2>4. CASE faults = 0
    <3>1. /\ ~Dirty
          /\ \A e \in Readable(file) \intersect Nodes :
                entries[e].parent \in (Readable(file) \intersect Nodes) \union {0}
          /\ \A q \in Procs : mem[q].open =>
                /\ mem[q].nodes \subseteq Readable(file) \intersect Nodes
                /\ \A e \in mem[q].nodes : entries[e].parent \in mem[q].nodes \union {0}
      BY <2>4 DEF TreeInv
    <3>2. ASSUME NEW q \in Procs, mem'[q].open
          PROVE  /\ mem'[q].nodes \subseteq Readable(file) \intersect Nodes
                 /\ \A e \in mem'[q].nodes : entries[e].parent \in mem'[q].nodes \union {0}
      <4>1. CASE q = p
        BY <2>3, <3>1, <3>2, <4>1
      <4>2. CASE q # p
        BY <2>1, <3>1, <3>2, <4>2
      <4> QED BY <4>1, <4>2
    <3> QED BY <2>1, <2>2, <3>1, <3>2 DEF TreeInv
  <2> QED BY <2>1, <2>4 DEF TreeInv
<1> QED BY <1>1, <1>2, <1>3, <1>4, <1>5, StepsOf

-----------------------------------------------------------------------------
(* A set of numbers in order.                                               *)

Rising(s) == \A i, j \in DOMAIN s : i < j => s[i] < s[j]

LEMMA RisingInjective ==
  ASSUME NEW n \in Nat, NEW es \in SUBSET Nat, NEW s \in [1..n -> es], Rising(s)
  PROVE  IsInjective(s)
<1>1. \A i \in 1..n : i \in Nat /\ s[i] \in es
  OBVIOUS
<1>2. \A i \in 1..n : s[i] \in Nat
  BY <1>1
<1>3. \A i, j \in 1..n : i < j => s[i] < s[j]
  BY DEF Rising
<1>4. ASSUME NEW i \in 1..n, NEW j \in 1..n, s[i] = s[j]
      PROVE  i = j
  BY <1>1, <1>2, <1>3, <1>4
<1> QED BY <1>4 DEF IsInjective

LEMMA RisingOnto ==
  ASSUME NEW es \in SUBSET Nat, IsFiniteSet(es), NEW s \in [1..Cardinality(es) -> es], Rising(s)
  PROVE  \A e \in es : \E i \in DOMAIN s : s[i] = e
<1> DEFINE n == Cardinality(es)
<1>1. n \in Nat /\ IsFiniteSet(1..n) /\ Cardinality(1..n) = n
  BY FS_CardinalityType, FS_Interval
<1>2. IsInjective(s)
  BY <1>1, RisingInjective
<1>3. s \in Injection(1..n, es)
  BY <1>2 DEF Injection
<1>4. s \in Surjection(1..n, es)
  BY <1>1, <1>3, FS_Injection
<1> QED BY <1>4 DEF Surjection

LEMMA RisingExists ==
  ASSUME NEW es \in SUBSET Nat, NEW b \in Nat, \A e \in es : e <= b
  PROVE  \E s \in [1..Cardinality(es) -> es] : Rising(s)
<1> DEFINE Bad(S) == S \subseteq es /\ ~\E s \in [1..Cardinality(S) -> S] : Rising(s)
           sizes == {n \in Nat : \E S \in SUBSET es : Bad(S) /\ Cardinality(S) = n}
<1>1. IsFiniteSet(es) /\ \A S \in SUBSET es : IsFiniteSet(S) /\ Cardinality(S) \in Nat
  BY FS_BoundedSetOfNaturals, FS_Subset, FS_CardinalityType
<1> SUFFICES ASSUME Bad(es)
             PROVE  FALSE
  OBVIOUS
<1>2. sizes \in SUBSET Nat /\ sizes # {}
  BY <1>1
<1> HIDE DEF sizes, Bad
<1>3. PICK n \in sizes : \A k \in sizes : n <= k
  BY <1>2, HasLeast
<1>4. PICK S \in SUBSET es : Bad(S) /\ Cardinality(S) = n
  BY <1>3 DEF sizes
<1>5. n \in Nat /\ IsFiniteSet(S)
  BY <1>1, <1>4
<1>6. S # {}
  <2> SUFFICES ASSUME S = {}
               PROVE  FALSE
    OBVIOUS
  <2>1. Cardinality(S) = 0
    BY FS_EmptySet
  <2>2. [i \in 1..0 |-> i] \in [1..0 -> S] /\ Rising([i \in 1..0 |-> i])
    BY DEF Rising
  <2> QED BY <1>4, <2>1, <2>2 DEF Bad
<1> DEFINE m == Max(S)
           R == S \ {m}
<1>7. m \in S /\ \A e \in S : e <= m
  BY <1>6, HasGreatest
<1> HIDE DEF m
<1>8. IsFiniteSet(R) /\ Cardinality(R) = n - 1 /\ n - 1 \in Nat /\ R \in SUBSET es
  <2>1. IsFiniteSet(R) /\ Cardinality(R) = n - 1
    BY <1>4, <1>5, <1>7, FS_RemoveElement
  <2> QED BY <1>1, <2>1
<1>9. ~Bad(R)
  BY <1>3, <1>5, <1>8 DEF sizes
<1>10. PICK s \in [1..(n - 1) -> R] : Rising(s)
  BY <1>8, <1>9 DEF Bad
<1> DEFINE t == [i \in 1..n |-> IF i = n THEN m ELSE s[i]]
<1>11. \A i \in 1..n : i # n => i \in 1..(n - 1) /\ i < n
  BY <1>5
<1>12. t \in [1..n -> S]
  BY <1>7, <1>10, <1>11
<1>13. Rising(t)
  <2> SUFFICES ASSUME NEW i \in 1..n, NEW j \in 1..n, i < j
               PROVE  t[i] < t[j]
    BY DEF Rising
  <2>1. i # n
    BY <1>5
  <2>2. t[i] = s[i] /\ s[i] \in R /\ i \in DOMAIN s
    BY <1>11, <2>1
  <2>3. CASE j = n
    <3>1. t[j] = m /\ s[i] \in Nat /\ m \in Nat /\ s[i] # m /\ s[i] <= m
      BY <1>4, <1>7, <2>2, <2>3
    <3> QED BY <2>2, <3>1
  <2>4. CASE j # n
    BY <1>10, <1>11, <2>2, <2>4 DEF Rising
  <2> QED BY <2>3, <2>4
<1> HIDE DEF t
<1> QED BY <1>4, <1>12, <1>13 DEF Bad

LEMMA InOrderIs ==
  ASSUME NEW es \in SUBSET Nat, NEW b \in Nat, \A e \in es : e <= b
  PROVE  /\ IsFiniteSet(es) /\ Cardinality(es) \in Nat
         /\ InOrder(es) \in [1..Cardinality(es) -> es] /\ Rising(InOrder(es))
         /\ \A e \in es : \E i \in 1..Cardinality(es) : InOrder(es)[i] = e
<1>1. IsFiniteSet(es) /\ Cardinality(es) \in Nat
  BY FS_BoundedSetOfNaturals, FS_CardinalityType
<1>2. \E s \in [1..Cardinality(es) -> es] : \A i, j \in DOMAIN s : i < j => s[i] < s[j]
  BY RisingExists DEF Rising
<1>3. InOrder(es) \in [1..Cardinality(es) -> es] /\ Rising(InOrder(es))
  BY <1>2 DEF InOrder, Rising
<1> QED BY <1>1, <1>3, RisingOnto

\* Of two such sequences that are equal before i, neither is above the other at i.
LEMMA RisingAtMost ==
  ASSUME NEW n \in Nat, NEW es \in SUBSET Nat, NEW s \in [1..n -> es], NEW t \in [1..n -> es],
         Rising(s), Rising(t), \A e \in es : \E j \in 1..n : t[j] = e,
         NEW i \in 1..n, \A k \in 1..n : k < i => s[k] = t[k]
  PROVE  t[i] <= s[i]
<1>1. \A k \in 1..n : k \in Nat /\ s[k] \in es /\ t[k] \in es
  OBVIOUS
<1>2. \A k \in 1..n : s[k] \in Nat /\ t[k] \in Nat
  BY <1>1
<1>3. \A k, l \in 1..n : k < l => s[k] < s[l] /\ t[k] < t[l]
  BY DEF Rising
<1>4. PICK j \in 1..n : t[j] = s[i]
  BY <1>1
<1>5. ~(j < i)
  BY <1>2, <1>3, <1>4
<1>6. j = i \/ i < j
  BY <1>1, <1>5
<1> QED BY <1>2, <1>3, <1>4, <1>6

\* Whatever enumerates the set and rises is the set in order.
LEMMA InOrderUnique ==
  ASSUME NEW es \in SUBSET Nat, NEW b \in Nat, \A e \in es : e <= b,
         NEW n \in Nat, NEW t \in [1..n -> es], Rising(t), \A e \in es : \E i \in 1..n : t[i] = e
  PROVE  InOrder(es) = t
<1> DEFINE s == InOrder(es)
<1>1. /\ IsFiniteSet(es) /\ s \in [1..Cardinality(es) -> es] /\ Rising(s)
      /\ \A e \in es : \E i \in 1..Cardinality(es) : s[i] = e
  BY InOrderIs
<1>2. Cardinality(es) = n
  <2>1. IsInjective(t)
    BY RisingInjective
  <2>2. t \in Bijection(1..n, es)
    BY <2>1 DEF Bijection, Injection, Surjection
  <2> QED BY <2>2, FS_CountingElements DEF ExistsBijection
<1> HIDE DEF s
<1> DEFINE differ == {i \in 1..n : s[i] # t[i]}
<1>3. s \in [1..n -> es] /\ \A e \in es : \E i \in 1..n : s[i] = e
  BY <1>1, <1>2
<1>4. \A i \in 1..n : i \in Nat /\ s[i] \in es /\ t[i] \in es
  BY <1>3
<1>5. differ = {}
  <2> SUFFICES ASSUME differ # {}
               PROVE  FALSE
    OBVIOUS
  <2>1. differ \in SUBSET Nat
    OBVIOUS
  <2> HIDE DEF differ
  <2>2. PICK i \in differ : \A k \in differ : i <= k
    BY <2>1, HasLeast
  <2>3. i \in 1..n /\ s[i] # t[i]
    BY <2>2 DEF differ
  <2>4. \A k \in 1..n : k \notin differ => s[k] = t[k]
    BY DEF differ
  <2>5. \A k \in 1..n : k < i => k \notin differ
    BY <1>4, <2>2, <2>3
  <2>6. t[i] <= s[i]
    BY <1>1, <1>3, <2>3, <2>4, <2>5, RisingAtMost
  <2>7. s[i] <= t[i]
    BY <1>1, <1>3, <2>3, <2>4, <2>5, RisingAtMost
  <2>8. s[i] \in Nat /\ t[i] \in Nat
    BY <1>4, <2>3
  <2> QED BY <2>3, <2>6, <2>7, <2>8
<1>6. s = t
  BY <1>3, <1>5
<1> QED BY <1>6 DEF s

-----------------------------------------------------------------------------
(* The repaired history, message by message.                                *)

\* The equation of the fold: what it gives for a set of positions.
Folding(msgs, D, f) ==
    f = [s \in SUBSET D |-> IF s = {} THEN <<>>
                            ELSE f[s \ {Max(s)}] \o Mended(msgs, msgs[Max(s)])]

LEMMA RepairedFolds ==
  ASSUME NEW msgs, \E f : Folding(msgs, DOMAIN msgs, f)
  PROVE  \E f : Folding(msgs, DOMAIN msgs, f) /\ Repaired(msgs) = f[DOMAIN msgs]
BY Zenon DEF Repaired, FoldLeft, MapThenFoldSet, Folding

LEMMA GreatestIs ==
  ASSUME NEW n \in Nat, NEW s \in SUBSET (1..n)
  PROVE  /\ s # {} => Max(s) \in s
         /\ n \in s => Max(s) = n
<1>1. s \in SUBSET Nat /\ \A y \in s : y <= n
  OBVIOUS
<1>2. s # {} => Max(s) \in s /\ \A y \in s : y <= Max(s)
  BY <1>1, HasGreatest
<1>3. ASSUME n \in s
      PROVE  Max(s) = n
  <2>1. Max(s) \in Nat /\ Max(s) <= n /\ n <= Max(s)
    BY <1>1, <1>2, <1>3
  <2> QED BY <2>1
<1> QED BY <1>2, <1>3

LEMMA FoldingExists ==
  ASSUME NEW msgs, NEW n \in Nat
  PROVE  \E f : Folding(msgs, 1..n, f)
<1> DEFINE wrong == {k \in Nat : ~\E f : Folding(msgs, 1..k, f)}
<1> SUFFICES ASSUME wrong # {}
             PROVE  FALSE
  OBVIOUS
<1>1. wrong \in SUBSET Nat
  OBVIOUS
<1> HIDE DEF wrong
<1>2. PICK k \in wrong : \A l \in wrong : k <= l
  BY <1>1, HasLeast
<1>3. k \in Nat /\ ~\E f : Folding(msgs, 1..k, f)
  BY <1>2 DEF wrong
<1>4. CASE k = 0
  <2> DEFINE f == [s \in SUBSET (1..k) |-> <<>>]
  <2>1. 1..k = {}
    BY <1>4
  <2>2. \A s \in SUBSET (1..k) : s = {}
    BY <2>1
  <2>3. Folding(msgs, 1..k, f)
    BY <2>2 DEF Folding
  <2> QED BY <1>3, <2>3
<1>5. CASE k # 0
  <2>1. k - 1 \in Nat /\ k - 1 < k
    BY <1>3, <1>5
  <2>2. k - 1 \notin wrong
    BY <1>2, <1>3, <2>1
  <2>3. PICK g : Folding(msgs, 1..(k - 1), g)
    BY <2>1, <2>2 DEF wrong
  <2>4. \A s \in SUBSET (1..(k - 1)) :
           g[s] = IF s = {} THEN <<>> ELSE g[s \ {Max(s)}] \o Mended(msgs, msgs[Max(s)])
    BY <2>3 DEF Folding
  <2> DEFINE f == [s \in SUBSET (1..k) |-> IF k \in s THEN g[s \ {k}] \o Mended(msgs, msgs[k]) ELSE g[s]]
             h(s) == IF s = {} THEN <<>> ELSE f[s \ {Max(s)}] \o Mended(msgs, msgs[Max(s)])
  <2>5. \A s \in SUBSET (1..k) : s \ {k} \in SUBSET (1..(k - 1)) /\ s \ {k} \in SUBSET (1..k)
    BY <1>3
  <2>6. ASSUME NEW s \in SUBSET (1..k)
        PROVE  f[s] = h(s)
    <3>1. CASE k \in s
      <4>1. Max(s) = k /\ s # {}
        BY <1>3, <3>1, GreatestIs
      <4>2. f[s \ {k}] = g[s \ {k}]
        BY <2>5
      <4> QED BY <3>1, <4>1, <4>2
    <3>2. CASE k \notin s
      <4>1. s \in SUBSET (1..(k - 1)) /\ f[s] = g[s]
        BY <2>5, <3>2
      <4>2. \A t \in SUBSET s : f[t] = g[t]
        BY <3>2
      <4>3. f[s \ {Max(s)}] = g[s \ {Max(s)}]
        BY <4>2
      <4> HIDE DEF f
      <4> QED BY <2>4, <4>1, <4>3
    <3> QED BY <3>1, <3>2
  <2>7. f = [s \in SUBSET (1..k) |-> f[s]]
    OBVIOUS
  <2> HIDE DEF f
  <2>8. [s \in SUBSET (1..k) |-> f[s]] = [s \in SUBSET (1..k) |-> h(s)]
    BY <2>6
  <2>9. Folding(msgs, 1..k, f)
    BY <2>7, <2>8 DEF Folding
  <2> QED BY <1>3, <2>9
<1> QED BY <1>4, <1>5

\* What the repair has written after each message.
LEMMA RepairedSteps ==
  ASSUME NEW msgs, NEW n \in Nat, DOMAIN msgs = 1..n
  PROVE  \E out : /\ out[0] = <<>> /\ Repaired(msgs) = out[n]
                  /\ \A i \in 1..n : out[i] = out[i - 1] \o Mended(msgs, msgs[i])
<1>1. PICK f : Folding(msgs, 1..n, f) /\ Repaired(msgs) = f[1..n]
  BY FoldingExists, RepairedFolds
<1>2. \A s \in SUBSET (1..n) :
         f[s] = IF s = {} THEN <<>> ELSE f[s \ {Max(s)}] \o Mended(msgs, msgs[Max(s)])
  BY <1>1 DEF Folding
<1> DEFINE out == [i \in 0..n |-> f[1..i]]
<1>3. out[0] = <<>>
  <2>1. 1..0 = {} /\ 0 \in 0..n
    OBVIOUS
  <2> QED BY <1>2, <2>1
<1>4. out[n] = f[1..n]
  OBVIOUS
<1>5. ASSUME NEW i \in 1..n
      PROVE  out[i] = out[i - 1] \o Mended(msgs, msgs[i])
  <2>1. /\ i \in Nat /\ i \in 0..n /\ i - 1 \in 0..n /\ 1..i \in SUBSET (1..n)
        /\ i \in 1..i /\ (1..i) \ {i} = 1..(i - 1)
    OBVIOUS
  <2>2. Max(1..i) = i /\ 1..i # {}
    BY <2>1, GreatestIs
  <2>3. f[1..i] = f[(1..i) \ {i}] \o Mended(msgs, msgs[i])
    BY <1>2, <2>1, <2>2
  <2> QED BY <2>1, <2>3
<1> HIDE DEF out
<1> QED BY <1>1, <1>3, <1>4, <1>5

\* A repaired message, and one that is followed by a result that is made up.
Mends == [msg : Message, new : BOOLEAN]
Orphan(msgs, m) == m.type = "call" /\ m.call \in Unanswered(msgs)

LEMMA MendsAre ==
  ASSUME NEW m \in Message
  PROVE  /\ Original(m) \in Mends /\ MadeUp(m) \in Mends
         /\ Original(m).msg = m /\ Original(m).new = FALSE
         /\ MadeUp(m).msg = Result(m.call) /\ MadeUp(m).new = TRUE
<1>1. m.call \in 0..MaxCalls
  BY DEF Message
<1>2. Result(m.call) \in Message
  BY <1>1 DEF Result, Message
<1> QED BY <1>2 DEF Original, MadeUp, Mends

\* Some messages repaired so far: where each of the first i stands (at), with the
\* result that is made up for it, and that nothing else is written.
Layout(msgs, out, at, i) ==
    /\ out \in Seq(Mends)
    /\ at \in [1..i -> 1..Len(out)] /\ Rising(at)
    /\ \A j \in 1..i : out[at[j]] = Original(msgs[j])
    /\ \A j \in 1..i : Orphan(msgs, msgs[j]) =>
          at[j] + 1 \in 1..Len(out) /\ out[at[j] + 1] = MadeUp(msgs[j])
    /\ \A q \in 1..Len(out) :
          \/ \E j \in 1..i : q = at[j]
          \/ \E j \in 1..i : q = at[j] + 1 /\ Orphan(msgs, msgs[j])

LEMMA OneOrTwo ==
  ASSUME NEW S, NEW s \in Seq(S), NEW x \in S, NEW y \in S
  PROVE  /\ Len(s) \in Nat
         /\ s \o <<x>> \in Seq(S) /\ Len(s \o <<x>>) = Len(s) + 1
         /\ \A i \in 1..Len(s) : (s \o <<x>>)[i] = s[i]
         /\ (s \o <<x>>)[Len(s) + 1] = x
         /\ s \o <<x, y>> \in Seq(S) /\ Len(s \o <<x, y>>) = Len(s) + 2
         /\ \A i \in 1..Len(s) : (s \o <<x, y>>)[i] = s[i]
         /\ (s \o <<x, y>>)[Len(s) + 1] = x /\ (s \o <<x, y>>)[Len(s) + 2] = y
<1>1. /\ <<x>> \in Seq(S) /\ Len(<<x>>) = 1 /\ <<x>>[1] = x
      /\ <<x, y>> \in Seq(S) /\ Len(<<x, y>>) = 2 /\ <<x, y>>[1] = x /\ <<x, y>>[2] = y
      /\ Len(s) \in Nat
  BY LenProperties
<1> DEFINE t == <<x>>  u == <<x, y>>
<1> HIDE DEF t, u
<1>2. /\ s \o t \in Seq(S) /\ Len(s \o t) = Len(s) + Len(t)
      /\ \A i \in 1..(Len(s) + Len(t)) : (s \o t)[i] = IF i <= Len(s) THEN s[i] ELSE t[i - Len(s)]
  BY <1>1, ConcatProperties DEF t
<1>3. /\ s \o u \in Seq(S) /\ Len(s \o u) = Len(s) + Len(u)
      /\ \A i \in 1..(Len(s) + Len(u)) : (s \o u)[i] = IF i <= Len(s) THEN s[i] ELSE u[i - Len(s)]
  BY <1>1, ConcatProperties DEF u
<1>4. Len(t) = 1 /\ t[1] = x /\ Len(u) = 2 /\ u[1] = x /\ u[2] = y
  BY <1>1 DEF t, u
<1>5. /\ \A i \in 1..Len(s) : (s \o t)[i] = s[i]
      /\ (s \o t)[Len(s) + 1] = x
  BY <1>1, <1>2, <1>4
<1>6. /\ \A i \in 1..Len(s) : (s \o u)[i] = s[i]
      /\ (s \o u)[Len(s) + 1] = x /\ (s \o u)[Len(s) + 2] = y
  BY <1>1, <1>3, <1>4
<1> QED BY <1>1, <1>2, <1>3, <1>4, <1>5, <1>6 DEF t, u

LEMMA LayoutGrows ==
  ASSUME NEW n \in Nat, NEW msgs \in [1..n -> Message], NEW i \in 1..n,
         NEW out, NEW at, Layout(msgs, out, at, i - 1)
  PROVE  \E at2 : Layout(msgs, out \o Mended(msgs, msgs[i]), at2, i)
<1> DEFINE m == msgs[i]
           orphan == Orphan(msgs, msgs[i])
           out2 == out \o Mended(msgs, msgs[i])
           l == Len(out)
           at2 == [j \in 1..i |-> IF j = i THEN l + 1 ELSE at[j]]
<1>1. m \in Message /\ i \in Nat /\ out \in Seq(Mends) /\ l \in Nat
  BY LenProperties DEF Layout
<1>2. /\ Original(m) \in Mends /\ MadeUp(m) \in Mends
  BY <1>1, MendsAre
<1>3. Mended(msgs, msgs[i]) = IF orphan THEN <<Original(m), MadeUp(m)>> ELSE <<Original(m)>>
  BY DEF Mended, Orphan
<1>4. /\ out2 \in Seq(Mends) /\ Len(out2) = IF orphan THEN l + 2 ELSE l + 1
      /\ \A q \in 1..l : out2[q] = out[q]
      /\ out2[l + 1] = Original(m) /\ (orphan => out2[l + 2] = MadeUp(m))
  BY <1>1, <1>2, <1>3, OneOrTwo
<1> HIDE DEF out2, m
<1>5. \A j \in 1..i : j = i \/ j \in 1..(i - 1)
  BY <1>1
<1>6. \A j \in 1..(i - 1) : j \in 1..i /\ j # i /\ j < i /\ at2[j] = at[j] /\ at[j] \in 1..l
  BY <1>1 DEF Layout
<1>7. at2[i] = l + 1 /\ i \in 1..i
  BY <1>1
<1>8. 1..l \subseteq 1..Len(out2) /\ l + 1 \in 1..Len(out2) /\ (orphan => l + 2 \in 1..Len(out2))
  BY <1>1, <1>4
<1>9. at2 \in [1..i -> 1..Len(out2)]
  BY <1>5, <1>6, <1>7, <1>8
<1>10. Rising(at2)
  <2> SUFFICES ASSUME NEW j \in 1..i, NEW k \in 1..i, j < k
               PROVE  at2[j] < at2[k]
    BY DEF Rising
  <2>1. j \in 1..(i - 1)
    BY <1>1, <1>5
  <2>2. CASE k = i
    <3>1. at2[j] \in 1..l /\ at2[k] = l + 1
      BY <1>6, <1>7, <2>1, <2>2
    <3> QED BY <1>1, <3>1
  <2>3. CASE k # i
    <3>1. k \in 1..(i - 1) /\ 1..(i - 1) = DOMAIN at
      BY <1>5, <2>3 DEF Layout
    <3>2. at[j] < at[k]
      BY <2>1, <3>1 DEF Layout, Rising
    <3> QED BY <1>6, <2>1, <3>1, <3>2
  <2> QED BY <2>2, <2>3
<1> HIDE DEF at2
<1>11. \A j \in 1..i : out2[at2[j]] = Original(msgs[j])
  <2>1. \A j \in 1..(i - 1) : out2[at2[j]] = Original(msgs[j])
    BY <1>4, <1>6 DEF Layout
  <2> QED BY <1>4, <1>5, <1>7, <2>1 DEF m
<1>12. ASSUME NEW j \in 1..i, Orphan(msgs, msgs[j])
       PROVE  at2[j] + 1 \in 1..Len(out2) /\ out2[at2[j] + 1] = MadeUp(msgs[j])
  <2>1. CASE j = i
    <3>1. orphan /\ at2[j] + 1 = l + 2
      BY <1>1, <1>7, <1>12, <2>1
    <3> QED BY <1>4, <1>8, <2>1, <3>1 DEF m
  <2>2. CASE j # i
    <3>1. j \in 1..(i - 1) /\ at2[j] = at[j]
      BY <1>5, <1>6, <2>2
    <3>2. at[j] + 1 \in 1..l /\ out[at[j] + 1] = MadeUp(msgs[j])
      BY <1>12, <3>1 DEF Layout
    <3> QED BY <1>4, <1>8, <3>1, <3>2
  <2> QED BY <2>1, <2>2
<1>13. ASSUME NEW q \in 1..Len(out2)
       PROVE  \/ \E j \in 1..i : q = at2[j]
              \/ \E j \in 1..i : q = at2[j] + 1 /\ Orphan(msgs, msgs[j])
  <2>1. q \in 1..l \/ q = l + 1 \/ (orphan /\ q = l + 2)
    BY <1>1, <1>4
  <2>2. CASE q \in 1..l
    BY <1>6, <2>2 DEF Layout
  <2>3. CASE q = l + 1
    BY <1>7, <2>3
  <2>4. CASE orphan /\ q = l + 2
    <3>1. q = at2[i] + 1
      BY <1>1, <1>7, <2>4
    <3> QED BY <1>7, <2>4, <3>1
  <2> QED BY <2>1, <2>2, <2>3, <2>4
<1>14. Layout(msgs, out2, at2, i)
  BY <1>4, <1>9, <1>10, <1>11, <1>12, <1>13 DEF Layout
<1> QED BY <1>14 DEF out2

LEMMA RepairedIs ==
  ASSUME NEW n \in Nat, NEW msgs \in [1..n -> Message]
  PROVE  \E at : Layout(msgs, Repaired(msgs), at, n)
<1>1. PICK out : /\ out[0] = <<>> /\ Repaired(msgs) = out[n]
                 /\ \A i \in 1..n : out[i] = out[i - 1] \o Mended(msgs, msgs[i])
  BY RepairedSteps
<1> DEFINE wrong == {i \in 0..n : ~\E at : Layout(msgs, out[i], at, i)}
<1>2. wrong = {}
  <2> SUFFICES ASSUME wrong # {}
               PROVE  FALSE
    OBVIOUS
  <2>1. wrong \in SUBSET Nat
    OBVIOUS
  <2> HIDE DEF wrong
  <2>2. PICK i \in wrong : \A k \in wrong : i <= k
    BY <2>1, HasLeast
  <2>3. i \in 0..n /\ i \in Nat /\ ~\E at : Layout(msgs, out[i], at, i)
    BY <2>2 DEF wrong
  <2>4. CASE i = 0
    <3> DEFINE at == [j \in 1..0 |-> 1]
    <3>1. out[i] \in Seq(Mends) /\ Len(out[i]) = 0
      BY <1>1, <2>4, EmptySeq
    <3>2. 1..0 = {} /\ at \in [1..0 -> 1..0] /\ Rising(at)
      BY DEF Rising
    <3>3. Layout(msgs, out[i], at, i)
      BY <2>4, <3>1, <3>2 DEF Layout
    <3> QED BY <2>3, <3>3
  <2>5. CASE i # 0
    <3>1. i \in 1..n /\ i - 1 \in 0..n /\ i - 1 < i
      BY <2>3, <2>5
    <3>2. i - 1 \notin wrong
      BY <2>2, <2>3, <3>1
    <3>3. PICK at : Layout(msgs, out[i - 1], at, i - 1)
      BY <3>1, <3>2 DEF wrong
    <3>4. \E at2 : Layout(msgs, out[i - 1] \o Mended(msgs, msgs[i]), at2, i)
      BY <3>1, <3>3, LayoutGrows
    <3> QED BY <1>1, <2>3, <3>1, <3>4
  <2> QED BY <2>4, <2>5
<1> HIDE DEF wrong
<1>3. n \in 0..n
  OBVIOUS
<1>4. \E at : Layout(msgs, out[n], at, n)
  BY <1>2, <1>3 DEF wrong
<1> QED BY <1>1, <1>4

\* The repair of a history, position by position.
LEMMA RepairIs ==
  ASSUME NEW msgs \in Seq(Message)
  PROVE  /\ \E at : Layout(msgs, Repaired(msgs), at, Len(msgs))
         /\ Len(msgs) \in Nat /\ msgs \in [1..Len(msgs) -> Message]
         /\ Repaired(msgs) \in Seq(Mends) /\ Repair(msgs) \in Seq(Message)
<1>1. Len(msgs) \in Nat /\ msgs \in [1..Len(msgs) -> Message]
  BY LenProperties
<1>2. \E at : Layout(msgs, Repaired(msgs), at, Len(msgs))
  BY <1>1, RepairedIs
<1>3. Repaired(msgs) \in Seq(Mends)
  BY <1>2 DEF Layout
<1> DEFINE out == Repaired(msgs)
<1>4. DOMAIN out = 1..Len(out) /\ Len(out) \in Nat /\ \A i \in 1..Len(out) : out[i] \in Mends
  BY <1>3, LenProperties, ElementOfSeq
<1>5. Repair(msgs) = [i \in 1..Len(out) |-> out[i].msg]
  BY <1>4 DEF Repair
<1> HIDE DEF out
<1>6. \A i \in 1..Len(out) : out[i].msg \in Message
  BY <1>4 DEF Mends
<1>7. Repair(msgs) \in Seq(Message)
  BY <1>4, <1>5, <1>6, IsASeq
<1> QED BY <1>1, <1>2, <1>3, <1>7

-----------------------------------------------------------------------------
(* What a process shows its agent.                                          *)

\* The entries shown, in their order.
LEMMA BranchIs ==
  ASSUME TypeOK, NEW nodes \in SUBSET DOMAIN entries, NEW leaf
  PROVE  LET es == Shown(nodes, leaf)
             s == Branch(nodes, leaf)
         IN  /\ s \in Seq(DOMAIN entries) /\ Len(s) \in Nat /\ DOMAIN s = 1..Len(s) /\ Rising(s)
             /\ \A i \in 1..Len(s) : s[i] \in es /\ s[i] \in Nat
             /\ \A e \in es : \E i \in 1..Len(s) : s[i] = e
<1> DEFINE es == Shown(nodes, leaf)
           s == Branch(nodes, leaf)
           n == Cardinality(es)
<1>1. DOMAIN entries = 1..Len(entries) /\ Len(entries) \in Nat
  BY Lists
<1>2. es \subseteq DOMAIN entries
  BY DEF Shown, Path
<1> HIDE DEF es
<1>3. es \in SUBSET Nat /\ \A e \in es : e <= Len(entries)
  BY <1>1, <1>2
<1>4. /\ n \in Nat /\ s \in [1..n -> es] /\ Rising(s)
      /\ \A e \in es : \E i \in 1..n : s[i] = e
  BY <1>1, <1>3, InOrderIs DEF Branch, es
<1> HIDE DEF s, n
<1>5. s \in [1..n -> DOMAIN entries]
  BY <1>2, <1>4
<1>6. s \in Seq(DOMAIN entries) /\ Len(s) = n /\ DOMAIN s = 1..n
  BY <1>4, <1>5, IsASeq, LenProperties
<1>7. \A i \in 1..n : s[i] \in es /\ s[i] \in Nat
  BY <1>3, <1>4
<1> QED BY <1>4, <1>6, <1>7 DEF s, es

\* Only the first of them may be a checkpoint.
LEMMA CheckpointFirst ==
  ASSUME TypeOK, NEW nodes \in SUBSET DOMAIN entries, NEW leaf,
         NEW i \in 1..Len(Branch(nodes, leaf)),
         i > 1 \/ entries[Branch(nodes, leaf)[1]].type # "compact"
  PROVE  entries[Branch(nodes, leaf)[i]].type = "message"
<1> DEFINE es == Shown(nodes, leaf)
           s == Branch(nodes, leaf)
<1>1. /\ Len(s) \in Nat /\ DOMAIN s = 1..Len(s) /\ Rising(s)
      /\ \A k \in 1..Len(s) : s[k] \in es /\ s[k] \in Nat
  BY BranchIs
<1>2. \A a, b \in es : entries[b].type = "compact" => b <= a
  BY DEF Shown
<1>3. \A a \in es : entries[a].type \in {"message", "compact"}
  BY DEF Shown
<1> HIDE DEF s, es
<1>4. 1 \in 1..Len(s) /\ i \in 1..Len(s)
  BY <1>1 DEF s
<1>5. CASE i > 1
  <2>1. s[1] < s[i]
    BY <1>1, <1>4, <1>5 DEF Rising
  <2>2. entries[s[i]].type # "compact"
    BY <1>1, <1>2, <1>4, <2>1
  <2> QED BY <1>1, <1>3, <1>4, <2>2 DEF s
<1>6. CASE ~(i > 1)
  <2>1. i = 1
    BY <1>1, <1>4, <1>6
  <2> QED BY <1>1, <1>3, <1>4, <1>6, <2>1 DEF s
<1> QED BY <1>5, <1>6

\* What is behind the checkpoint, if there is one: a list without its first, or all.
LEMMA BehindIs ==
  ASSUME NEW s \in Seq(DOMAIN entries), NEW b, NEW f,
         (s # <<>> /\ b = Tail(s) /\ f = 1) \/ (b = s /\ f = 0)
  PROVE  /\ b \in Seq(DOMAIN entries) /\ Len(b) = Len(s) - f /\ Len(b) \in Nat
         /\ \A i \in 1..Len(b) : i + f \in 1..Len(s) /\ b[i] = s[i + f]
<1>1. Len(s) \in Nat
  BY LenProperties
<1>2. CASE s # <<>> /\ b = Tail(s) /\ f = 1
  <2>1. /\ Tail(s) \in Seq(DOMAIN entries) /\ Len(Tail(s)) = Len(s) - 1
        /\ \A i \in 1..(Len(s) - 1) : Tail(s)[i] = s[i + 1]
    BY <1>2, HeadTailProperties
  <2>2. Len(Tail(s)) \in Nat
    BY <2>1, LenProperties
  <2> QED BY <1>1, <1>2, <2>1, <2>2
<1>3. CASE b = s /\ f = 0
  BY <1>1, <1>3
<1> QED BY <1>2, <1>3

LEMMA MessagesJoin ==
  ASSUME NEW a \in Seq(Message), NEW b \in Seq(Message)
  PROVE  /\ a \o b \in Seq(Message) /\ Len(a \o b) = Len(a) + Len(b)
         /\ Len(a) \in Nat /\ Len(b) \in Nat
         /\ \A i \in 1..(Len(a) + Len(b)) :
               (a \o b)[i] = IF i <= Len(a) THEN a[i] ELSE b[i - Len(a)]
BY ConcatProperties, LenProperties

\* The messages are those that the checkpoint holds and one of each other entry.
LEMMA HistoryIs ==
  ASSUME TypeOK, EntriesInv, NEW nodes \in SUBSET DOMAIN entries, NEW leaf
  PROVE  LET s == Branch(nodes, leaf)
             h == Len(Held(s))
             first == IF s # <<>> /\ entries[s[1]].type = "compact" THEN 1 ELSE 0
         IN  /\ Held(s) \in Seq(Message) /\ History(s) \in Seq(Message)
             /\ h \in Nat /\ Len(History(s)) = h + Len(s) - first
             /\ \A i \in 1..Len(History(s)) :
                   IF i <= h THEN History(s)[i] = Held(s)[i]
                   ELSE LET e == s[i - h + first]
                        IN  /\ i - h + first \in 1..Len(s)
                            /\ e \in DOMAIN entries /\ entries[e].type = "message"
                            /\ History(s)[i] = entries[e].msgs[1]
<1> DEFINE s == Branch(nodes, leaf)
           compact == s # <<>> /\ entries[s[1]].type = "compact"
           first == IF compact THEN 1 ELSE 0
           behind == Behind(s)
           msgs == [i \in 1..Len(behind) |-> entries[behind[i]].msgs[1]]
<1>1. /\ s \in Seq(DOMAIN entries) /\ Len(s) \in Nat /\ DOMAIN s = 1..Len(s)
      /\ \A i \in 1..Len(s) : s[i] \in DOMAIN entries
  BY BranchIs, ElementOfSeq
<1>2. \A i \in 1..Len(s) : i > 1 \/ entries[s[1]].type # "compact" => entries[s[i]].type = "message"
  BY CheckpointFirst
<1>3. \A e \in DOMAIN entries : /\ entries[e].msgs \in Seq(Message)
                                /\ entries[e].type = "message" => entries[e].msgs[1] \in Message
  <2> SUFFICES ASSUME NEW e \in DOMAIN entries
               PROVE  /\ entries[e].msgs \in Seq(Message)
                      /\ entries[e].type = "message" => entries[e].msgs[1] \in Message
    OBVIOUS
  <2>1. entries[e].msgs \in Seq(Message)
    BY Lists DEF Entry
  <2>2. entries[e].type = "message" => 1 \in 1..Len(entries[e].msgs)
    BY DEF EntriesInv
  <2> QED BY <2>1, <2>2, ElementOfSeq
<1> HIDE DEF s
<1>4. Held(s) \in Seq(Message) /\ Len(Held(s)) \in Nat
  <2>1. s # <<>> => s[1] \in DOMAIN entries
    BY <1>1, EmptySeq
  <2>2. Held(s) \in Seq(Message)
    BY <1>3, <2>1, EmptySeq DEF Held
  <2> QED BY <2>2, LenProperties
<1>5. /\ behind \in Seq(DOMAIN entries) /\ Len(behind) = Len(s) - first /\ Len(behind) \in Nat
      /\ \A i \in 1..Len(behind) : i + first \in 1..Len(s) /\ behind[i] = s[i + first]
  <2>1. (s # <<>> /\ behind = Tail(s) /\ first = 1) \/ (behind = s /\ first = 0)
    BY DEF Behind
  <2>2. s \in Seq(DOMAIN entries)
    BY <1>1
  <2> HIDE DEF behind, first
  <2> QED BY <2>1, <2>2, BehindIs
<1>6. \A i \in 1..Len(behind) : /\ s[i + first] \in DOMAIN entries
                                /\ entries[s[i + first]].type = "message"
  <2> SUFFICES ASSUME NEW i \in 1..Len(behind)
               PROVE  /\ s[i + first] \in DOMAIN entries
                      /\ entries[s[i + first]].type = "message"
    OBVIOUS
  <2>1. i \in Nat /\ i > 0 /\ i + first \in 1..Len(s)
    BY <1>5
  <2>2. i + first > 1 \/ entries[s[1]].type # "compact"
    <3>1. CASE compact
      <4>1. first = 1
        BY <3>1
      <4> QED BY <2>1, <4>1
    <3>2. CASE ~compact
      <4>1. s # <<>>
        BY <1>1, <2>1, EmptySeq
      <4> QED BY <3>2, <4>1
    <3> QED BY <3>1, <3>2
  <2> QED BY <1>1, <1>2, <2>1, <2>2
<1>7. /\ msgs \in Seq(Message) /\ Len(msgs) = Len(behind)
      /\ \A i \in 1..Len(behind) : msgs[i] = entries[s[i + first]].msgs[1]
  <2>1. \A i \in 1..Len(behind) : entries[behind[i]].msgs[1] = entries[s[i + first]].msgs[1]
    BY <1>5
  <2>2. msgs \in [1..Len(behind) -> Message]
    BY <1>3, <1>6, <2>1
  <2> QED BY <1>5, <2>1, <2>2, IsASeq, LenProperties
<1>8. History(s) = Held(s) \o msgs
  BY DEF History
<1> HIDE DEF msgs, behind, first
<1>9. /\ History(s) \in Seq(Message) /\ Len(History(s)) = Len(Held(s)) + Len(msgs)
      /\ \A i \in 1..(Len(Held(s)) + Len(msgs)) :
            History(s)[i] = IF i <= Len(Held(s)) THEN Held(s)[i] ELSE msgs[i - Len(Held(s))]
  <2>1. Held(s) \in Seq(Message) /\ msgs \in Seq(Message)
    BY <1>4, <1>7
  <2>2. LET hs == Held(s) \o msgs
        IN  /\ hs \in Seq(Message) /\ Len(hs) = Len(Held(s)) + Len(msgs)
            /\ \A i \in 1..(Len(Held(s)) + Len(msgs)) :
                  hs[i] = IF i <= Len(Held(s)) THEN Held(s)[i] ELSE msgs[i - Len(Held(s))]
    BY <2>1, MessagesJoin, Zenon
  <2> QED BY <1>8, <2>2, Zenon
<1>10. Len(History(s)) = Len(Held(s)) + Len(s) - first
  BY <1>1, <1>4, <1>5, <1>7, <1>9 DEF first
<1>11. ASSUME NEW i \in 1..Len(History(s)), ~(i <= Len(Held(s)))
       PROVE  LET e == s[i - Len(Held(s)) + first]
              IN  /\ i - Len(Held(s)) + first \in 1..Len(s)
                  /\ e \in DOMAIN entries /\ entries[e].type = "message"
                  /\ History(s)[i] = entries[e].msgs[1]
  <2>1. i - Len(Held(s)) \in 1..Len(behind)
    BY <1>4, <1>5, <1>7, <1>9, <1>11
  <2>2. i \in 1..(Len(Held(s)) + Len(msgs))
    BY <1>9, <1>11
  <2> QED BY <1>5, <1>6, <1>7, <1>9, <1>11, <2>1, <2>2
<1>12. \A i \in 1..Len(History(s)) : i <= Len(Held(s)) => History(s)[i] = Held(s)[i]
  BY <1>9
<1> QED BY <1>4, <1>9, <1>10, <1>11, <1>12 DEF first, s

-----------------------------------------------------------------------------
(* What an agent has.                                                       *)

LEMMA IdleTyped == Idle \in Agent
<1>1. 0 \in 0..MaxCalls
  BY Bounds
<1> QED BY <1>1 DEF Idle, Agent

LEMMA AdoptedTyped ==
  ASSUME TypeOK, EntriesInv, NEW m, m.nodes \subseteq DOMAIN entries
  PROVE  Adopted(m) \in Seq(Message)
<1>1. History(Branch(m.nodes, m.leaf)) \in Seq(Message)
  BY HistoryIs
<1> QED BY <1>1, RepairIs DEF Adopted

LEMMA AgentsTypeKept ==
  ASSUME TypeOK, EntriesInv, [Next]_vars
  PROVE  AgentsTyped'
<1>1. /\ agent \in [Procs -> Agent] /\ calls \in 0..MaxCalls
      /\ \A p \in Procs : /\ agent[p] \in Agent /\ agent[p].told \in Seq(Message)
                          /\ agent[p].due \in Seq(Message) /\ agent[p].running \in 0..MaxCalls
  BY TypeParts DEF Agent
<1>2. CASE UNCHANGED <<agent, calls>>
  BY <1>1, <1>2 DEF AgentsTyped
<1>3. ASSUME NEW p \in Procs, NEW a \in Agent, agent' = [agent EXCEPT ![p] = a],
             calls' \in 0..MaxCalls
      PROVE  AgentsTyped'
  BY <1>1, <1>3 DEF AgentsTyped
<1>4. ASSUME NEW p \in Procs, NEW told \in Seq(Message), NEW due \in Seq(Message),
             NEW running \in 0..MaxCalls, calls' \in 0..MaxCalls,
             agent' = [agent EXCEPT ![p] = [told |-> told, running |-> running, due |-> due]]
      PROVE  AgentsTyped'
  BY <1>3, <1>4 DEF Agent
<1>6. ASSUME NEW p \in Procs, NEW told \in Seq(Message), UNCHANGED calls,
             agent' = [agent EXCEPT ![p].told = told]
      PROVE  AgentsTyped'
  <2>1. [agent[p] EXCEPT !.told = told] \in Agent
    BY <1>1 DEF Agent
  <2> QED BY <1>1, <1>6, <2>1 DEF AgentsTyped
<1>7. ASSUME NEW p \in Procs, AppendTurn(p)
      PROVE  AgentsTyped'
  <2>1. /\ agent[p].due # <<>> /\ UNCHANGED calls
        /\ agent' = [agent EXCEPT ![p].due = Tail(agent[p].due)]
    BY <1>7 DEF AppendTurn
  <2>2. Tail(agent[p].due) \in Seq(Message)
    BY <2>1, BeginMsgs
  <2>3. [agent[p] EXCEPT !.due = Tail(agent[p].due)] \in Agent
    BY <1>1, <2>2 DEF Agent
  <2> QED BY <1>1, <2>1, <2>3 DEF AgentsTyped
<1>8. ASSUME NEW p \in Procs, AppendCompact(p)
      PROVE  AgentsTyped'
  <2>1. PICK k \in 1..(Len(agent[p].told) + 1) :
           agent' = [agent EXCEPT ![p].told =
                        <<Text>> \o SubSeq(agent[p].told, k, Len(agent[p].told))]
    BY <1>8 DEF AppendCompact
  <2>2. UNCHANGED calls
    BY <1>8 DEF AppendCompact
  <2> QED BY <1>6, <2>1, <2>2, BeginMsgs
<1>9. ASSUME NEW p \in Procs, Crash(p) \/ Close(p)
      PROVE  AgentsTyped'
  BY <1>1, <1>3, <1>9, IdleTyped DEF Crash, Close
<1>10. ASSUME NEW p \in Procs, Open(p)
       PROVE  AgentsTyped'
  <2>1. mem'[p] = [Replay(file) EXCEPT !.alone = Ended]
    BY <1>10, TypeParts DEF Open
  <2>2. mem'[p].nodes = Readable(file) \intersect Nodes
    BY <2>1 DEF Replay
  <2>3. mem'[p].nodes \subseteq DOMAIN entries
    BY <2>2 DEF Nodes
  <2>4. Adopted(mem'[p]) \in Seq(Message)
    BY <2>3, AdoptedTyped
  <2>5. UNCHANGED calls /\ agent' = [agent EXCEPT ![p].told = Adopted(mem'[p])]
    BY <1>10 DEF Open
  <2> QED BY <1>6, <2>4, <2>5
<1>11. ASSUME NEW p \in Procs, Adopt(p)
       PROVE  AgentsTyped'
  <2>1. Adopted(mem[p]) \in Seq(Message)
    BY AdoptedTyped DEF EntriesInv
  <2> QED BY <1>6, <1>11, <2>1 DEF Adopt
<1>12. ASSUME NEW p \in Procs, BeginTurn(p)
       PROVE  AgentsTyped'
  <2>1. /\ calls' \in 0..MaxCalls
        /\ agent' = [agent EXCEPT ![p] = [told |-> Append(agent[p].told, Call(calls')),
                                          running |-> calls', due |-> agent[p].due]]
    BY <1>1, <1>12, Bounds DEF BeginTurn
  <2>2. Call(calls') \in Message
    BY <2>1 DEF Call, Message
  <2>3. Append(agent[p].told, Call(calls')) \in Seq(Message) /\ agent[p].due \in Seq(Message)
    BY <1>1, <2>2, AppendProperties
  <2> QED BY <1>4, <2>1, <2>3
<1>13. ASSUME NEW p \in Procs, EndTurn(p)
       PROVE  AgentsTyped'
  <2> DEFINE c == agent[p].running
             turns == {<<Call(c), Result(c)>>, <<Call(c)>>}
  <2>1. Call(c) \in Message /\ Result(c) \in Message
    BY <1>1 DEF Call, Result, Message
  <2>2. \A turn \in turns : turn \in Seq(Message) /\ Tail(turn) \in Seq(Message)
    <3> HIDE DEF c
    <3>1. \A x, y \in Message : /\ <<x>> \in Seq(Message) /\ Tail(<<x>>) \in Seq(Message)
                                /\ <<x, y>> \in Seq(Message) /\ Tail(<<x, y>>) \in Seq(Message)
      OBVIOUS
    <3> QED BY <2>1, <3>1
  <2>3. PICK turn \in turns :
           agent' = [agent EXCEPT ![p] = [told |-> agent[p].told \o Tail(turn), running |-> 0,
                                          due |-> agent[p].due \o turn]]
    BY <1>13 DEF EndTurn
  <2>4. agent[p].told \o Tail(turn) \in Seq(Message) /\ agent[p].due \o turn \in Seq(Message)
    BY <1>1, <2>2, MessagesJoin
  <2>5. calls' \in 0..MaxCalls /\ 0 \in 0..MaxCalls
    BY <1>1, <1>13, Bounds DEF EndTurn
  <2> QED BY <1>4, <2>3, <2>4, <2>5
<1>14. ASSUME NEW p \in Procs, EndRun(p)
       PROVE  AgentsTyped'
  <2>1. Repair(agent[p].told) \in Seq(Message)
    BY <1>1, RepairIs
  <2>2. UNCHANGED calls /\ agent' = [agent EXCEPT ![p].told = Repair(agent[p].told)]
    BY <1>14 DEF EndRun
  <2> QED BY <1>6, <2>1, <2>2
<1>15. \A p \in Procs : AppendMessage(p) \/ AppendLabel(p) \/ BranchTo(p) \/ SetMeta(p)
                        \/ Finish(p) \/ Fail(p) => UNCHANGED <<agent, calls>>
  BY DEF AppendMessage, AppendLabel, BranchTo, SetMeta, Finish, Fail
<1>16. UNCHANGED vars => UNCHANGED <<agent, calls>>
  BY DEF vars
<1> QED BY <1>2, <1>7, <1>8, <1>9, <1>10, <1>11, <1>12, <1>13, <1>14, <1>15, <1>16 DEF Next

-----------------------------------------------------------------------------
(* The invariant.                                                           *)

LEMMA InvInit == Init => IInv
<1> SUFFICES ASSUME Init
             PROVE  IInv
  OBVIOUS
<1>1. /\ entries = <<>> /\ file = <<>> /\ lock = {} /\ op = [p \in Procs |-> 0]
      /\ agent = [p \in Procs |-> Idle] /\ calls = 0
      /\ opens = 0 /\ acked = {} /\ faults = 0
  BY DEF Init
<1>2. PICK p \in Procs : mem = [q \in Procs |-> IF q = p THEN Fresh ELSE Closed]
  BY DEF Init
<1>3. /\ Closed \in Memory /\ Fresh \in Memory
      /\ Closed.nodes = {} /\ Closed.leaf = 0 /\ Closed.open = FALSE
      /\ Fresh.nodes = {} /\ Fresh.leaf = 0 /\ Fresh.open = TRUE /\ Fresh.alone = TRUE
      /\ Fresh.labels = {} /\ Fresh.title = 0
  <2>1. 0 \in 0..MaxEntries
    BY Bounds
  <2> QED BY <2>1 DEF Memory, Closed, Fresh
<1>4. /\ Len(entries) = 0 /\ Len(file) = 0 /\ DOMAIN entries = {} /\ DOMAIN file = {}
      /\ entries \in Seq(Entry) /\ file \in Seq(Piece)
  <2>1. /\ Len(<<>>) = 0 /\ DOMAIN <<>> = {} /\ <<>> \in Seq(Entry) /\ <<>> \in Seq(Piece)
    BY EmptySeq
  <2> QED BY <1>1, <2>1
<1>5. \A q \in Procs : mem[q] = IF q = p THEN Fresh ELSE Closed
  BY <1>2
<1>6. TypeOK
  <2>1. mem \in [Procs -> Memory] /\ op \in [Procs -> 0..MaxEntries]
    <3>1. 0 \in 0..MaxEntries
      BY Bounds
    <3>2. \A q \in Procs : (IF q = p THEN Fresh ELSE Closed) \in Memory
      BY <1>3
    <3> QED BY <1>1, <1>2, <3>1, <3>2
  <2>2. opens \in 0..MaxOpens /\ faults \in 0..MaxFaults /\ Len(entries) <= MaxEntries
    BY <1>1, <1>4, Bounds
  <2>3. agent \in [Procs -> Agent] /\ calls \in 0..MaxCalls
    BY <1>1, IdleTyped, Bounds
  <2> QED BY <1>1, <1>4, <2>1, <2>2, <2>3, TypeParts
<1>7. WriterInv
  BY <1>1, <1>3, <1>5 DEF WriterInv
<1>8. EntriesInv
  BY <1>1, <1>3, <1>4, <1>5 DEF EntriesInv
<1>9. ~Dirty
  <2>1. Before = 0
    BY <1>1, <1>4 DEF Before
  <2> QED BY <2>1 DEF Dirty
<1>10. LossInv
  <2>1. acked \ Complete(file) = {} /\ Cardinality({}) = 0
    BY <1>1, FS_EmptySet
  <2> QED BY <1>1, <1>9, <2>1 DEF LossInv
<1>11. Starts(file) = {} /\ Readable(file) = {}
  BY <1>4 DEF Starts, Readable
<1>12. \A es : LastRead(file, es) = 0
  BY <1>11 DEF LastRead
<1>13. ReplayInv
  <2>1. Labelled(file) = {}
    BY <1>12 DEF Labelled
  <2>2. \A q \in Procs : op[q] = 0
    BY <1>1
  <2>3. \A q \in Procs : mem[q].open => mem[q] = Fresh
    BY <1>3, <1>5
  <2>4. Remembers(Fresh, file, LastRead(file, Metas))
    BY <1>3, <1>11, <1>12, <2>1 DEF Remembers
  <2> QED BY <1>9, <2>2, <2>3, <2>4 DEF ReplayInv
<1>14. TreeInv
  <2>1. \A q \in Procs : mem[q].nodes = {}
    BY <1>3, <1>5
  <2> QED BY <1>9, <1>11, <2>1 DEF TreeInv
<1> QED BY <1>6, <1>7, <1>8, <1>10, <1>13, <1>14 DEF IInv

LEMMA InvNext == IInv /\ [Next]_vars => IInv'
<1> SUFFICES ASSUME IInv, [Next]_vars
             PROVE  IInv'
  OBVIOUS
<1>1. LinesTyped' /\ AgentsTyped' => TypeOK'
  BY DEF TypeOK, LinesTyped, AgentsTyped, Memory, Agent
<1>2. TypeOK'
  BY <1>1, LinesTypeKept, AgentsTypeKept DEF IInv
<1> QED BY <1>2, WriterKept, EntriesKept, LossKept, ReplayKept, TreeKept DEF IInv

LEMMA InvAlways == Spec => []IInv
BY InvInit, InvNext, PTL DEF Spec

\* Of a tree with the parents of its entries, no entry outside is on a way to the root.
LEMMA PathInside ==
  ASSUME NEW N, NEW R, NEW leaf, N \subseteq R, 0 \notin R, leaf \in N \union {0},
         \A e \in N : entries[e].parent \in N \union {0}
  PROVE  Path(N, leaf) = Path(R, leaf)
<1> DEFINE WithParents(nodes, way) ==
             /\ leaf \in nodes => leaf \in way
             /\ \A a \in way : entries[a].parent \in nodes => entries[a].parent \in way
<1>1. \A nodes : Path(nodes, leaf) =
         {e \in nodes : \A way \in SUBSET nodes : WithParents(nodes, way) => e \in way}
  BY DEF Path
<1>2. ASSUME NEW way \in SUBSET R, WithParents(R, way)
      PROVE  WithParents(N, way \intersect N)
  BY <1>2
<1>3. ASSUME NEW way \in SUBSET N, WithParents(N, way)
      PROVE  WithParents(R, way)
  BY <1>3
<1>4. WithParents(R, N)
  OBVIOUS
<1> HIDE DEF WithParents
<1>5. ASSUME NEW e \in Path(N, leaf)
      PROVE  e \in Path(R, leaf)
  <2>1. e \in R /\ \A way \in SUBSET N : WithParents(N, way) => e \in way
    BY <1>1, <1>5
  <2>2. ASSUME NEW way \in SUBSET R, WithParents(R, way)
        PROVE  e \in way
    <3>1. WithParents(N, way \intersect N) /\ way \intersect N \in SUBSET N
      BY <1>2, <2>2
    <3>2. e \in way \intersect N
      BY <2>1, <3>1
    <3> QED BY <3>2
  <2> QED BY <1>1, <2>1, <2>2
<1>6. ASSUME NEW e \in Path(R, leaf)
      PROVE  e \in Path(N, leaf)
  <2>1. e \in N
    BY <1>1, <1>4, <1>6
  <2>2. \A way \in SUBSET N : way \in SUBSET R
    OBVIOUS
  <2> QED BY <1>1, <1>3, <1>6, <2>1, <2>2
<1> QED BY <1>5, <1>6

-----------------------------------------------------------------------------
(* The repair of any history.                                               *)

\* A call is there at most once, and its result at most once and behind it.
Once(msgs, c) ==
    /\ \A i, j \in 1..Len(msgs) : msgs[i] = msgs[j] /\ msgs[i] \in {Call(c), Result(c)} => i = j
    /\ \A i, j \in 1..Len(msgs) : msgs[i] = Call(c) /\ msgs[j] = Result(c) => i < j

LEMMA CallsAre ==
  /\ \A c \in 1..MaxCalls : Call(c) \in Message /\ Result(c) \in Message
  /\ \A c, d : Call(c) # Result(d) /\ Call(c) # Text /\ Result(c) # Text
  /\ \A c, d : (Call(c) = Call(d) => c = d) /\ (Result(c) = Result(d) => c = d)
  /\ \A c : Call(c).type = "call" /\ Call(c).call = c
  /\ \A m \in Message : m.type = "call" => m = Call(m.call)
<1>1. \A c, d : Call(c) # Result(d) /\ Call(c) # Text /\ Result(c) # Text
  <2>1. \A c : Call(c).type = "call" /\ Result(c).type = "result" /\ Text.type = "text"
    BY DEF Call, Result, Text
  <2> QED BY <2>1
<1>2. \A c, d : (Call(c) = Call(d) => c = d) /\ (Result(c) = Result(d) => c = d)
  <2>1. \A c : Call(c).call = c /\ Result(c).call = c
    BY DEF Call, Result
  <2> QED BY <2>1
<1>3. \A c \in 1..MaxCalls : Call(c) \in Message /\ Result(c) \in Message
  <2>1. \A c \in 1..MaxCalls : c \in 0..MaxCalls
    BY Bounds
  <2> QED BY <2>1 DEF Call, Result, Message
<1>4. \A m \in Message : m.type = "call" => m = Call(m.call)
  BY DEF Message, Call
<1>5. \A c : Call(c).type = "call" /\ Call(c).call = c
  BY DEF Call
<1> QED BY <1>1, <1>2, <1>3, <1>4, <1>5

LEMMA RepairOf ==
  ASSUME NEW msgs \in Seq(Message)
  PROVE  LET out == Repaired(msgs)
             kept == InOrder({i \in 1..Len(out) : ~out[i].new})
             At(m) == {i \in 1..Len(out) : out[i].msg = m}
         IN  /\ [k \in DOMAIN kept |-> out[kept[k]].msg] = msgs
             /\ \A i \in 1..Len(out) : out[i].new =>
                   /\ i > 1 /\ out[i - 1] = Original(Call(out[i].msg.call))
                   /\ out[i].msg = Result(out[i].msg.call) /\ out[i].msg \notin ToSet(msgs)
             /\ \A c \in 1..MaxCalls : Call(c) \in ToSet(msgs) =>
                   /\ At(Result(c)) # {}
                   /\ Once(msgs, c) => \E i, j \in 1..Len(out) :
                         i < j /\ At(Call(c)) = {i} /\ At(Result(c)) = {j}
<1> DEFINE n == Len(msgs)
           out == Repaired(msgs)
           keptAt == {i \in 1..Len(out) : ~out[i].new}
           At(m) == {i \in 1..Len(out) : out[i].msg = m}
<1>1. PICK at : Layout(msgs, out, at, n)
  BY RepairIs
<1>2. n \in Nat /\ DOMAIN msgs = 1..n /\ \A i \in 1..n : msgs[i] \in Message
  BY LenProperties, ElementOfSeq
<1>3. \A m : m \in ToSet(msgs) <=> \E i \in 1..n : msgs[i] = m
  BY <1>2 DEF ToSet
<1> HIDE DEF out, n
<1>4. /\ out \in Seq(Mends) /\ Len(out) \in Nat
      /\ at \in [1..n -> 1..Len(out)] /\ Rising(at)
      /\ \A j \in 1..n : out[at[j]] = Original(msgs[j])
      /\ \A j \in 1..n : Orphan(msgs, msgs[j]) =>
            at[j] + 1 \in 1..Len(out) /\ out[at[j] + 1] = MadeUp(msgs[j])
      /\ \A q \in 1..Len(out) :
            \/ \E j \in 1..n : q = at[j]
            \/ \E j \in 1..n : q = at[j] + 1 /\ Orphan(msgs, msgs[j])
  BY <1>1, LenProperties DEF Layout
<1>5. \A j \in 1..n : at[j] \in 1..Len(out) /\ at[j] \in Nat /\ at[j] > 0 /\ j \in Nat
  <2>1. \A j \in 1..n : at[j] \in 1..Len(out)
    BY <1>4
  <2> QED BY <1>2, <2>1
<1>6. \A j, k \in 1..n : j < k => at[j] < at[k]
  BY <1>4 DEF Rising
<1>7. \A j \in 1..n : ~out[at[j]].new /\ out[at[j]].msg = msgs[j]
  BY <1>2, <1>4, MendsAre
<1>8. \A j \in 1..n : Orphan(msgs, msgs[j]) =>
         /\ at[j] + 1 \in 1..Len(out) /\ out[at[j] + 1].new
         /\ out[at[j] + 1].msg = Result(msgs[j].call)
  <2> SUFFICES ASSUME NEW j \in 1..n, Orphan(msgs, msgs[j])
               PROVE  /\ at[j] + 1 \in 1..Len(out) /\ out[at[j] + 1].new
                      /\ out[at[j] + 1].msg = Result(msgs[j].call)
    OBVIOUS
  <2>1. at[j] + 1 \in 1..Len(out) /\ out[at[j] + 1] = MadeUp(msgs[j])
    BY <1>4
  <2>2. MadeUp(msgs[j]).new = TRUE /\ MadeUp(msgs[j]).msg = Result(msgs[j].call)
    BY <1>2, MendsAre
  <2> QED BY <2>1, <2>2
<1>9. \A q \in 1..Len(out) : ~out[q].new => \E j \in 1..n : q = at[j]
  BY <1>4, <1>8
<1>10. \A q \in 1..Len(out) : out[q].new => \E j \in 1..n : q = at[j] + 1 /\ Orphan(msgs, msgs[j])
  BY <1>4, <1>7
<1>11. \A j \in 1..n : Orphan(msgs, msgs[j]) =>
          /\ msgs[j] = Call(msgs[j].call) /\ Result(msgs[j].call) \notin ToSet(msgs)
          /\ msgs[j].call \in 1..MaxCalls
  BY <1>2, CallsAre DEF Orphan, Unanswered
<1>12. \A j \in 1..n : \A c \in 1..MaxCalls :
          msgs[j] = Call(c) /\ Result(c) \notin ToSet(msgs) => Orphan(msgs, msgs[j])
  <2> SUFFICES ASSUME NEW j \in 1..n, NEW c \in 1..MaxCalls,
                      msgs[j] = Call(c), Result(c) \notin ToSet(msgs)
               PROVE  Orphan(msgs, msgs[j])
    OBVIOUS
  <2>1. msgs[j].type = "call" /\ msgs[j].call = c
    BY CallsAre
  <2>2. Call(c) \in ToSet(msgs)
    BY <1>3
  <2> QED BY <2>1, <2>2 DEF Orphan, Unanswered
<1>13. InOrder(keptAt) = at
  <2>1. keptAt \in SUBSET Nat /\ \A q \in keptAt : q <= Len(out)
    BY <1>4
  <2>2. \A j \in 1..n : at[j] \in keptAt
    BY <1>5, <1>7
  <2>3. \A q \in keptAt : \E j \in 1..n : at[j] = q
    BY <1>9
  <2> HIDE DEF keptAt
  <2>4. at \in [1..n -> keptAt]
    BY <1>4, <2>2
  <2> QED BY <1>2, <1>4, <2>1, <2>3, <2>4, InOrderUnique
<1>14. [k \in DOMAIN at |-> out[at[k]].msg] = msgs
  <2>1. msgs = [k \in 1..n |-> msgs[k]]
    BY <1>2
  <2>2. DOMAIN at = 1..n
    BY <1>4
  <2> QED BY <1>7, <2>1, <2>2
<1>15. ASSUME NEW q \in 1..Len(out), out[q].new
       PROVE  /\ q > 1 /\ out[q - 1] = Original(Call(out[q].msg.call))
              /\ out[q].msg = Result(out[q].msg.call) /\ out[q].msg \notin ToSet(msgs)
  <2>1. PICK j \in 1..n : q = at[j] + 1 /\ Orphan(msgs, msgs[j])
    BY <1>10, <1>15
  <2>2. out[q].msg = Result(msgs[j].call) /\ msgs[j] = Call(msgs[j].call)
    BY <1>8, <1>11, <2>1
  <2>3. out[q].msg.call = msgs[j].call
    BY <2>2 DEF Result
  <2>4. q > 1 /\ q - 1 = at[j]
    BY <1>5, <2>1
  <2>5. out[q - 1] = Original(msgs[j])
    BY <1>4, <2>4
  <2>6. Result(msgs[j].call) \notin ToSet(msgs)
    BY <1>11, <2>1
  <2> QED BY <2>2, <2>3, <2>4, <2>5, <2>6
<1>16. ASSUME NEW c \in 1..MaxCalls, Call(c) \in ToSet(msgs)
       PROVE  /\ At(Result(c)) # {}
              /\ Once(msgs, c) => \E i, j \in 1..Len(out) :
                    i < j /\ At(Call(c)) = {i} /\ At(Result(c)) = {j}
  <2>1. PICK a \in 1..n : msgs[a] = Call(c)
    BY <1>3, <1>16
  <2>2. PICK j \in 1..Len(out) :
           /\ out[j].msg = Result(c)
           /\ \/ j = at[a] + 1 /\ out[j].new /\ Result(c) \notin ToSet(msgs)
              \/ \E k \in 1..n : j = at[k] /\ msgs[k] = Result(c)
    <3>1. CASE Result(c) \in ToSet(msgs)
      <4>1. PICK k \in 1..n : msgs[k] = Result(c)
        BY <1>3, <3>1
      <4> QED BY <1>5, <1>7, <4>1
    <3>2. CASE Result(c) \notin ToSet(msgs)
      <4>1. Orphan(msgs, msgs[a]) /\ msgs[a].call = c
        BY <1>12, <2>1, <3>2, CallsAre
      <4> QED BY <1>8, <3>2, <4>1
    <3> QED BY <3>1, <3>2
  <2>3. At(Result(c)) # {}
    BY <2>2
  <2>4. ASSUME Once(msgs, c)
        PROVE  \E i, k \in 1..Len(out) : i < k /\ At(Call(c)) = {i} /\ At(Result(c)) = {k}
    <3>1. \A k, l \in 1..n : msgs[k] = msgs[l] /\ msgs[k] \in {Call(c), Result(c)} => k = l
      BY <2>4 DEF Once, n
    <3>2. \A k \in 1..n : msgs[k] = Result(c) => a < k
      BY <2>1, <2>4 DEF Once, n
    <3>3. at[a] \in 1..Len(out) /\ at[a] < j
      <4>1. CASE j = at[a] + 1
        BY <1>5, <4>1
      <4>2. CASE \E k \in 1..n : j = at[k] /\ msgs[k] = Result(c)
        BY <1>5, <1>6, <3>2, <4>2
      <4> QED BY <2>2, <4>1, <4>2
    <3>4. ASSUME NEW q \in At(Call(c))
          PROVE  q = at[a]
      <4>1. ~out[q].new
        <5>1. out[q].new => out[q].msg = Result(out[q].msg.call)
          BY <1>15
        <5> QED BY <3>4, <5>1, CallsAre
      <4>2. PICK k \in 1..n : q = at[k]
        BY <1>9, <3>4, <4>1
      <4>3. msgs[k] = Call(c)
        BY <1>7, <3>4, <4>2
      <4> QED BY <2>1, <3>1, <4>2, <4>3
    <3>5. at[a] \in At(Call(c))
      BY <1>5, <1>7, <2>1
    <3>6. ASSUME NEW q \in At(Result(c))
          PROVE  q = j
      <4>1. CASE out[q].new
        <5>1. PICK k \in 1..n : q = at[k] + 1 /\ Orphan(msgs, msgs[k])
          BY <1>10, <3>6, <4>1
        <5>2. msgs[k] = Call(c) /\ Result(c) \notin ToSet(msgs)
          BY <1>8, <1>11, <3>6, <5>1, CallsAre
        <5>3. k = a
          BY <2>1, <3>1, <5>2
        <5>4. j = at[a] + 1
          BY <1>3, <2>2, <5>2
        <5> QED BY <5>1, <5>3, <5>4
      <4>2. CASE ~out[q].new
        <5>1. PICK k \in 1..n : q = at[k]
          BY <1>9, <3>6, <4>2
        <5>2. msgs[k] = Result(c)
          BY <1>7, <3>6, <5>1
        <5>3. PICK l \in 1..n : j = at[l] /\ msgs[l] = Result(c)
          BY <1>3, <2>2, <5>2
        <5> QED BY <3>1, <5>1, <5>2, <5>3
      <4> QED BY <4>1, <4>2
    <3>7. At(Call(c)) = {at[a]} /\ At(Result(c)) = {j}
      BY <2>2, <3>4, <3>5, <3>6
    <3> QED BY <3>3, <3>7
  <2> QED BY <2>3, <2>4
<1> HIDE DEF keptAt, At
<1>17. /\ [k \in DOMAIN InOrder(keptAt) |-> out[InOrder(keptAt)[k]].msg] = msgs
       /\ \A i \in 1..Len(out) : out[i].new =>
             /\ i > 1 /\ out[i - 1] = Original(Call(out[i].msg.call))
             /\ out[i].msg = Result(out[i].msg.call) /\ out[i].msg \notin ToSet(msgs)
       /\ \A c \in 1..MaxCalls : Call(c) \in ToSet(msgs) =>
             /\ At(Result(c)) # {}
             /\ Once(msgs, c) => \E i, j \in 1..Len(out) :
                   i < j /\ At(Call(c)) = {i} /\ At(Result(c)) = {j}
  BY <1>13, <1>14, <1>15, <1>16
<1> QED BY <1>17 DEF keptAt, At, out

-----------------------------------------------------------------------------
(* Calls and their results.                                                 *)

\* The entries of a message, and where it is among those still to be appended.
Says(m) == {e \in DOMAIN entries : entries[e].type = "message" /\ entries[e].msgs[1] = m}
Owed(p, m) == {i \in 1..Len(agent[p].due) : agent[p].due[i] = m}
Busy(p, c) == agent[p].running = c \/ Owed(p, Call(c)) # {} \/ Owed(p, Result(c)) # {}

\* A call and its result are appended once each, in this order, by one process.
OneCall(c) ==
    /\ \A m \in {Call(c), Result(c)} :
          /\ \A e, f \in Says(m) : e = f
          /\ \A p \in Procs : /\ Owed(p, m) # {} => Says(m) = {}
                              /\ \A i, j \in Owed(p, m) : i = j
    /\ \A e \in Says(Call(c)), f \in Says(Result(c)) : e < f
    /\ \A p \in Procs :
          /\ \A i \in Owed(p, Call(c)), j \in Owed(p, Result(c)) : i < j
          /\ Owed(p, Call(c)) # {} => Says(Result(c)) = {}
          /\ agent[p].running = c => /\ Says(Call(c)) = {} /\ Says(Result(c)) = {}
                                     /\ Owed(p, Call(c)) = {} /\ Owed(p, Result(c)) = {}
    /\ \A p, q \in Procs : Busy(p, c) /\ Busy(q, c) => p = q
    /\ c > calls => /\ Says(Call(c)) = {} /\ Says(Result(c)) = {}
                    /\ \A p \in Procs : ~Busy(p, c)

CallsInv == \A c \in 1..MaxCalls : OneCall(c)

LEMMA NewEntry ==
  ASSUME TypeOK, NEW p, NEW type, NEW parent, NEW ref, NEW set, NEW msgs,
         Begin(p, type, parent, ref, set, msgs)
  PROVE  LET n == Len(entries) + 1
         IN  /\ DOMAIN entries' = (DOMAIN entries) \union {n}
             /\ n \in Nat /\ n \notin DOMAIN entries /\ \A e \in DOMAIN entries : e \in Nat /\ e < n
             /\ \A e \in DOMAIN entries : entries'[e] = entries[e]
             /\ entries'[n].type = type /\ entries'[n].msgs = msgs
<1> DEFINE y == [type |-> type, parent |-> parent, ref |-> ref, set |-> set, msgs |-> msgs]
           S == Entry \union {y}
           n == Len(entries) + 1
<1>1. entries' = Append(entries, y) /\ y.type = type /\ y.msgs = msgs
  BY DEF Begin
<1> HIDE DEF y
<1>2. entries \in Seq(S) /\ y \in S
  BY TypeParts, SeqMonotonic
<1> HIDE DEF S
<1>3. /\ DOMAIN entries' = 1..n /\ entries'[n] = y
      /\ \A e \in DOMAIN entries : entries'[e] = entries[e]
  BY <1>1, <1>2, Longer
<1>4. DOMAIN entries = 1..Len(entries) /\ Len(entries) \in Nat
  BY Lists
<1>5. /\ 1..n = (DOMAIN entries) \union {n} /\ n \in Nat /\ n \notin DOMAIN entries
      /\ \A e \in DOMAIN entries : e \in Nat /\ e < n
  BY <1>4
<1> QED BY <1>1, <1>3, <1>5

\* A step that appends no call and no result and makes no call.
LEMMA OneCallQuiet ==
  ASSUME NEW c \in 1..MaxCalls, OneCall(c), UNCHANGED calls,
         \A m \in {Call(c), Result(c)} : Says(m)' = Says(m),
         \A p \in Procs : \/ /\ agent'[p].due = agent[p].due
                             /\ agent'[p].running = agent[p].running
                          \/ agent'[p].due = <<>> /\ agent'[p].running = 0
  PROVE  OneCall(c)'
<1>1. \A p \in Procs : \A m : Owed(p, m)' = Owed(p, m) \/ Owed(p, m)' = {}
  <2>1. Len(<<>>) = 0 /\ 1..0 = {}
    OBVIOUS
  <2> QED BY <2>1 DEF Owed
<1>2. \A p \in Procs : agent'[p].running = c => agent[p].running = c
  BY Bounds
<1>3. \A p \in Procs : Busy(p, c)' => Busy(p, c)
  BY <1>1, <1>2 DEF Busy
<1>4. Says(Call(c))' = Says(Call(c)) /\ Says(Result(c))' = Says(Result(c))
  OBVIOUS
<1> HIDE DEF Says, Owed, Busy
<1> QED BY <1>1, <1>2, <1>3, <1>4 DEF OneCall

\* The steps that begin an entry but not one of a call or a result.
LEMMA QuietBegin ==
  ASSUME TypeOK, NEW p \in Procs, BeginSteps(p), ~AppendTurn(p), NEW c \in 1..MaxCalls
  PROVE  /\ UNCHANGED calls
         /\ \A m \in {Call(c), Result(c)} : Says(m)' = Says(m)
         /\ \A q \in Procs : /\ agent'[q].due = agent[q].due
                             /\ agent'[q].running = agent[q].running
<1>1. ASSUME NEW type, NEW parent, NEW ref, NEW set, NEW msgs,
             Begin(p, type, parent, ref, set, msgs), type = "message" => msgs[1] = Text,
             NEW m \in {Call(c), Result(c)}
      PROVE  Says(m)' = Says(m)
  <2> DEFINE n == Len(entries) + 1
  <2>1. /\ DOMAIN entries' = (DOMAIN entries) \union {n} /\ n \notin DOMAIN entries
        /\ \A e \in DOMAIN entries : entries'[e] = entries[e]
        /\ entries'[n].type = type /\ entries'[n].msgs = msgs
    BY <1>1, NewEntry
  <2> HIDE DEF n
  <2>2. m # Text
    BY CallsAre
  <2> QED BY <1>1, <2>1, <2>2 DEF Says
<1>2. <<Text>>[1] = Text
  BY BeginMsgs
<1>3. \A m \in {Call(c), Result(c)} : Says(m)' = Says(m)
  <2> HIDE DEF Says
  <2>1. CASE AppendMessage(p)
    <3>1. CASE Begin(p, "message", mem[p].leaf, 0, TRUE, <<Text>>)
      BY <1>1, <1>2, <3>1
    <3>2. CASE Begin(p, "custom", mem[p].leaf, 0, TRUE, <<>>)
      BY <1>1, <3>2
    <3> QED BY <2>1, <3>1, <3>2 DEF AppendMessage
  <2>2. CASE AppendCompact(p)
    <3>1. \E msgs : Begin(p, "compact", mem[p].leaf, 0, TRUE, msgs)
      BY <2>2 DEF AppendCompact
    <3>2. PICK msgs : Begin(p, "compact", mem[p].leaf, 0, TRUE, msgs)
      BY <3>1
    <3> QED BY <1>1, <3>2
  <2>3. CASE AppendLabel(p)
    <3>1. \E t, set : Begin(p, "label", mem[p].leaf, t, set, <<>>)
      BY <2>3 DEF AppendLabel
    <3>2. PICK t, set : Begin(p, "label", mem[p].leaf, t, set, <<>>)
      BY <3>1
    <3> QED BY <1>1, <3>2
  <2>4. CASE BranchTo(p)
    <3>1. \E t : Begin(p, "branchSummary", t, mem[p].leaf, TRUE, <<>>)
      BY <2>4 DEF BranchTo
    <3>2. PICK t : Begin(p, "branchSummary", t, mem[p].leaf, TRUE, <<>>)
      BY <3>1
    <3> QED BY <1>1, <3>2
  <2>5. CASE SetMeta(p)
    <3>1. Begin(p, "meta", 0, 0, TRUE, <<>>)
      BY <2>5 DEF SetMeta
    <3> QED BY <1>1, <3>1
  <2> QED BY <2>1, <2>2, <2>3, <2>4, <2>5 DEF BeginSteps
<1>5. agent \in [Procs -> Agent]
  BY TypeParts
<1>6. UNCHANGED calls /\ (UNCHANGED agent \/ \E told : agent' = [agent EXCEPT ![p].told = told])
  BY DEF BeginSteps, AppendMessage, AppendCompact, AppendLabel, BranchTo, SetMeta
<1>7. \A q \in Procs : agent'[q].due = agent[q].due /\ agent'[q].running = agent[q].running
  BY <1>5, <1>6 DEF Agent
<1> QED BY <1>3, <1>6, <1>7

\* The end of a turn is processed.
LEMMA OneCallTurn ==
  ASSUME TypeOK, NEW p \in Procs, AppendTurn(p), NEW c \in 1..MaxCalls, OneCall(c)
  PROVE  OneCall(c)'
<1> DEFINE n == Len(entries) + 1
           due == agent[p].due
<1>1. /\ due # <<>> /\ UNCHANGED calls /\ agent' = [agent EXCEPT ![p].due = Tail(due)]
      /\ Begin(p, "message", mem[p].leaf, 0, TRUE, <<Head(due)>>)
  BY DEF AppendTurn
<1>2. /\ due \in Seq(Message) /\ Head(due) = due[1] /\ agent \in [Procs -> Agent]
      /\ <<Head(due)>>[1] = Head(due)
  BY <1>1, BeginMsgs, TypeParts
<1>3. /\ Len(due) \in Nat /\ 1 \in 1..Len(due) /\ Len(Tail(due)) = Len(due) - 1
      /\ \A i \in 1..(Len(due) - 1) : Tail(due)[i] = due[i + 1]
  BY <1>1, <1>2, HeadTailProperties, LenProperties, EmptySeq
<1>4. /\ DOMAIN entries' = (DOMAIN entries) \union {n} /\ n \notin DOMAIN entries
      /\ \A e \in DOMAIN entries : entries'[e] = entries[e] /\ e \in Nat /\ e < n
      /\ entries'[n].type = "message" /\ entries'[n].msgs[1] = Head(due)
      /\ n \in Nat
  <2> DEFINE held == <<Head(due)>>
  <2>1. Begin(p, "message", mem[p].leaf, 0, TRUE, held) /\ held[1] = Head(due)
    BY <1>1, <1>2
  <2> HIDE DEF held, due
  <2>2. /\ DOMAIN entries' = (DOMAIN entries) \union {n} /\ n \notin DOMAIN entries
        /\ \A e \in DOMAIN entries : entries'[e] = entries[e] /\ e \in Nat /\ e < n
        /\ entries'[n].type = "message" /\ entries'[n].msgs = held
        /\ n \in Nat
    BY <2>1, NewEntry
  <2> QED BY <2>1, <2>2
<1> HIDE DEF n
<1>5. \A m : Says(m)' = Says(m) \union (IF m = due[1] THEN {n} ELSE {})
  BY <1>2, <1>4 DEF Says
<1>6. \A e \in DOMAIN entries : e < n
  BY <1>4
<1>7. \A m : \A e \in Says(m) : e < n
  BY <1>6 DEF Says
<1>8. /\ agent'[p].due = Tail(due) /\ \A q \in Procs : agent'[q].running = agent[q].running
      /\ \A q \in Procs : q # p => agent'[q].due = due \/ agent'[q].due = agent[q].due
      /\ \A q \in Procs : q # p => agent'[q].due = agent[q].due
  BY <1>1, <1>2 DEF Agent
<1>9. \A q \in Procs : q # p => \A m : Owed(q, m)' = Owed(q, m)
  BY <1>8 DEF Owed
<1>10. \A m : \A i \in Owed(p, m)' : i + 1 \in Owed(p, m) /\ i \in Nat /\ i + 1 # 1
  BY <1>3, <1>8 DEF Owed
<1>11. \A m : m = due[1] => 1 \in Owed(p, m)
  BY <1>3 DEF Owed
<1>12. \A m : \A i \in Owed(p, m) : i \in Nat
  BY <1>3 DEF Owed
<1>13. \A q \in Procs : Busy(q, c)' => Busy(q, c)
  BY <1>8, <1>9, <1>10 DEF Busy
<1>14. Call(c) # Result(c)
  BY CallsAre
<1>15. (due[1] = Call(c) \/ due[1] = Result(c)) => Busy(p, c)
  BY <1>11 DEF Busy
<1> HIDE DEF Says, Owed, due
<1>16. ASSUME NEW m \in {Call(c), Result(c)}
       PROVE  /\ \A e, f \in Says(m)' : e = f
              /\ \A q \in Procs : /\ Owed(q, m)' # {} => Says(m)' = {}
                                  /\ \A i, j \in Owed(q, m)' : i = j
  <2>1. /\ \A e, f \in Says(m) : e = f
        /\ \A q \in Procs : /\ Owed(q, m) # {} => Says(m) = {}
                            /\ \A i, j \in Owed(q, m) : i = j
    BY <1>16 DEF OneCall
  <2>2. \A e, f \in Says(m)' : e = f
    BY <1>5, <1>11, <2>1
  <2>3. ASSUME NEW q \in Procs
        PROVE  \A i, j \in Owed(q, m)' : i = j
    <3>1. CASE q = p
      <4>1. \A i, j \in Owed(p, m)' : i + 1 = j + 1 /\ i \in Nat /\ j \in Nat
        BY <1>10, <2>1
      <4> QED BY <3>1, <4>1
    <3>2. CASE q # p
      BY <1>9, <2>1, <3>2
    <3> QED BY <3>1, <3>2
  <2>4. ASSUME NEW q \in Procs, Owed(q, m)' # {}
        PROVE  Says(m)' = {}
    <3>1. Owed(q, m) # {} /\ Says(m) = {}
      <4>1. CASE q = p
        BY <1>10, <2>1, <2>4, <4>1
      <4>2. CASE q # p
        BY <1>9, <2>1, <2>4, <4>2
      <4> QED BY <4>1, <4>2
    <3>2. m # due[1]
      <4> SUFFICES ASSUME m = due[1]
                   PROVE  FALSE
        OBVIOUS
      <4>1. Busy(p, c) /\ Busy(q, c)
        BY <1>15, <1>16, <3>1 DEF Busy
      <4>2. p = q
        BY <4>1 DEF OneCall
      <4>3. PICK i \in Owed(p, m)' : TRUE
        BY <2>4, <4>2
      <4>4. i + 1 \in Owed(p, m) /\ i + 1 # 1 /\ 1 \in Owed(p, m)
        BY <1>10, <1>11, <4>3
      <4> QED BY <2>1, <4>4
    <3> QED BY <1>5, <3>1, <3>2
  <2> QED BY <2>2, <2>3, <2>4
<1>17. \A e \in Says(Call(c))', f \in Says(Result(c))' : e < f
  <2> SUFFICES ASSUME NEW e \in Says(Call(c))', NEW f \in Says(Result(c))'
               PROVE  e < f
    OBVIOUS
  <2>1. CASE due[1] = Call(c)
    <3>1. Owed(p, Call(c)) # {}
      BY <1>11, <2>1
    <3>2. Says(Result(c)) = {}
      BY <3>1 DEF OneCall
    <3> QED BY <1>5, <1>14, <2>1, <3>2
  <2>2. CASE due[1] # Call(c)
    <3>1. e \in Says(Call(c))
      BY <1>5, <2>2
    <3>2. f \in Says(Result(c)) \/ f = n
      BY <1>5
    <3> QED BY <1>7, <3>1, <3>2 DEF OneCall
  <2> QED BY <2>1, <2>2
<1>18. ASSUME NEW q \in Procs
       PROVE  /\ \A i \in Owed(q, Call(c))', j \in Owed(q, Result(c))' : i < j
              /\ Owed(q, Call(c))' # {} => Says(Result(c))' = {}
              /\ agent'[q].running = c => /\ Says(Call(c))' = {} /\ Says(Result(c))' = {}
                                          /\ Owed(q, Call(c))' = {} /\ Owed(q, Result(c))' = {}
  <2>1. \A i \in Owed(q, Call(c))', j \in Owed(q, Result(c))' : i < j
    <3>1. CASE q = p
      <4>1. \A i \in Owed(p, Call(c))', j \in Owed(p, Result(c))' : i + 1 < j + 1 /\ i \in Nat /\ j \in Nat
        BY <1>10 DEF OneCall
      <4> QED BY <3>1, <4>1
    <3>2. CASE q # p
      BY <1>9, <3>2 DEF OneCall
    <3> QED BY <3>1, <3>2
  <2>2. ASSUME Owed(q, Call(c))' # {}
        PROVE  Says(Result(c))' = {}
    <3>1. Owed(q, Call(c)) # {}
      BY <1>9, <1>10, <2>2
    <3>2. Says(Result(c)) = {} /\ Busy(q, c)
      BY <3>1 DEF OneCall, Busy
    <3>3. due[1] # Result(c)
      <4> SUFFICES ASSUME due[1] = Result(c)
                   PROVE  FALSE
        OBVIOUS
      <4>1. p = q
        BY <1>15, <3>2 DEF OneCall
      <4>2. PICK i \in Owed(p, Call(c))' : TRUE
        BY <2>2, <4>1
      <4>3. i + 1 \in Owed(p, Call(c)) /\ 1 \in Owed(p, Result(c)) /\ i \in Nat
        BY <1>10, <1>11, <4>2
      <4>4. i + 1 < 1
        BY <4>3 DEF OneCall
      <4> QED BY <4>3, <4>4
    <3> QED BY <1>5, <3>2, <3>3
  <2>3. ASSUME agent'[q].running = c
        PROVE  /\ Says(Call(c))' = {} /\ Says(Result(c))' = {}
               /\ Owed(q, Call(c))' = {} /\ Owed(q, Result(c))' = {}
    <3>1. agent[q].running = c
      BY <1>8, <2>3
    <3>2. /\ Says(Call(c)) = {} /\ Says(Result(c)) = {}
          /\ Owed(q, Call(c)) = {} /\ Owed(q, Result(c)) = {} /\ Busy(q, c)
      BY <3>1 DEF OneCall, Busy
    <3>3. due[1] # Call(c) /\ due[1] # Result(c)
      <4>1. due[1] = Call(c) \/ due[1] = Result(c) => p = q
        BY <1>15, <3>2 DEF OneCall
      <4> QED BY <1>11, <3>2, <4>1
    <3>4. Owed(q, Call(c))' = {} /\ Owed(q, Result(c))' = {}
      BY <1>9, <1>10, <3>2
    <3> QED BY <1>5, <3>2, <3>3, <3>4
  <2> QED BY <2>1, <2>2, <2>3
<1>19. \A q, r \in Procs : Busy(q, c)' /\ Busy(r, c)' => q = r
  BY <1>13 DEF OneCall
<1>20. c > calls' => /\ Says(Call(c))' = {} /\ Says(Result(c))' = {}
                     /\ \A q \in Procs : ~Busy(q, c)'
  <2> SUFFICES ASSUME c > calls
               PROVE  /\ Says(Call(c))' = {} /\ Says(Result(c))' = {}
                      /\ \A q \in Procs : ~Busy(q, c)'
    BY <1>1
  <2>1. /\ Says(Call(c)) = {} /\ Says(Result(c)) = {} /\ \A q \in Procs : ~Busy(q, c)
    BY DEF OneCall
  <2> QED BY <1>5, <1>13, <1>15, <2>1
<1> HIDE DEF Busy
<1> QED BY <1>16, <1>17, <1>18, <1>19, <1>20 DEF OneCall

\* The model makes a call, which nobody knows yet.
LEMMA OneCallMade ==
  ASSUME TypeOK, NEW p \in Procs, BeginTurn(p), NEW c \in 1..MaxCalls, OneCall(c)
  PROVE  OneCall(c)'
<1>1. /\ calls \in Nat /\ c \in Nat /\ agent \in [Procs -> Agent]
      /\ calls' = calls + 1 /\ agent[p].running = 0 /\ UNCHANGED entries
      /\ agent' = [agent EXCEPT ![p] = [told |-> Append(agent[p].told, Call(calls')),
                                        running |-> calls', due |-> agent[p].due]]
  BY TypeParts, Bounds DEF BeginTurn
<1>2. /\ \A q \in Procs : agent'[q].due = agent[q].due
      /\ agent'[p].running = calls' /\ \A q \in Procs \ {p} : agent'[q].running = agent[q].running
  BY <1>1 DEF Agent
<1>3. \A m : Says(m)' = Says(m) /\ \A q \in Procs : Owed(q, m)' = Owed(q, m)
  BY <1>1, <1>2 DEF Says, Owed
<1>4. CASE c = calls'
  <2>1. /\ Says(Call(c)) = {} /\ Says(Result(c)) = {} /\ \A q \in Procs : ~Busy(q, c)
    BY <1>1, <1>4 DEF OneCall
  <2>2. \A q \in Procs : Owed(q, Call(c)) = {} /\ Owed(q, Result(c)) = {}
    BY <2>1 DEF Busy
  <2>3. \A q \in Procs : Busy(q, c)' => q = p
    BY <1>2, <1>3, <2>1 DEF Busy
  <2>4. ~(c > calls')
    BY <1>1, <1>4
  <2> HIDE DEF Busy, Says, Owed
  <2> QED BY <1>3, <2>1, <2>2, <2>3, <2>4 DEF OneCall
<1>5. CASE c # calls'
  <2>1. \A q \in Procs : agent'[q].running = c => agent[q].running = c
    BY <1>2, <1>5
  <2>2. \A q \in Procs : Busy(q, c)' => Busy(q, c)
    BY <1>3, <2>1 DEF Busy
  <2>3. c > calls' => c > calls
    BY <1>1
  <2> HIDE DEF Busy, Says, Owed
  <2> QED BY <1>3, <2>1, <2>2, <2>3 DEF OneCall
<1> QED BY <1>4, <1>5

\* A turn ends: what it has to store stands last.
LEMMA OneCallEnds ==
  ASSUME TypeOK, NEW p \in Procs, EndTurn(p), NEW c \in 1..MaxCalls, OneCall(c)
  PROVE  OneCall(c)'
<1> DEFINE r == agent[p].running
           due == agent[p].due
           l == Len(due)
<1>1. /\ r # 0 /\ r \in 0..MaxCalls /\ due \in Seq(Message) /\ agent \in [Procs -> Agent]
      /\ UNCHANGED entries /\ UNCHANGED calls
  BY BeginMsgs, TypeParts DEF EndTurn
<1>2. PICK turn \in {<<Call(r), Result(r)>>, <<Call(r)>>} :
         agent' = [agent EXCEPT ![p] = [told |-> agent[p].told \o Tail(turn), running |-> 0,
                                        due |-> due \o turn]]
  BY DEF EndTurn
<1>3. r \in 1..MaxCalls /\ Call(r) \in Message /\ Result(r) \in Message
  BY <1>1, Bounds, CallsAre
<1> DEFINE new == due \o turn
<1>4. /\ agent'[p].due = new /\ agent'[p].running = 0
      /\ \A q \in Procs \ {p} : agent'[q] = agent[q]
  <2> HIDE DEF new
  <2>1. agent' = [agent EXCEPT ![p] = [told |-> agent[p].told \o Tail(turn), running |-> 0,
                                       due |-> new]]
    BY <1>2 DEF new
  <2> QED BY <1>1, <2>1
<1> HIDE DEF r, due
<1>5. /\ l \in Nat
      /\ \/ Len(new) = l + 2 /\ new[l + 1] = Call(r) /\ new[l + 2] = Result(r)
         \/ Len(new) = l + 1 /\ new[l + 1] = Call(r)
      /\ \A i \in 1..l : new[i] = due[i]
  <2>1. CASE turn = <<Call(r), Result(r)>>
    <3>1. new = due \o <<Call(r), Result(r)>>
      BY <2>1
    <3> HIDE DEF new
    <3> QED BY <1>1, <1>3, <3>1, OneOrTwo
  <2>2. CASE turn = <<Call(r)>>
    <3>1. new = due \o <<Call(r)>>
      BY <2>2
    <3> HIDE DEF new
    <3> QED BY <1>1, <1>3, <3>1, OneOrTwo
  <2> QED BY <1>2, <2>1, <2>2
<1> HIDE DEF new
<1>6. \A m : Says(m)' = Says(m) /\ \A q \in Procs : q # p => Owed(q, m)' = Owed(q, m)
  BY <1>1, <1>4 DEF Says, Owed
<1>7. \A m : Owed(p, m) = {i \in 1..l : due[i] = m}
  BY DEF Owed, due, l
<1>8. \A m : Owed(p, m)' = {i \in 1..Len(new) : new[i] = m}
  BY <1>4 DEF Owed
<1> HIDE DEF l
<1>9. \A i \in 1..Len(new) : \/ i \in 1..l
                             \/ i = l + 1 /\ new[i] = Call(r)
                             \/ i = l + 2 /\ new[i] = Result(r)
  BY <1>5
<1>10. ASSUME c # r
       PROVE  OneCall(c)'
  <2>1. \A m \in {Call(c), Result(c)} : m # Call(r) /\ m # Result(r)
    BY <1>10, CallsAre
  <2>2. \A i \in 1..l : i \in 1..Len(new)
    BY <1>5
  <2>3. \A m \in {Call(c), Result(c)} : Owed(p, m)' = Owed(p, m)
    <3> SUFFICES ASSUME NEW m \in {Call(c), Result(c)}
                 PROVE  Owed(p, m)' = Owed(p, m)
      OBVIOUS
    <3>1. \A i \in 1..Len(new) : new[i] = m => i \in 1..l
      BY <1>9, <2>1
    <3>2. \A i \in 1..l : new[i] = due[i] /\ i \in 1..Len(new)
      BY <1>5, <2>2
    <3>3. Owed(p, m) = {i \in 1..l : due[i] = m} /\ Owed(p, m)' = {i \in 1..Len(new) : new[i] = m}
      BY <1>7, <1>8
    <3> HIDE DEF Owed
    <3> QED BY <3>1, <3>2, <3>3
  <2>4. \A q \in Procs : \A m \in {Call(c), Result(c)} : Owed(q, m)' = Owed(q, m)
    BY <1>6, <2>3
  <2>5. \A q \in Procs : agent'[q].running = c => agent[q].running = c
    BY <1>4, Bounds
  <2>6. \A q \in Procs : Busy(q, c)' => Busy(q, c)
    BY <2>4, <2>5 DEF Busy
  <2> HIDE DEF Busy, Says, Owed
  <2> QED BY <1>1, <1>6, <2>4, <2>5, <2>6 DEF OneCall
<1>11. ASSUME c = r
       PROVE  OneCall(c)'
  <2>1. /\ agent[p].running = c /\ Busy(p, c) /\ Says(Call(c)) = {} /\ Says(Result(c)) = {}
        /\ Owed(p, Call(c)) = {} /\ Owed(p, Result(c)) = {}
    BY <1>11 DEF OneCall, Busy, r
  <2>2. \A q \in Procs : Busy(q, c) => q = p
    BY <2>1 DEF OneCall
  <2>3. /\ Owed(p, Call(c))' = {l + 1}
        /\ Owed(p, Result(c))' \subseteq {l + 2}
    <3>1. Call(c) # Result(c)
      BY CallsAre
    <3>2. l + 1 \in 1..Len(new) /\ (new)[l + 1] = Call(c)
      BY <1>5, <1>11
    <3>3. \A i \in 1..l : due[i] # Call(c) /\ due[i] # Result(c)
      BY <1>7, <2>1
    <3>4. \A i \in 1..l : new[i] # Call(c) /\ new[i] # Result(c)
      BY <1>5, <3>3
    <3>5. \A i \in 1..Len(new) : /\ new[i] = Call(c) <=> i = l + 1
                                 /\ new[i] = Result(c) => i = l + 2
      BY <1>9, <1>11, <3>1, <3>2, <3>4
    <3> QED BY <1>8, <3>2, <3>5
  <2>4. \A q \in Procs : q # p => /\ ~Busy(q, c) /\ agent'[q].running = agent[q].running
                                  /\ \A m : Owed(q, m)' = Owed(q, m)
    BY <1>4, <1>6, <2>2
  <2>5. \A q \in Procs : q # p => Owed(q, Call(c)) = {} /\ Owed(q, Result(c)) = {} /\ agent[q].running # c
    BY <2>4 DEF Busy
  <2>6. \A q \in Procs : Busy(q, c)' => q = p
    BY <2>4, <2>5 DEF Busy
  <2>7. ~(c > calls)
    BY <2>1 DEF OneCall
  <2>8. l + 1 < l + 2 /\ agent'[p].running # c
    BY <1>4, <1>5, Bounds
  <2>9. \A q \in Procs : Owed(q, Call(c))' \subseteq {l + 1} /\ Owed(q, Result(c))' \subseteq {l + 2}
    BY <2>3, <2>4, <2>5
  <2>10. \A q \in Procs : agent'[q].running # c
    BY <2>4, <2>5, <2>8
  <2>11. Says(Call(c))' = {} /\ Says(Result(c))' = {}
    BY <1>6, <2>1
  <2> HIDE DEF Busy, Says, Owed
  <2>12. ASSUME NEW m \in {Call(c), Result(c)}
         PROVE  /\ \A e, f \in Says(m)' : e = f
                /\ \A q \in Procs : /\ Owed(q, m)' # {} => Says(m)' = {}
                                    /\ \A i, j \in Owed(q, m)' : i = j
    BY <2>9, <2>11, <2>12
  <2>13. \A q \in Procs : \A i \in Owed(q, Call(c))', j \in Owed(q, Result(c))' : i < j
    BY <2>8, <2>9
  <2> QED BY <1>1, <2>6, <2>7, <2>10, <2>11, <2>12, <2>13 DEF OneCall
<1> QED BY <1>10, <1>11

LEMMA CallsKept ==
  ASSUME TypeOK, CallsInv, [Next]_vars
  PROVE  CallsInv'
<1> SUFFICES ASSUME NEW c \in 1..MaxCalls
             PROVE  OneCall(c)'
  BY DEF CallsInv
<1>1. OneCall(c)
  BY DEF CallsInv
<1>2. agent \in [Procs -> Agent] /\ \A q \in Procs : agent[q] \in Agent
  BY TypeParts
<1>3. Idle.due = <<>> /\ Idle.running = 0
  BY DEF Idle
<1>4. ASSUME UNCHANGED <<entries, calls>>,
             \A q \in Procs : \/ /\ agent'[q].due = agent[q].due
                                 /\ agent'[q].running = agent[q].running
                              \/ agent'[q].due = <<>> /\ agent'[q].running = 0
      PROVE  OneCall(c)'
  <2>1. \A m : Says(m)' = Says(m)
    BY <1>4 DEF Says
  <2> QED BY <1>1, <1>4, <2>1, OneCallQuiet
<1>5. CASE UNCHANGED vars
  BY <1>4, <1>5 DEF vars
<1>6. ASSUME NEW p \in Procs, BeginSteps(p)
      PROVE  OneCall(c)'
  BY <1>1, <1>6, QuietBegin, OneCallQuiet, OneCallTurn
<1>7. ASSUME NEW p \in Procs, Finish(p) \/ Fail(p)
      PROVE  OneCall(c)'
  BY <1>4, <1>7 DEF Finish, Fail
<1>8. ASSUME NEW p \in Procs, Crash(p) \/ Close(p)
      PROVE  OneCall(c)'
  <2>1. UNCHANGED <<entries, calls>> /\ agent' = [agent EXCEPT ![p] = Idle]
    BY <1>8 DEF Crash, Close
  <2> QED BY <1>2, <1>3, <1>4, <2>1
<1>9. ASSUME NEW p \in Procs, Open(p) \/ Adopt(p) \/ EndRun(p)
      PROVE  OneCall(c)'
  <2>1. UNCHANGED <<entries, calls>> /\ \E told : agent' = [agent EXCEPT ![p].told = told]
    BY <1>9 DEF Open, Adopt, EndRun
  <2>2. \A q \in Procs : agent'[q].due = agent[q].due /\ agent'[q].running = agent[q].running
    BY <1>2, <2>1 DEF Agent
  <2> QED BY <1>4, <2>1, <2>2
<1>10. ASSUME NEW p \in Procs, BeginTurn(p) \/ EndTurn(p)
       PROVE  OneCall(c)'
  BY <1>1, <1>10, OneCallMade, OneCallEnds
<1> QED BY <1>5, <1>6, <1>7, <1>8, <1>9, <1>10 DEF Next, BeginSteps

LEMMA CallsInit == Init => CallsInv
<1> SUFFICES ASSUME Init, NEW c \in 1..MaxCalls
             PROVE  OneCall(c)
  BY DEF CallsInv
<1>1. entries = <<>> /\ agent = [q \in Procs |-> Idle] /\ c # 0
  BY Bounds DEF Init
<1>2. \A m : Says(m) = {}
  <2>1. DOMAIN entries = {}
    BY <1>1, EmptySeq
  <2> QED BY <2>1 DEF Says
<1>3. \A q \in Procs : agent[q].due = <<>> /\ agent[q].running = 0
  BY <1>1 DEF Idle
<1>4. \A q \in Procs : \A m : Owed(q, m) = {}
  <2>1. Len(<<>>) = 0 /\ 1..0 = {}
    OBVIOUS
  <2> QED BY <1>3, <2>1 DEF Owed
<1>5. \A q \in Procs : ~Busy(q, c)
  BY <1>1, <1>3, <1>4 DEF Busy
<1> HIDE DEF Busy, Says, Owed
<1> QED BY <1>1, <1>2, <1>3, <1>4, <1>5 DEF OneCall

\* A call of which the checkpoint shown holds nothing is shown once, its result behind it.
LEMMA ShownOnce ==
  ASSUME TypeOK, EntriesInv, CallsInv, NEW nodes \in SUBSET DOMAIN entries, NEW leaf,
         NEW c \in 1..MaxCalls,
         {Call(c), Result(c)} \intersect ToSet(Held(Branch(nodes, leaf))) = {}
  PROVE  Once(History(Branch(nodes, leaf)), c)
<1> DEFINE s == Branch(nodes, leaf)
           msgs == History(s)
           h == Len(Held(s))
           first == IF s # <<>> /\ entries[s[1]].type = "compact" THEN 1 ELSE 0
           of(i) == s[i - h + first]
<1>1. /\ Held(s) \in Seq(Message) /\ h \in Nat /\ msgs \in Seq(Message)
      /\ \A i \in 1..Len(msgs) :
            IF i <= h THEN msgs[i] = Held(s)[i]
            ELSE /\ i - h + first \in 1..Len(s)
                 /\ of(i) \in DOMAIN entries /\ entries[of(i)].type = "message"
                 /\ msgs[i] = entries[of(i)].msgs[1]
  BY HistoryIs
<1>2. /\ DOMAIN s = 1..Len(s) /\ Len(s) \in Nat /\ Rising(s)
      /\ \A i \in 1..Len(s) : s[i] \in Nat
  BY BranchIs
<1>3. {Call(c), Result(c)} \intersect ToSet(Held(s)) = {}
  OBVIOUS
<1>4. DOMAIN Held(s) = 1..h
  BY <1>1, LenProperties
<1>5. first \in Nat /\ Len(msgs) \in Nat
  BY <1>1, LenProperties
<1> HIDE DEF s, msgs, h, first
<1>6. \A i \in 1..Len(msgs) : msgs[i] \in {Call(c), Result(c)} =>
         /\ i \in Nat /\ ~(i <= h) /\ i - h + first \in 1..Len(s)
         /\ of(i) \in Says(msgs[i])
  <2> SUFFICES ASSUME NEW i \in 1..Len(msgs), msgs[i] \in {Call(c), Result(c)}
               PROVE  /\ i \in Nat /\ ~(i <= h) /\ i - h + first \in 1..Len(s)
                      /\ of(i) \in Says(msgs[i])
    OBVIOUS
  <2>1. i \in Nat /\ i >= 1
    BY <1>5
  <2>2. ~(i <= h)
    <3> SUFFICES ASSUME i <= h
                 PROVE  FALSE
      OBVIOUS
    <3>1. i \in 1..h /\ msgs[i] = Held(s)[i]
      BY <1>1, <2>1
    <3>2. msgs[i] \in ToSet(Held(s))
      BY <1>4, <3>1 DEF ToSet
    <3> QED BY <1>3, <3>2
  <2> QED BY <1>1, <2>1, <2>2 DEF Says
<1>7. OneCall(c) /\ Call(c) # Result(c)
  BY CallsAre DEF CallsInv
<1>8. \A i, j \in 1..Len(msgs) :
         /\ i \in Nat /\ j \in Nat
         /\ i - h + first \in 1..Len(s) /\ j - h + first \in 1..Len(s) /\ i < j => of(i) < of(j)
  <2> SUFFICES ASSUME NEW i \in 1..Len(msgs), NEW j \in 1..Len(msgs), i < j,
                      i - h + first \in 1..Len(s), j - h + first \in 1..Len(s)
               PROVE  of(i) < of(j)
    BY <1>5
  <2>1. i - h + first < j - h + first
    BY <1>1, <1>5
  <2> QED BY <1>2, <2>1 DEF Rising
<1>9. ASSUME NEW i \in 1..Len(msgs), NEW j \in 1..Len(msgs), msgs[i] = msgs[j],
             msgs[i] \in {Call(c), Result(c)}
      PROVE  i = j
  <2>1. of(i) = of(j)
    BY <1>6, <1>7, <1>9 DEF OneCall
  <2>2. of(i) \in Nat /\ of(j) \in Nat
    BY <1>2, <1>6, <1>9
  <2>3. ~(i < j) /\ ~(j < i)
    BY <1>6, <1>8, <1>9, <2>1, <2>2
  <2>4. i \in Nat /\ j \in Nat
    BY <1>5
  <2> QED BY <2>3, <2>4
<1>10. ASSUME NEW i \in 1..Len(msgs), NEW j \in 1..Len(msgs), msgs[i] = Call(c),
              msgs[j] = Result(c)
       PROVE  i < j
  <2>1. of(i) \in Says(Call(c)) /\ of(j) \in Says(Result(c))
    BY <1>6, <1>10
  <2>2. of(i) < of(j)
    BY <1>7, <2>1 DEF OneCall
  <2>3. of(i) \in Nat /\ of(j) \in Nat
    BY <1>2, <1>6, <1>10
  <2>4. ~(j < i) /\ j # i
    BY <1>6, <1>7, <1>8, <1>10, <2>2, <2>3
  <2>5. i \in Nat /\ j \in Nat
    BY <1>5
  <2> QED BY <2>4, <2>5
<1> QED BY <1>9, <1>10 DEF Once, msgs, s

-----------------------------------------------------------------------------
(* Theorems.                                                                *)

\* Entries, file, memories and lock stay of their types, in whatever order processes
\* write, fail, die and open the file again.
THEOREM TypeCorrect == Spec => []TypeOK
BY InvAlways, PTL DEF IInv

\* A write that is cut short costs at most one acknowledged entry: the one that is
\* appended to the incomplete line (appendLine adds no newline of its own first).
THEOREM LossIsBounded == Spec => []LossBounded
<1>1. IInv => LossBounded
  <2> SUFFICES ASSUME IInv
               PROVE  LossBounded
    OBVIOUS
  <2>1. Cardinality(acked \ Complete(file)) + (IF Dirty THEN 1 ELSE 0) <= faults
    BY DEF IInv, LossInv
  <2>2. Full(file) \subseteq Starts(file)
    BY DEF Full, Starts
  <2>3. acked \ Readable(file) \subseteq acked \ Complete(file)
    BY <2>2 DEF Complete, Readable
  <2>4. IsFiniteSet(Ids) /\ acked \ Complete(file) \subseteq Ids /\ faults \in Nat
    BY SessionAssumption, FS_Interval, TypeParts, Bounds DEF Ids, IInv
  <2>5. IsFiniteSet(acked \ Complete(file))
    BY <2>4, FS_Subset
  <2>6. /\ Cardinality(acked \ Readable(file)) <= Cardinality(acked \ Complete(file))
        /\ IsFiniteSet(acked \ Readable(file))
    BY <2>3, <2>5, FS_Subset
  <2>7. Cardinality(acked \ Readable(file)) \in Nat /\ Cardinality(acked \ Complete(file)) \in Nat
    BY <2>5, <2>6, FS_CardinalityType
  <2> QED BY <2>1, <2>4, <2>6, <2>7 DEF LossBounded
<1> QED BY <1>1, InvAlways, PTL

\* A process that has been alone with the file since it opened it, without a failed
\* write, has in memory what replayEntry builds from the lines.
THEOREM ReplayIsTheMemory == Spec => []ReplayIsMemory
<1>1. IInv => ReplayIsMemory
  <2> SUFFICES ASSUME IInv, NEW p \in Procs, mem[p].open, mem[p].alone, op[p] = 0
               PROVE  mem[p] = Replay(file)
    BY DEF ReplayIsMemory
  <2>1. Remembers(mem[p], file, LastRead(file, Metas)) /\ mem[p] \in Memory
    BY Lists DEF IInv, ReplayInv
  <2>2. mem[p] = [open |-> mem[p].open, nodes |-> mem[p].nodes, leaf |-> mem[p].leaf,
                  labels |-> mem[p].labels, title |-> mem[p].title, alone |-> mem[p].alone]
    BY <2>1 DEF Memory
  <2>3. Replay(file) = [open |-> TRUE, nodes |-> Readable(file) \intersect Nodes,
                        leaf |-> LastRead(file, Nodes), labels |-> Labelled(file),
                        title |-> LastRead(file, Metas), alone |-> TRUE]
    BY DEF Replay, Labelled
  <2> QED BY <2>1, <2>2, <2>3 DEF Remembers
<1> QED BY <1>1, InvAlways, PTL

\* Processes that write to one file do not damage each other's lines: while no write
\* is cut short, each can read its own branch back from the file.
THEOREM BranchIsReadable == Spec => []BranchReadable
<1>1. IInv => BranchReadable
  <2> SUFFICES ASSUME IInv, NEW p \in Procs, mem[p].open, faults = 0
               PROVE  Branch(mem[p].nodes, mem[p].leaf) = Branch(Readable(file), mem[p].leaf)
    BY DEF BranchReadable
  <2>1. /\ mem[p].nodes \subseteq Readable(file)
        /\ \A e \in mem[p].nodes : entries[e].parent \in mem[p].nodes \union {0}
        /\ mem[p].leaf \in mem[p].nodes \union {0}
    BY DEF IInv, TreeInv, WriterInv
  <2>2. 0 \notin Readable(file)
    BY ReadableTyped, Bounds DEF IInv
  <2>3. Path(mem[p].nodes, mem[p].leaf) = Path(Readable(file), mem[p].leaf)
    BY <2>1, <2>2, PathInside
  <2>4. Shown(mem[p].nodes, mem[p].leaf) = Shown(Readable(file), mem[p].leaf)
    BY <2>3 DEF Shown
  <2> QED BY <2>4 DEF Branch
<1> QED BY <1>1, InvAlways, PTL

\* The repair of what a branch shows.
LEMMA RepairOfBranch ==
  ASSUME NEW branch, History(branch) \in Seq(Message),
         \A c \in 1..MaxCalls : {Call(c), Result(c)} \intersect ToSet(Held(branch)) = {}
                                => Once(History(branch), c)
  PROVE  LET msgs == History(branch)
             out == Repaired(msgs)
             kept == InOrder({i \in 1..Len(out) : ~out[i].new})
             At(m) == {i \in 1..Len(out) : out[i].msg = m}
         IN  /\ [k \in DOMAIN kept |-> out[kept[k]].msg] = msgs
             /\ \A i \in 1..Len(out) : out[i].new =>
                   /\ i > 1 /\ out[i - 1] = Original(Call(out[i].msg.call))
                   /\ out[i].msg = Result(out[i].msg.call) /\ out[i].msg \notin ToSet(msgs)
             /\ \A c \in 1..MaxCalls : Call(c) \in ToSet(msgs) =>
                   /\ At(Result(c)) # {}
                   /\ {Call(c), Result(c)} \intersect ToSet(Held(branch)) = {} =>
                         \E i, j \in 1..Len(out) :
                             i < j /\ At(Call(c)) = {i} /\ At(Result(c)) = {j}
<1> DEFINE msgs == History(branch)
           out == Repaired(msgs)
           kept == InOrder({i \in 1..Len(out) : ~out[i].new})
           At(m) == {i \in 1..Len(out) : out[i].msg = m}
           Ordered(c) == \E i, j \in 1..Len(out) :
                            i < j /\ At(Call(c)) = {i} /\ At(Result(c)) = {j}
<1>1. msgs \in Seq(Message)
  OBVIOUS
<1>2. /\ [k \in DOMAIN kept |-> out[kept[k]].msg] = msgs
      /\ \A i \in 1..Len(out) : out[i].new =>
            /\ i > 1 /\ out[i - 1] = Original(Call(out[i].msg.call))
            /\ out[i].msg = Result(out[i].msg.call) /\ out[i].msg \notin ToSet(msgs)
      /\ \A c \in 1..MaxCalls : Call(c) \in ToSet(msgs) =>
            At(Result(c)) # {} /\ (Once(msgs, c) => Ordered(c))
  <2> HIDE DEF msgs
  <2> QED BY <1>1, RepairOf
<1> HIDE DEF Ordered
<1>3. \A c \in 1..MaxCalls : Call(c) \in ToSet(msgs) =>
         /\ At(Result(c)) # {}
         /\ {Call(c), Result(c)} \intersect ToSet(Held(branch)) = {} => Ordered(c)
  <2> HIDE DEF At, out
  <2> QED BY <1>2
<1> QED BY <1>2, <1>3 DEF Ordered

\* In the history an agent is given every call has an answer; one is made up by
\* repairMessageSequence only for a call that has none, and stands right behind it;
\* nothing that was there is left out, changed or put elsewhere.  A call of which the
\* checkpoint shown holds nothing is there once, with one answer, behind it.
THEOREM RepairIsComplete == Spec => []RepairComplete
<1>1. Spec => []CallsInv
  <2>1. IInv /\ CallsInv /\ [Next]_vars => CallsInv'
    BY CallsKept DEF IInv
  <2> QED BY <2>1, CallsInit, InvAlways, PTL DEF Spec
<1>2. IInv /\ CallsInv => RepairComplete
  <2> SUFFICES ASSUME IInv, CallsInv
               PROVE  RepairComplete
    OBVIOUS
  <2>1. ASSUME NEW p \in Procs
        PROVE  /\ History(Branch(mem[p].nodes, mem[p].leaf)) \in Seq(Message)
               /\ \A c \in 1..MaxCalls :
                     {Call(c), Result(c)}
                        \intersect ToSet(Held(Branch(mem[p].nodes, mem[p].leaf))) = {}
                     => Once(History(Branch(mem[p].nodes, mem[p].leaf)), c)
    <3>1. mem[p].nodes \in SUBSET DOMAIN entries
      BY DEF IInv, EntriesInv
    <3> QED BY <3>1, HistoryIs, ShownOnce DEF IInv
  <2> QED BY <2>1, RepairOfBranch DEF RepairComplete
<1> QED BY <1>1, <1>2, InvAlways, PTL

=============================================================================
