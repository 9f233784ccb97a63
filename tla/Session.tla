------------------------------- MODULE Session -------------------------------
(***************************************************************************)
(* A conversation in a file (package session): lines are appended under an *)
(* inter-process lock, the tree of entries is kept in memory and rebuilt   *)
(* from the lines when the file is opened again.  Several processes may    *)
(* have the same file open; each of them may die at any point, and a write *)
(* may fail half way.  With the agent that each of them runs, as far as it *)
(* decides what is appended (core/agent.go, shell/process.go), and with    *)
(* the repair of a history whose tool calls were interrupted               *)
(* (shell/repair.go).                                                      *)
(*                                                                         *)
(* An entry is a number: the order in which the entries were begun.  Its   *)
(* identifier in the code is random, so no two entries share one.  The     *)
(* file is a sequence of pieces of lines: a line is written as its head    *)
(* and its tail, which ends with the newline.                              *)
(***************************************************************************)
EXTENDS Naturals, FiniteSets, SequencesExt

CONSTANTS
    Procs,         \* processes that have the file open
    MaxEntries,    \* bound: entries begun
    MaxCalls,      \* bound: tool calls the models make
    MaxFaults,     \* bound: writes cut short
    MaxOpens       \* bound: times the file is opened

ASSUME SessionAssumption ==
    MaxEntries \in Nat /\ MaxCalls \in Nat /\ MaxFaults \in Nat /\ MaxOpens \in Nat

Ids == 1..MaxEntries

VARIABLES
    entries,       \* what every entry says
    file,          \* the pieces in the file
    lock,          \* the processes that hold the lock of the file
    mem,           \* the Session of each process
    op,            \* the entry each process is writing
    agent,         \* the agent of each process
    calls,         \* tool calls made so far: they are numbered
    opens,         \* times the file was opened
    acked,         \* entries whose append returned without error
    faults         \* writes that were cut short

vars == <<entries, file, lock, mem, op, agent, calls, opens, acked, faults>>

\* A message: of the model with a tool call, the result of a call, or any other
\* (of the user, of the model, of an extension; the gist of a compacted history).
Message == [type : {"text", "call", "result"}, call : 0..MaxCalls]
Text == [type |-> "text", call |-> 0]
Call(c) == [type |-> "call", call |-> c]
Result(c) == [type |-> "result", call |-> c]

\* An entry: one message; a checkpoint, which holds a list of them; or none.
Types == {"message", "compact", "branchSummary", "custom", "label", "meta"}
Entry == [type : Types, parent : 0..MaxEntries, ref : 0..MaxEntries, set : BOOLEAN,
          msgs : Seq(Message)]

\* head: the beginning of a line; most: all of it but the newline; tail: the rest.
Piece == [e : Ids, part : {"head", "most", "tail"}]

Closed == [open |-> FALSE, nodes |-> {}, leaf |-> 0, labels |-> {}, title |-> 0, alone |-> FALSE]
Fresh == [Closed EXCEPT !.open = TRUE, !.alone = TRUE]

\* The messages the agent has, but for the texts given to it since it was given the
\* history of the session or compacted; the call of its current turn (0: none);
\* what the ends of its turns, not yet processed, have to store.
Idle == [told |-> <<>>, running |-> 0, due |-> <<>>]

TypeOK ==
    /\ entries \in Seq(Entry) /\ Len(entries) <= MaxEntries
    /\ file \in Seq(Piece)
    /\ lock \subseteq Procs
    /\ mem \in [Procs -> [open : BOOLEAN, nodes : SUBSET Ids, leaf : 0..MaxEntries,
                          labels : SUBSET Ids, title : 0..MaxEntries, alone : BOOLEAN]]
    /\ op \in [Procs -> 0..MaxEntries]
    /\ agent \in [Procs -> [told : Seq(Message), running : 0..MaxCalls, due : Seq(Message)]]
    /\ calls \in 0..MaxCalls
    /\ opens \in 0..MaxOpens
    /\ acked \subseteq Ids
    /\ faults \in 0..MaxFaults

\* One process has created the file; its first line, with the identity of the
\* session, is taken as written.
Init ==
    /\ entries = <<>> /\ file = <<>> /\ lock = {}
    /\ \E p \in Procs : mem = [q \in Procs |-> IF q = p THEN Fresh ELSE Closed]
    /\ op = [p \in Procs |-> 0]
    /\ agent = [p \in Procs |-> Idle] /\ calls = 0
    /\ opens = 0 /\ acked = {} /\ faults = 0

-----------------------------------------------------------------------------
(***************************************************************************)
(* Reading the file and the tree.                                          *)
(***************************************************************************)

\* Where a line begins that is read: it stands alone between two newlines; the last
\* one may lack its own.  What was appended to an incomplete line is skipped with it.
Starts(f) ==
    {i \in DOMAIN f :
        /\ i > 1 => f[i - 1].part = "tail"
        /\ \/ f[i].part = "head" /\ i < Len(f) /\ f[i + 1] = [e |-> f[i].e, part |-> "tail"]
           \/ f[i].part = "most" /\ i = Len(f)}

Readable(f) == {f[i].e : i \in Starts(f)}

\* Of some entries the one that is read last, if any is.
LastRead(f, es) ==
    LET at == {i \in Starts(f) : f[i].e \in es}
    IN  IF at = {} THEN 0 ELSE f[Max(at)].e

Nodes == {e \in DOMAIN entries : entries[e].type # "meta"}
Metas == {e \in DOMAIN entries : entries[e].type = "meta"}
Labels(t) == {e \in DOMAIN entries : entries[e].type = "label" /\ entries[e].ref = t}

\* Mutation: a label once set stays set.
ReplayKeepsLabels(f) ==
    [open |-> TRUE, nodes |-> Readable(f) \intersect Nodes, leaf |-> LastRead(f, Nodes),
     labels |-> {t \in Ids : \E l \in Labels(t) \intersect Readable(f) : entries[l].set},
     title |-> LastRead(f, Metas), alone |-> TRUE]

\* The memory that replayEntry builds from the lines: the last entry is the leaf,
\* the last label of a target and the last title count.
Replay(f) ==
    [open |-> TRUE, nodes |-> Readable(f) \intersect Nodes, leaf |-> LastRead(f, Nodes),
     labels |-> {t \in Ids : LET l == LastRead(f, Labels(t)) IN l # 0 /\ entries[l].set},
     title |-> LastRead(f, Metas), alone |-> TRUE]

\* The way from an entry to the root, up to the first that is missing: the least
\* set with the entry and the parents of its members.
Path(nodes, leaf) ==
    {e \in nodes :
        \A way \in SUBSET nodes :
            /\ leaf \in nodes => leaf \in way
            /\ \A a \in way : entries[a].parent \in nodes => entries[a].parent \in way
            => e \in way}

\* What buildBranch shows: a checkpoint takes the place of all that is before it.  A
\* parent is older than its child.
Shown(nodes, leaf) ==
    LET path == Path(nodes, leaf)
    IN  {e \in path : /\ entries[e].type \in {"message", "compact"}
                      /\ \A c \in path : entries[c].type = "compact" => c <= e}
InOrder(es) ==
    CHOOSE s \in [1..Cardinality(es) -> es] : \A i, j \in DOMAIN s : i < j => s[i] < s[j]
Branch(nodes, leaf) == InOrder(Shown(nodes, leaf))

\* The messages of the checkpoint that a branch shows first, if it shows one.
Held(branch) ==
    IF branch # <<>> /\ entries[branch[1]].type = "compact" THEN entries[branch[1]].msgs ELSE <<>>

\* The entries behind it, of one message each.
Behind(branch) ==
    IF branch # <<>> /\ entries[branch[1]].type = "compact" THEN Tail(branch) ELSE branch

\* buildBranch: the messages of a branch.
History(branch) ==
    Held(branch) \o [i \in 1..Len(Behind(branch)) |-> entries[Behind(branch)[i]].msgs[1]]

\* The calls among some messages that have no result, before or behind them.
Unanswered(msgs) ==
    {c \in 1..MaxCalls : Call(c) \in ToSet(msgs) /\ Result(c) \notin ToSet(msgs)}

Original(m) == [msg |-> m, new |-> FALSE]
MadeUp(m) == [msg |-> Result(m.call), new |-> TRUE]

\* What the repair writes for a message: behind a call without a result, one that is
\* made up.
Mended(msgs, m) ==
    IF m.type = "call" /\ m.call \in Unanswered(msgs) THEN <<Original(m), MadeUp(m)>>
                                                      ELSE <<Original(m)>>

\* Mutation: the results that are made up go to the end of the history.
RepairedAtEnd(msgs) ==
    [i \in DOMAIN msgs |-> Original(msgs[i])]
    \o [i \in 1..Cardinality(Unanswered(msgs)) |-> MadeUp(Call(InOrder(Unanswered(msgs))[i]))]

\* repairMessageSequence.
Repaired(msgs) == FoldLeft(LAMBDA out, m : out \o Mended(msgs, m), <<>>, msgs)

\* The messages that result.
Repair(msgs) == [i \in DOMAIN Repaired(msgs) |-> Repaired(msgs)[i].msg]

-----------------------------------------------------------------------------
(***************************************************************************)
(* Writing.                                                                *)
(***************************************************************************)

\* Mutation: the file is written without the lock of the file.
BeginUnlocked(p, type, parent, ref, set, msgs) ==
    /\ mem[p].open /\ op[p] = 0
    /\ Len(entries) < MaxEntries
    /\ entries' = Append(entries, [type |-> type, parent |-> parent, ref |-> ref, set |-> set,
                                     msgs |-> msgs])
    /\ op' = [op EXCEPT ![p] = Len(entries')]
    /\ file' = Append(file, [e |-> Len(entries'), part |-> "head"])
    /\ lock' = lock \union {p}
    /\ UNCHANGED <<opens, acked, faults>>

\* An append takes the lock and the first bytes reach the file.
Begin(p, type, parent, ref, set, msgs) ==
    /\ mem[p].open /\ op[p] = 0
    /\ lock = {}
    /\ Len(entries) < MaxEntries
    /\ entries' = Append(entries, [type |-> type, parent |-> parent, ref |-> ref, set |-> set,
                                     msgs |-> msgs])
    /\ op' = [op EXCEPT ![p] = Len(entries')]
    /\ file' = Append(file, [e |-> Len(entries'), part |-> "head"])
    /\ lock' = lock \union {p}
    /\ UNCHANGED <<opens, acked, faults>>

\* Append and AppendCustomMessage of a message without call or result; AppendCustom.
\* At the current leaf.
AppendMessage(p) ==
    /\ \/ Begin(p, "message", mem[p].leaf, 0, TRUE, <<Text>>)
       \/ Begin(p, "custom", mem[p].leaf, 0, TRUE, <<>>)
    /\ UNCHANGED <<mem, agent, calls>>

\* The end of a turn is processed: its call and then its result are appended, one
\* after the other.
AppendTurn(p) ==
    /\ agent[p].due # <<>>
    /\ Begin(p, "message", mem[p].leaf, 0, TRUE, <<Head(agent[p].due)>>)
    /\ agent' = [agent EXCEPT ![p].due = Tail(@)]
    /\ UNCHANGED <<mem, calls>>

\* The agent's messages are compacted to their gist and the last of them, and the
\* event is processed: what the agent has by then is stored, that of a turn whose
\* end is still to be processed included.
AppendCompact(p) ==
    /\ \E k \in 1..(Len(agent[p].told) + 1) :
          LET held == <<Text>> \o SubSeq(agent[p].told, k, Len(agent[p].told))
          IN  /\ Begin(p, "compact", mem[p].leaf, 0, TRUE, held)
              /\ agent' = [agent EXCEPT ![p].told = held]
    /\ UNCHANGED <<mem, calls>>

AppendLabel(p) ==
    /\ \E target \in mem[p].nodes, set \in BOOLEAN :
          Begin(p, "label", mem[p].leaf, target, set, <<>>)
    /\ UNCHANGED <<mem, agent, calls>>

\* Branch, BranchWithSummary and ResetLeaf: an entry below an earlier one, or at
\* the root.  The leaf, set for the time of the write, is put back if it fails.
BranchTo(p) ==
    /\ \E target \in mem[p].nodes \union {0} :
          Begin(p, "branchSummary", target, mem[p].leaf, TRUE, <<>>)
    /\ UNCHANGED <<mem, agent, calls>>

\* SetTitle and SetModel change the memory before the write.
SetMeta(p) ==
    /\ Begin(p, "meta", 0, 0, TRUE, <<>>)
    /\ mem' = [mem EXCEPT ![p].title = op'[p]]
    /\ UNCHANGED <<agent, calls>>

\* The process with its entry e in memory.
With(m, e) ==
    IF entries[e].type = "meta" THEN m
    ELSE [m EXCEPT !.nodes = @ \union {e}, !.leaf = e,
                   !.labels = IF entries[e].type # "label" THEN @
                              ELSE IF entries[e].set THEN @ \union {entries[e].ref}
                                                     ELSE @ \ {entries[e].ref}]

\* No process knows any more what the file says.
Disturbed(m) == [q \in Procs |-> [m[q] EXCEPT !.alone = FALSE]]

\* Mutation: the line is written without its newline.
FinishUnended(p) ==
    /\ op[p] # 0
    /\ file' = [file EXCEPT ![Len(file)].part = "most"]
    /\ lock' = lock \ {p}
    /\ mem' = [Disturbed(mem) EXCEPT ![p] = With(mem[p], op[p])]
    /\ acked' = acked \union {op[p]}
    /\ op' = [op EXCEPT ![p] = 0]
    /\ UNCHANGED <<entries, agent, calls, opens, faults>>

\* The line is complete: the entry enters the memory and the lock is released.
Finish(p) ==
    /\ op[p] # 0
    /\ file' = Append(file, [e |-> op[p], part |-> "tail"])
    /\ lock' = lock \ {p}
    /\ mem' = [Disturbed(mem) EXCEPT ![p] = With(mem[p], op[p])]
    /\ acked' = acked \union {op[p]}
    /\ op' = [op EXCEPT ![p] = 0]
    /\ UNCHANGED <<entries, agent, calls, opens, faults>>

\* What a write that is cut short leaves of its line, the last piece of the file:
\* nothing, a part of it, or all but the newline.
CutShort ==
    \/ file' = Front(file)
    \/ file' = file
    \/ file' = [file EXCEPT ![Len(file)].part = "most"]

\* The write fails, for want of space: the caller is told.
Fail(p) ==
    /\ op[p] # 0 /\ faults < MaxFaults
    /\ CutShort
    /\ lock' = lock \ {p}
    /\ op' = [op EXCEPT ![p] = 0]
    /\ faults' = faults + 1
    /\ mem' = Disturbed(mem)
    /\ UNCHANGED <<entries, agent, calls, opens, acked>>

-----------------------------------------------------------------------------
(***************************************************************************)
(* Processes.                                                              *)
(***************************************************************************)

\* The process dies during a write; the kernel releases its lock.
Crash(p) ==
    /\ op[p] # 0 /\ faults < MaxFaults
    /\ CutShort
    /\ lock' = lock \ {p}
    /\ op' = [op EXCEPT ![p] = 0]
    /\ faults' = faults + 1
    /\ mem' = [Disturbed(mem) EXCEPT ![p] = Closed]
    /\ agent' = [agent EXCEPT ![p] = Idle]
    /\ UNCHANGED <<entries, calls, opens, acked>>

\* It closes the file, or dies between two writes.
Close(p) ==
    /\ mem[p].open /\ op[p] = 0
    /\ mem' = [mem EXCEPT ![p] = Closed]
    /\ agent' = [agent EXCEPT ![p] = Idle]
    /\ UNCHANGED <<entries, file, lock, op, calls, opens, acked, faults>>

\* Nobody is writing and the last line has its newline.
Ended == lock = {} /\ (file # <<>> => Last(file).part = "tail")

\* The repaired history of the session in memory m (ActionSwapSession).
Adopted(m) == Repair(History(Branch(m.nodes, m.leaf)))

\* Open does not take the lock: it may read the file in the middle of a write.  The
\* agent is given the history.
Open(p) ==
    /\ ~mem[p].open /\ opens < MaxOpens
    /\ opens' = opens + 1
    /\ mem' = [mem EXCEPT ![p] = [Replay(file) EXCEPT !.alone = Ended]]
    /\ agent' = [agent EXCEPT ![p].told = Adopted(mem'[p])]
    /\ UNCHANGED <<entries, file, lock, op, calls, acked, faults>>

-----------------------------------------------------------------------------
(***************************************************************************)
(* Agents.                                                                 *)
(***************************************************************************)

\* The leaf was moved: the agent is given the history.
Adopt(p) ==
    /\ mem[p].leaf # 0 /\ entries[mem[p].leaf].type = "branchSummary"
    /\ agent' = [agent EXCEPT ![p].told = Adopted(mem[p])]
    /\ UNCHANGED <<entries, file, lock, mem, op, calls, opens, acked, faults>>

\* The model makes a tool call.
BeginTurn(p) ==
    /\ mem[p].open /\ agent[p].running = 0 /\ calls < MaxCalls
    /\ calls' = calls + 1
    /\ agent' = [agent EXCEPT ![p] = [told |-> Append(@.told, Call(calls')), running |-> calls',
                                      due |-> @.due]]
    /\ UNCHANGED <<entries, file, lock, mem, op, opens, acked, faults>>

\* The turn ends with the result, or without one: the answer was broken off.
EndTurn(p) ==
    /\ agent[p].running # 0
    /\ \E turn \in {<<Call(agent[p].running), Result(agent[p].running)>>,
                    <<Call(agent[p].running)>>} :
          agent' = [agent EXCEPT ![p] = [told |-> @.told \o Tail(turn), running |-> 0,
                                         due |-> @.due \o turn]]
    /\ UNCHANGED <<entries, file, lock, mem, op, calls, opens, acked, faults>>

\* handleAgentEnd repairs the agent's messages, which the session is not told.
EndRun(p) ==
    /\ agent[p].running = 0 /\ agent[p].due = <<>>
    /\ agent' = [agent EXCEPT ![p].told = Repair(@)]
    /\ UNCHANGED <<entries, file, lock, mem, op, calls, opens, acked, faults>>

Next ==
    \E p \in Procs :
        \/ AppendMessage(p) \/ AppendTurn(p) \/ AppendCompact(p)
        \/ AppendLabel(p) \/ BranchTo(p) \/ SetMeta(p)
        \/ Finish(p) \/ Fail(p) \/ Crash(p) \/ Close(p) \/ Open(p)
        \/ Adopt(p) \/ BeginTurn(p) \/ EndTurn(p) \/ EndRun(p)

Spec == Init /\ [][Next]_vars

-----------------------------------------------------------------------------
(***************************************************************************)
(* Properties.                                                             *)
(***************************************************************************)

\* A process that has been alone with the file since it opened it, without a failed
\* write, has in memory exactly what a reader of the file would build: resuming
\* changes neither the tree nor the leaf, the labels or the title.
ReplayIsMemory ==
    \A p \in Procs : mem[p].open /\ mem[p].alone /\ op[p] = 0 => mem[p] = Replay(file)

\* Processes that write to one file do not damage each other's lines: while no
\* write is cut short, each can read its own branch back from the file.
BranchReadable ==
    \A p \in Procs :
        mem[p].open /\ faults = 0 =>
            Branch(mem[p].nodes, mem[p].leaf) = Branch(Readable(file), mem[p].leaf)

\* A write that is cut short costs at most one entry that was acknowledged, the
\* one that is appended to the incomplete line, however long the session goes on.
LossBounded == Cardinality(acked \ Readable(file)) <= faults

\* The history an agent is given when a session is opened or its leaf moved.  What is
\* there stays, in its order; every call has an answer; one is made up only for a
\* call that has none, and stands right behind it.  A call of which the checkpoint
\* shown holds nothing is there once, with one answer, behind it.  (One that it holds
\* may be there again: the end of its turn was processed later.)
RepairComplete ==
    \A p \in Procs : mem[p].open =>
        LET branch == Branch(mem[p].nodes, mem[p].leaf)
            msgs == History(branch)
            out == Repaired(msgs)
            kept == InOrder({i \in 1..Len(out) : ~out[i].new})
            At(m) == {i \in 1..Len(out) : out[i].msg = m}
        IN  /\ [k \in DOMAIN kept |-> out[kept[k]].msg] = msgs
            /\ \A i \in 1..Len(out) : out[i].new =>
                  /\ i > 1 /\ out[i - 1] = Original(Call(out[i].msg.call))
                  /\ out[i].msg = Result(out[i].msg.call) /\ out[i].msg \notin ToSet(msgs)
            /\ \A c \in 1..MaxCalls : Call(c) \in ToSet(msgs) =>
                  /\ At(Result(c)) # {}
                  /\ {Call(c), Result(c)} \intersect ToSet(Held(branch)) = {} =>
                        \E i, j \in 1..Len(out) :
                            i < j /\ At(Call(c)) = {i} /\ At(Result(c)) = {j}

=============================================================================
