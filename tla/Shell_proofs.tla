---------------------------- MODULE Shell_proofs ----------------------------
(***************************************************************************)
(* Proofs about Shell, for any number of inputs, any size of the queue and *)
(* of the events channel, any number of ends of tools, and any set of      *)
(* background tasks.                                                       *)
(***************************************************************************)
EXTENDS Shell, SequenceTheorems, FiniteSetTheorems, TLAPS

\* The types, by what they are about.
Events == {"toolEnd", "turnEnd", "agentEnd"}
TypeInputs ==
    /\ kind \in Seq(Kinds) /\ Len(kind) <= MaxInputs
    /\ queue \in Seq(Inputs) /\ later \in Seq(Inputs) /\ Len(queue) + Len(later) <= QueueCap
    /\ notes \in Seq(Inputs) /\ actions \in Seq(Inputs)
    /\ steerQ \in Seq(Inputs) /\ history \in Seq(Inputs)
    /\ ran \subseteq Inputs /\ dropped \subseteq Inputs
    /\ saved \in Seq(Inputs) /\ unsaved \subseteq Inputs /\ displaced \subseteq Inputs
Fronts == [at : Steps, op : {"none", "submit", "event", "bg"}, batch : Seq(Inputs),
           via : {"none", "submit", "drain"}, done : BOOLEAN]
TypeFront ==
    /\ front \in Fronts
    /\ ext \in [at : {"none", "deliver", "enqueue", "insert"}, on : 0..MaxInputs,
                task : Tasks \union {NoTask}]
TypeFlags ==
    /\ mode \in {"all", "one"}
    /\ running \in BOOLEAN /\ heldBack \in BOOLEAN /\ idle \in BOOLEAN
    /\ waiting \in BOOLEAN /\ streaming \in BOOLEAN /\ cancelled \in BOOLEAN
    /\ bgTasks \subseteq Tasks /\ bgPolls \subseteq Tasks /\ bgSel \in Tasks \union {NoTask}
    /\ odd \subseteq Oddities /\ bg \in [Tasks -> {"none", "running", "ended"}]
TypeRun ==
    /\ runs \in Nat /\ evCh \in 0..runs /\ polls \subseteq 1..runs
    /\ phase \in {"none", "body", "ending", "over"} /\ tools \in 0..MaxTools
    /\ chan \in Seq(Events) /\ Len(chan) <= ChanCap
Types == TypeInputs /\ TypeFront /\ TypeFlags /\ TypeRun

\* What the front end and an extension's call carry, and when.
Stages ==
    /\ front.at \in {"start", "steer"} <=> front.batch # <<>>
    /\ front.at \in {"clear", "set"} => runs >= 1
    /\ streaming => evCh >= 1
    /\ ext.at \in {"deliver", "enqueue"} <=> ext.on # 0
    /\ ext.at = "insert" => ext.task \in Tasks

\* Nothing is twice in a sequence, ...
Distinct(s) == \A i, j \in DOMAIN s : i # j => s[i] # s[j]
Carried == IF ext.on = 0 THEN <<>> ELSE <<ext.on>>
NoneTwice ==
    /\ Distinct(queue) /\ Distinct(later) /\ Distinct(notes) /\ Distinct(actions)
    /\ Distinct(steerQ) /\ Distinct(history) /\ Distinct(front.batch)

Accepted == 1..Len(kind)
\* ... nor at two places, and everything is somewhere.
Apart(q, l, n, a, s, h, b, x, r, d, all) ==
    /\ q \union l \union n \union a \union s \union h \union b \union x \union r \union d = all
    /\ q \intersect (l \union n \union a \union s \union h \union b \union x \union r \union d) = {}
    /\ l \intersect (n \union a \union s \union h \union b \union x \union r \union d) = {}
    /\ n \intersect (a \union s \union h \union b \union x \union r \union d) = {}
    /\ a \intersect (s \union h \union b \union x \union r \union d) = {}
    /\ s \intersect (h \union b \union x \union r \union d) = {}
    /\ h \intersect (b \union x \union r \union d) = {}
    /\ b \intersect (x \union r \union d) = {}
    /\ x \intersect (r \union d) = {}
    /\ r \intersect d = {}
Placed ==
    Apart(ToSet(queue), ToSet(later), ToSet(notes), ToSet(actions), ToSet(steerQ),
          ToSet(history), ToSet(front.batch), ToSet(Carried), ran, dropped, Accepted)

\* What an extension sent or steers is known by its place until it is queued.
OfKind(s, k) == \A x \in ToSet(s) : kind[x] = k
KindsKnown == OfKind(notes, "send") /\ OfKind(actions, "send") /\ OfKind(Carried, "steer")

\* What is on its way to the agent was saved, or should have been.
Recorded == ToSet(saved) \union unsaved
Stored(s) == \A x \in ToSet(s) : kind[x] # "steer" => x \in Recorded
SavedInv == Stored(front.batch) /\ Stored(steerQ) /\ Stored(history)

\* The shell stopped running before it starts a run, and the end of a run is the
\* last of its events, or held back.
Busy == running \/ front.at \in {"clear", "set"}
EndComes == \E i \in DOMAIN chan : chan[i] = "agentEnd"
RunningInv ==
    /\ front.at \in {"signal", "drain", "start", "clear", "set"} => ~running
    /\ phase = "body" => Busy
    /\ heldBack => running /\ phase # "body" /\ ~EndComes
    /\ EndComes => Busy /\ phase # "body"
    /\ \A i \in DOMAIN chan : chan[i] = "agentEnd" => i = Len(chan)
    /\ Busy => phase = "body" \/ EndComes \/ heldBack \/ "missed" \in odd

\* Typed prompts are in order wherever they are, and older the nearer they are to
\* the agent; none waits in the queue when the next goes past it.
Typed == {x \in Accepted : kind[x] = "prompt" /\ x \notin displaced}
InOrder(s, t) == \A i, j \in DOMAIN s : i < j /\ s[i] \in t /\ s[j] \in t => s[i] < s[j]
Ahead(s, u, t) == \A x \in ToSet(s), y \in ToSet(u) : x \in t /\ y \in t => x < y
OrderInv ==
    /\ InOrder(history, Typed) /\ InOrder(steerQ, Typed)
    /\ InOrder(front.batch, Typed) /\ InOrder(queue, Typed)
    /\ Ahead(history, steerQ, Typed) /\ Ahead(history, front.batch, Typed)
    /\ Ahead(history, queue, Typed) /\ Ahead(steerQ, front.batch, Typed)
    /\ Ahead(steerQ, queue, Typed) /\ Ahead(front.batch, queue, Typed)
    /\ ToSet(queue) \intersect Typed # {} =>
          running \/ front.at \in {"signal", "drain", "start", "clear", "set"}

\* The session has inputs once, none that still waits, and those with the agent, or
\* on their way to it, in the order in which the agent gets them.  Session v, inputs d
\* displaced:
Told(s, v, d) ==
    \A i, j \in DOMAIN s, k, l \in DOMAIN v :
        i < j /\ s[i] = v[k] /\ s[j] = v[l] /\ v[k] \notin d /\ v[l] \notin d => k < l
Before(s, u, v, d) ==
    \A k, l \in DOMAIN v :
        v[k] \in ToSet(s) /\ v[l] \in ToSet(u) /\ v[k] \notin d /\ v[l] \notin d => k < l
Waiting == ToSet(queue) \union ToSet(notes) \union ToSet(actions) \union ToSet(Carried)
StoryInv ==
    /\ Distinct(saved)
    /\ Recorded \subseteq Accepted /\ Recorded \intersect Waiting = {}
    /\ Told(history, saved, displaced) /\ Told(steerQ, saved, displaced)
    /\ Told(front.batch, saved, displaced)
    /\ Before(history, steerQ, saved, displaced)
    /\ Before(history, front.batch, saved, displaced)
    /\ Before(steerQ, front.batch, saved, displaced)

IInv == /\ Types /\ Stages /\ NoneTwice /\ Placed /\ KindsKnown /\ SavedInv /\ RunningInv
        /\ OrderInv /\ StoryInv

-----------------------------------------------------------------------------
(* Sequences.                                                               *)

LEMMA SeqParts ==
  ASSUME NEW S, NEW s \in Seq(S)
  PROVE  /\ Len(s) \in Nat /\ DOMAIN s = 1..Len(s)
         /\ \A i \in DOMAIN s : s[i] \in S /\ s[i] \in ToSet(s)
         /\ ToSet(s) \subseteq S
  BY LenProperties DEF ToSet

LEMMA NoElements == Distinct(<<>>) /\ ToSet(<<>>) = {} /\ (\A t : InOrder(<<>>, t))
<1>1. DOMAIN <<>> = {}
  BY EmptySeq
<1> QED BY <1>1 DEF Distinct, ToSet, InOrder

LEMMA OneElement ==
  ASSUME NEW S, NEW x \in S
  PROVE  /\ <<x>> \in Seq(S) /\ Len(<<x>>) = 1 /\ <<x>> # <<>>
         /\ ToSet(<<x>>) = {x} /\ Distinct(<<x>>) /\ \A t : InOrder(<<x>>, t)
<1>1. <<x>> \in Seq(S) /\ Len(<<x>>) = 1 /\ DOMAIN <<x>> = {1} /\ <<x>>[1] = x
  OBVIOUS
<1> QED BY <1>1 DEF Distinct, ToSet, InOrder

\* Joining: what is in s comes first.
LEMMA Joined ==
  ASSUME NEW S, NEW s \in Seq(S), NEW u \in Seq(S)
  PROVE  /\ s \o u \in Seq(S) /\ Len(s \o u) = Len(s) + Len(u)
         /\ DOMAIN (s \o u) = 1..(Len(s) + Len(u))
         /\ \A i \in DOMAIN s : i \in DOMAIN (s \o u) /\ (s \o u)[i] = s[i]
         /\ \A j \in DOMAIN u : Len(s) + j \in DOMAIN (s \o u) /\ (s \o u)[Len(s) + j] = u[j]
         /\ \A i \in DOMAIN (s \o u) : i \in DOMAIN s \/ (i - Len(s) \in DOMAIN u /\ i > Len(s))
<1>1. Len(s) \in Nat /\ DOMAIN s = 1..Len(s) /\ Len(u) \in Nat /\ DOMAIN u = 1..Len(u)
  BY LenProperties
<1>2. /\ s \o u \in Seq(S) /\ Len(s \o u) = Len(s) + Len(u)
      /\ \A i \in 1..(Len(s) + Len(u)) : (s \o u)[i] = IF i <= Len(s) THEN s[i] ELSE u[i - Len(s)]
  BY ConcatProperties
<1>3. DOMAIN (s \o u) = 1..(Len(s) + Len(u))
  BY <1>2, LenProperties
<1> DEFINE r == s \o u
           m == Len(s)
           n == Len(u)
<1> HIDE DEF r, m, n
<1>4. /\ m \in Nat /\ DOMAIN s = 1..m /\ n \in Nat /\ DOMAIN u = 1..n /\ DOMAIN r = 1..(m + n)
      /\ \A i \in 1..(m + n) : r[i] = IF i <= m THEN s[i] ELSE u[i - m]
  BY <1>1, <1>2, <1>3 DEF r, m, n
<1>5. \A i \in DOMAIN s : i \in DOMAIN r /\ r[i] = s[i]
  BY <1>4
<1>6. \A j \in DOMAIN u : m + j \in DOMAIN r /\ r[m + j] = u[j]
  <2> SUFFICES ASSUME NEW j \in 1..n
               PROVE  m + j \in 1..(m + n) /\ r[m + j] = u[j]
    BY <1>4
  <2>1. m + j \in 1..(m + n) /\ ~(m + j <= m) /\ m + j - m = j
    BY <1>4
  <2> QED BY <1>4, <2>1
<1>7. \A i \in DOMAIN r : i \in DOMAIN s \/ (i - m \in DOMAIN u /\ i > m)
  BY <1>4
<1> QED BY <1>2, <1>3, <1>5, <1>6, <1>7 DEF r, m, n

LEMMA JoinedSets ==
  ASSUME NEW S, NEW s \in Seq(S), NEW u \in Seq(S)
  PROVE  ToSet(s \o u) = ToSet(s) \union ToSet(u)
<1> DEFINE r == s \o u
           m == Len(s)
<1>1. /\ \A i \in DOMAIN s : i \in DOMAIN r /\ r[i] = s[i]
      /\ \A j \in DOMAIN u : m + j \in DOMAIN r /\ r[m + j] = u[j]
      /\ \A i \in DOMAIN r : i \in DOMAIN s \/ (i - m \in DOMAIN u /\ i > m)
  BY Joined
<1>2. \A i \in DOMAIN r : m + (i - m) = i
  BY Joined, SeqParts
<1> HIDE DEF r, m
<1>3. ToSet(r) \subseteq ToSet(s) \union ToSet(u)
  <2> SUFFICES ASSUME NEW i \in DOMAIN r
               PROVE  r[i] \in ToSet(s) \union ToSet(u)
    BY DEF ToSet
  <2>1. CASE i \in DOMAIN s
    BY <1>1, <2>1 DEF ToSet
  <2>2. CASE i - m \in DOMAIN u
    <3>1. r[m + (i - m)] = u[i - m]
      BY <1>1, <2>2
    <3> QED BY <1>2, <2>2, <3>1 DEF ToSet
  <2> QED BY <1>1, <2>1, <2>2
<1>4. ToSet(s) \subseteq ToSet(r) /\ ToSet(u) \subseteq ToSet(r)
  BY <1>1 DEF ToSet
<1> QED BY <1>3, <1>4 DEF r

LEMMA JoinedDistinct ==
  ASSUME NEW S, NEW s \in Seq(S), NEW u \in Seq(S), Distinct(s), Distinct(u),
         ToSet(s) \intersect ToSet(u) = {}
  PROVE  Distinct(s \o u)
<1> DEFINE r == s \o u
           m == Len(s)
<1>1. /\ \A i \in DOMAIN s : r[i] = s[i] /\ s[i] \in ToSet(s)
      /\ \A j \in DOMAIN u : r[m + j] = u[j] /\ u[j] \in ToSet(u)
      /\ \A i \in DOMAIN r : i \in DOMAIN s \/ i - m \in DOMAIN u
  BY Joined, SeqParts
<1>2. \A i \in DOMAIN r : i \in Int /\ m + (i - m) = i /\ m \in Int
  BY Joined, SeqParts
<1> HIDE DEF r, m
<1> SUFFICES ASSUME NEW i \in DOMAIN r, NEW j \in DOMAIN r, i # j
             PROVE  r[i] # r[j]
  BY DEF Distinct, r
<1>3. CASE i \in DOMAIN s /\ j \in DOMAIN s
  BY <1>1, <1>3 DEF Distinct
<1>4. ASSUME NEW k \in DOMAIN r, k - m \in DOMAIN u
      PROVE  r[k] = u[k - m] /\ r[k] \in ToSet(u)
  <2>1. r[m + (k - m)] = u[k - m] /\ u[k - m] \in ToSet(u)
    BY <1>1, <1>4
  <2> QED BY <1>2, <2>1
<1>5. CASE i \in DOMAIN s /\ j - m \in DOMAIN u
  BY <1>1, <1>4, <1>5
<1>6. CASE i - m \in DOMAIN u /\ j \in DOMAIN s
  BY <1>1, <1>4, <1>6
<1>7. CASE i - m \in DOMAIN u /\ j - m \in DOMAIN u
  <2>1. i - m # j - m
    BY <1>2
  <2> QED BY <1>4, <1>7, <2>1 DEF Distinct
<1> QED BY <1>1, <1>3, <1>5, <1>6, <1>7

LEMMA JoinedInOrder ==
  ASSUME NEW s \in Seq(Inputs), NEW u \in Seq(Inputs), NEW t,
         InOrder(s, t), InOrder(u, t), Ahead(s, u, t)
  PROVE  InOrder(s \o u, t)
<1> DEFINE r == s \o u
           m == Len(s)
<1>1. /\ \A i \in DOMAIN s : r[i] = s[i] /\ s[i] \in ToSet(s)
      /\ \A j \in DOMAIN u : r[m + j] = u[j] /\ u[j] \in ToSet(u)
      /\ \A i \in DOMAIN r : i \in DOMAIN s \/ (i - m \in DOMAIN u /\ i > m)
  BY Joined, SeqParts
<1>2. /\ \A i \in DOMAIN r : i \in Int /\ m + (i - m) = i /\ m \in Int
      /\ \A i \in DOMAIN s : i \in Int /\ i <= m
  BY Joined, SeqParts
<1> HIDE DEF r, m
<1> SUFFICES ASSUME NEW i \in DOMAIN r, NEW j \in DOMAIN r, i < j, r[i] \in t, r[j] \in t
             PROVE  r[i] < r[j]
  BY DEF InOrder, r
<1>3. CASE i \in DOMAIN s /\ j \in DOMAIN s
  BY <1>1, <1>3 DEF InOrder
<1>4. ASSUME NEW k \in DOMAIN r, k - m \in DOMAIN u
      PROVE  r[k] = u[k - m] /\ r[k] \in ToSet(u)
  <2>1. r[m + (k - m)] = u[k - m] /\ u[k - m] \in ToSet(u)
    BY <1>1, <1>4
  <2> QED BY <1>2, <2>1
<1>5. CASE i \in DOMAIN s /\ j - m \in DOMAIN u
  BY <1>1, <1>4, <1>5 DEF Ahead
<1>6. CASE i - m \in DOMAIN u /\ i > m /\ j \in DOMAIN s
  <2>1. j <= m /\ i \in Int /\ j \in Int /\ m \in Int
    BY <1>2, <1>6
  <2> QED BY <1>6, <2>1
<1>7. CASE i - m \in DOMAIN u /\ j - m \in DOMAIN u
  <2>1. i - m < j - m
    BY <1>2
  <2> QED BY <1>4, <1>7, <2>1 DEF InOrder
<1> QED BY <1>1, <1>3, <1>5, <1>6, <1>7

\* A part of a sequence, by where it begins.
Part(u, s, k) == \A i \in DOMAIN u : k + i \in DOMAIN s /\ u[i] = s[k + i]

LEMMA PartOf ==
  ASSUME NEW s \in Seq(Inputs), NEW u \in Seq(Inputs), NEW k \in Nat, Part(u, s, k)
  PROVE  /\ ToSet(u) \subseteq ToSet(s)
         /\ Distinct(s) => Distinct(u)
         /\ \A t : InOrder(s, t) => InOrder(u, t)
<1>1. DOMAIN u \subseteq Int
  BY SeqParts
<1>2. ToSet(u) \subseteq ToSet(s)
  BY DEF Part, ToSet
<1>3. ASSUME Distinct(s) PROVE Distinct(u)
  <2> SUFFICES ASSUME NEW i \in DOMAIN u, NEW j \in DOMAIN u, i # j
               PROVE  u[i] # u[j]
    BY DEF Distinct
  <2>1. k + i # k + j
    BY <1>1
  <2> QED BY <1>3, <2>1 DEF Distinct, Part
<1>4. ASSUME NEW t, InOrder(s, t) PROVE InOrder(u, t)
  <2> SUFFICES ASSUME NEW i \in DOMAIN u, NEW j \in DOMAIN u, i < j, u[i] \in t, u[j] \in t
               PROVE  u[i] < u[j]
    BY DEF InOrder
  <2>1. k + i < k + j
    BY <1>1
  <2> QED BY <1>4, <2>1 DEF InOrder, Part
<1> QED BY <1>2, <1>3, <1>4

\* Taking n elements from the front.
LEMMA Split ==
  ASSUME NEW s \in Seq(Inputs), NEW n \in 0..Len(s)
  PROVE  /\ Prefix(s, n) \in Seq(Inputs) /\ Len(Prefix(s, n)) = n /\ Part(Prefix(s, n), s, 0)
         /\ Suffix(s, n) \in Seq(Inputs) /\ Len(Suffix(s, n)) = Len(s) - n
         /\ Part(Suffix(s, n), s, n)
         /\ \A i \in DOMAIN s : \/ i \in DOMAIN Prefix(s, n) /\ Prefix(s, n)[i] = s[i]
                                \/ i - n \in DOMAIN Suffix(s, n) /\ Suffix(s, n)[i - n] = s[i]
         /\ \A i \in DOMAIN Prefix(s, n) : i <= n
         /\ \A i \in DOMAIN Suffix(s, n) : i > 0
<1> DEFINE p == Prefix(s, n)
           u == Suffix(s, n)
           m == Len(s)
<1>1. m \in Nat /\ DOMAIN s = 1..m /\ n \in Nat /\ n <= m /\ \A i \in 1..m : s[i] \in Inputs
  BY SeqParts
<1>2. /\ p \in Seq(Inputs) /\ Len(p) = n /\ \A i \in 1..n : p[i] = s[1 + i - 1]
  BY <1>1, SubSeqProperties DEF Prefix
<1>3. /\ u \in Seq(Inputs) /\ Len(u) = m - n
      /\ \A i \in 1..(m - n) : u[i] = s[n + 1 + i - 1]
  <2> DEFINE k == n + 1
  <2>1. /\ k \in Int /\ m \in Int /\ \A i \in k..m : s[i] \in Inputs
        /\ m - k + 1 = m - n
        /\ (IF k <= m THEN m - k + 1 ELSE 0) = m - n
    <3> HIDE DEF m
    <3>1. k \in Int /\ m \in Int /\ m - k + 1 = m - n
      BY <1>1
    <3>2. \A i \in k..m : s[i] \in Inputs
      BY <1>1
    <3>3. CASE n = m
      BY <1>1, <3>1, <3>2, <3>3
    <3>4. CASE n < m
      BY <1>1, <3>1, <3>2, <3>4
    <3> QED BY <1>1, <3>3, <3>4
  <2>2. u = SubSeq(s, k, m)
    BY DEF Suffix
  <2> HIDE DEF k, u, m
  <2>3. /\ u \in Seq(Inputs) /\ Len(u) = (IF k <= m THEN m - k + 1 ELSE 0)
        /\ \A i \in 1..(m - k + 1) : u[i] = s[k + i - 1]
    BY <2>1, <2>2, SubSeqProperties
  <2> QED BY <2>1, <2>3 DEF k
<1>4. DOMAIN p = 1..n /\ DOMAIN u = 1..(m - n)
  BY <1>2, <1>3, LenProperties
<1> HIDE DEF p, u, m
<1>5. Part(p, s, 0)
  BY <1>1, <1>2, <1>4 DEF Part
<1>6. Part(u, s, n)
  BY <1>1, <1>3, <1>4 DEF Part
<1>7. \A i \in DOMAIN s : \/ i \in DOMAIN p /\ p[i] = s[i]
                          \/ i - n \in DOMAIN u /\ u[i - n] = s[i]
  <2> TAKE i \in DOMAIN s
  <2>1. CASE i <= n
    BY <1>1, <1>2, <1>4, <2>1
  <2>2. CASE i > n
    <3>1. i - n \in 1..(m - n) /\ n + 1 + (i - n) - 1 = i
      BY <1>1, <2>2
    <3> QED BY <1>3, <1>4, <3>1
  <2> QED BY <1>1, <2>1, <2>2
<1>8. (\A i \in DOMAIN p : i <= n) /\ (\A i \in DOMAIN u : i > 0)
  BY <1>1, <1>4
<1> QED BY <1>2, <1>3, <1>5, <1>6, <1>7, <1>8 DEF p, u, m

LEMMA SplitSets ==
  ASSUME NEW s \in Seq(Inputs), NEW n \in 0..Len(s)
  PROVE  /\ ToSet(s) = ToSet(Prefix(s, n)) \union ToSet(Suffix(s, n))
         /\ Distinct(s) => /\ Distinct(Prefix(s, n)) /\ Distinct(Suffix(s, n))
                           /\ ToSet(Prefix(s, n)) \intersect ToSet(Suffix(s, n)) = {}
         /\ \A t : InOrder(s, t) => /\ InOrder(Prefix(s, n), t) /\ InOrder(Suffix(s, n), t)
                                    /\ Ahead(Prefix(s, n), Suffix(s, n), t)
<1> DEFINE p == Prefix(s, n)
           u == Suffix(s, n)
<1>1. /\ p \in Seq(Inputs) /\ u \in Seq(Inputs) /\ n \in Nat /\ 0 \in Nat
      /\ Part(p, s, 0) /\ Part(u, s, n)
      /\ \A i \in DOMAIN p : i <= n
      /\ \A i \in DOMAIN u : i > 0
  BY Split
<1>2. \A i \in DOMAIN s : \/ i \in DOMAIN p /\ p[i] = s[i]
                          \/ i - n \in DOMAIN u /\ u[i - n] = s[i]
  BY Split
<1>3. DOMAIN p \subseteq Int /\ DOMAIN u \subseteq Int
  BY <1>1, SeqParts
<1> HIDE DEF p, u
<1>4. ToSet(p) \subseteq ToSet(s) /\ ToSet(u) \subseteq ToSet(s)
  BY <1>1, PartOf
<1>5. ToSet(s) \subseteq ToSet(p) \union ToSet(u)
  BY <1>2 DEF ToSet
<1>6. \A i \in DOMAIN p, j \in DOMAIN u : /\ 0 + i \in DOMAIN s /\ n + j \in DOMAIN s
                                          /\ 0 + i < n + j
                                          /\ p[i] = s[0 + i] /\ u[j] = s[n + j]
  <2> TAKE i \in DOMAIN p, j \in DOMAIN u
  <2>1. 0 + i < n + j
    BY <1>1, <1>3
  <2> QED BY <1>1, <2>1 DEF Part
<1>7. ASSUME Distinct(s)
      PROVE  Distinct(p) /\ Distinct(u) /\ ToSet(p) \intersect ToSet(u) = {}
  <2>1. Distinct(p) /\ Distinct(u)
    BY <1>1, <1>7, PartOf
  <2>2. \A i \in DOMAIN p, j \in DOMAIN u : 0 + i # n + j
    BY <1>1, <1>3
  <2>3. \A i \in DOMAIN p, j \in DOMAIN u : p[i] # u[j]
    BY <1>6, <1>7, <2>2 DEF Distinct
  <2> QED BY <2>1, <2>3 DEF ToSet
<1>8. ASSUME NEW t, InOrder(s, t)
      PROVE  InOrder(p, t) /\ InOrder(u, t) /\ Ahead(p, u, t)
  <2>1. InOrder(p, t) /\ InOrder(u, t)
    BY <1>1, <1>8, PartOf
  <2>2. \A i \in DOMAIN p, j \in DOMAIN u : p[i] \in t /\ u[j] \in t => p[i] < u[j]
    BY <1>6, <1>8 DEF InOrder
  <2> QED BY <2>1, <2>2 DEF ToSet, Ahead
<1> QED BY <1>4, <1>5, <1>7, <1>8 DEF p, u

\* A sequence without its head.
LEMMA HeadTail ==
  ASSUME NEW s \in Seq(Inputs), s # <<>>
  PROVE  /\ Head(s) \in Inputs /\ Tail(s) \in Seq(Inputs) /\ Head(s) \in ToSet(s)
         /\ ToSet(s) = {Head(s)} \union ToSet(Tail(s))
         /\ Distinct(s) => Distinct(Tail(s)) /\ Head(s) \notin ToSet(Tail(s))
<1> DEFINE u == Tail(s)
           m == Len(s)
<1>1. /\ m \in Nat \ {0} /\ DOMAIN s = 1..m /\ Head(s) = s[1] /\ \A i \in 1..m : s[i] \in Inputs
      /\ u \in Seq(Inputs) /\ Len(u) = m - 1 /\ \A i \in 1..(m - 1) : u[i] = s[i + 1]
  BY HeadTailProperties, SeqParts, EmptySeq
<1>2. DOMAIN u = 1..(m - 1)
  BY <1>1, LenProperties
<1> HIDE DEF u, m
<1>3. Part(u, s, 1)
  BY <1>1, <1>2 DEF Part
<1>4. ToSet(u) \subseteq ToSet(s) /\ (Distinct(s) => Distinct(u)) /\ Head(s) \in ToSet(s)
  <2>1. ToSet(u) \subseteq ToSet(s) /\ (Distinct(s) => Distinct(u))
    BY <1>1, <1>3, PartOf, 1 \in Nat
  <2>2. 1 \in DOMAIN s
    BY <1>1
  <2> QED BY <1>1, <2>1, <2>2 DEF ToSet
<1>5. \A i \in DOMAIN s : s[i] = Head(s) \/ s[i] \in ToSet(u)
  <2> SUFFICES ASSUME NEW i \in 1..m, i # 1
               PROVE  s[i] \in ToSet(u)
    BY <1>1
  <2>1. i - 1 \in 1..(m - 1) /\ i - 1 + 1 = i
    BY <1>1
  <2> QED BY <1>1, <1>2, <2>1 DEF ToSet
<1>6. ASSUME Distinct(s)
      PROVE  Head(s) \notin ToSet(u)
  <2> SUFFICES ASSUME NEW i \in 1..(m - 1)
               PROVE  u[i] # s[1]
    BY <1>1, <1>2 DEF ToSet
  <2>1. i + 1 \in DOMAIN s /\ 1 \in DOMAIN s /\ i + 1 # 1
    BY <1>1
  <2> QED BY <1>1, <1>6, <2>1 DEF Distinct
<1>7. ToSet(s) = {Head(s)} \union ToSet(u)
  BY <1>4, <1>5 DEF ToSet
<1> QED BY <1>1, <1>4, <1>6, <1>7 DEF u

\* An element more at the end.
LEMMA Appended ==
  ASSUME NEW s \in Seq(Inputs), NEW x \in Inputs
  PROVE  /\ Append(s, x) \in Seq(Inputs) /\ Len(Append(s, x)) = Len(s) + 1
         /\ ToSet(Append(s, x)) = ToSet(s) \union {x}
         /\ Distinct(s) /\ x \notin ToSet(s) => Distinct(Append(s, x))
<1>1. Append(s, x) = s \o <<x>>
  BY AppendIsConcat
<1>2. <<x>> \in Seq(Inputs) /\ Len(<<x>>) = 1 /\ ToSet(<<x>>) = {x} /\ Distinct(<<x>>)
  BY OneElement
<1>3. s \o <<x>> \in Seq(Inputs) /\ Len(s \o <<x>>) = Len(s) + Len(<<x>>)
  BY <1>2, ConcatProperties
<1>5. ToSet(s \o <<x>>) = ToSet(s) \union ToSet(<<x>>)
  BY <1>2, JoinedSets
<1>4. ASSUME Distinct(s), x \notin ToSet(s)
      PROVE  Distinct(s \o <<x>>)
  BY <1>2, <1>4, JoinedDistinct
<1> QED BY <1>1, <1>2, <1>3, <1>4, <1>5

-----------------------------------------------------------------------------
(* Where the inputs are.                                                    *)

InputInv == TypeInputs /\ NoneTwice /\ Placed /\ KindsKnown /\ SavedInv /\ OrderInv

\* A new input is newer than every other, and the kind of the others is kept.
LEMMA NewInput ==
  ASSUME TypeInputs, NEW k \in Kinds, NEW x, Accept(k, x)
  PROVE  /\ x \in Inputs /\ x \notin Accepted /\ Accepted' = Accepted \union {x}
         /\ kind' \in Seq(Kinds) /\ Len(kind') <= MaxInputs /\ kind'[x] = k
         /\ \A y \in Accepted : kind'[y] = kind[y] /\ y < x
<1> DEFINE n == Len(kind)
<1>1. n \in Nat /\ n < MaxInputs /\ x = n + 1 /\ kind' = Append(kind, k) /\ kind \in Seq(Kinds)
  BY LenProperties DEF TypeInputs, Accept
<1>2. /\ kind' \in Seq(Kinds) /\ Len(kind') = n + 1 /\ kind'[n + 1] = k
      /\ \A y \in 1..n : kind'[y] = kind[y]
  BY <1>1, AppendProperties
<1> HIDE DEF n
<1>3. /\ x \in 1..MaxInputs /\ x \notin 1..n /\ 1..(n + 1) = (1..n) \union {x}
      /\ n + 1 <= MaxInputs /\ \A y \in 1..n : y < x
  BY <1>1, ShellAssumption
<1> QED BY <1>1, <1>2, <1>3 DEF n, Inputs, Accepted

\* What comes to the queue is queued behind the rest, or dropped.
Divided(xs) ==
    \E A, B \in SUBSET Inputs :
        /\ A \union B = xs /\ A \intersect B = {}
        /\ ToSet(queue') = ToSet(queue) \union A /\ dropped' = dropped \union B
LEMMA EnqueueKeeps ==
  ASSUME TypeInputs, NEW xs \in Seq(Inputs), Enqueue(xs), Distinct(queue), Distinct(xs),
         ToSet(queue) \intersect ToSet(xs) = {}
  PROVE  /\ queue' \in Seq(Inputs) /\ later' = later /\ Distinct(queue')
         /\ Len(queue') + Len(later') <= QueueCap
         /\ Divided(ToSet(xs))
         /\ \A t : InOrder(queue, t) /\ InOrder(xs, t) /\ Ahead(queue, xs, t) => InOrder(queue', t)
<1> DEFINE n == IF Len(xs) < Room THEN Len(xs) ELSE Room
           p == Prefix(xs, n)
           u == Suffix(xs, n)
<1>1. /\ queue' = queue \o p /\ dropped' = dropped \union ToSet(u) /\ later' = later
      /\ queue \in Seq(Inputs) /\ later \in Seq(Inputs)
  BY DEF Enqueue, TypeInputs
<1>2. /\ Len(xs) \in Nat /\ Len(queue) \in Nat /\ Len(later) \in Nat
      /\ Room = QueueCap - (Len(queue) + Len(later))
      /\ Len(queue) + Len(later) <= QueueCap
  BY <1>1, LenProperties DEF TypeInputs, Room
<1>3. n \in 0..Len(xs) /\ Len(queue) + n + Len(later) <= QueueCap
  BY <1>2, ShellAssumption
<1> HIDE DEF n, p, u
<1>4. p \in Seq(Inputs) /\ Len(p) = n /\ u \in Seq(Inputs)
  BY <1>3, Split DEF p, u
<1>5. ToSet(xs) = ToSet(p) \union ToSet(u)
  BY <1>3, SplitSets DEF p, u
<1>6. Distinct(p) /\ ToSet(p) \intersect ToSet(u) = {}
  BY <1>3, SplitSets DEF p, u
<1>7. queue' \in Seq(Inputs) /\ Len(queue') = Len(queue) + n
  BY <1>1, <1>4, ConcatProperties
<1>8. ToSet(queue') = ToSet(queue) \union ToSet(p)
  BY <1>1, <1>4, JoinedSets
<1>9. Distinct(queue')
  BY <1>1, <1>4, <1>5, <1>6, JoinedDistinct
<1>10. ToSet(p) \in SUBSET Inputs /\ ToSet(u) \in SUBSET Inputs
  BY <1>4, SeqParts
<1>11. ASSUME NEW t, InOrder(queue, t), InOrder(xs, t), Ahead(queue, xs, t)
       PROVE  InOrder(queue', t)
  <2>1. InOrder(p, t)
    BY <1>3, <1>11, SplitSets DEF p
  <2>2. Ahead(queue, p, t)
    BY <1>5, <1>11 DEF Ahead
  <2> QED BY <1>1, <1>4, <1>11, <2>1, <2>2, JoinedInOrder
<1>12. Len(queue') + Len(later') <= QueueCap
  BY <1>1, <1>3, <1>7
<1>13. Divided(ToSet(xs))
  BY <1>1, <1>5, <1>6, <1>8, <1>10 DEF Divided
<1> QED BY <1>1, <1>7, <1>9, <1>11, <1>12, <1>13

\* Order is about the typed prompts in a sequence only.
LEMMA FewerInOrder ==
  ASSUME NEW s, NEW t, NEW t2, InOrder(s, t), \A x \in ToSet(s) : x \in t2 => x \in t
  PROVE  InOrder(s, t2)
  BY DEF InOrder, ToSet

LEMMA NotTyped ==
  ASSUME NEW s, NEW t, ToSet(s) \intersect t = {}
  PROVE  InOrder(s, t) /\ \A u : Ahead(s, u, t) /\ Ahead(u, s, t)
  BY DEF InOrder, ToSet, Ahead

LEMMA SteerPromptsInputs == IInv /\ SteerPrompts => InputInv'
<1> SUFFICES ASSUME IInv, SteerPrompts PROVE InputInv'
  OBVIOUS
<1>1. /\ steerQ \in Seq(Inputs) /\ front.batch \in Seq(Inputs) /\ Distinct(steerQ)
      /\ Distinct(front.batch)
  BY DEF IInv, Types, TypeInputs, TypeFront, Fronts, NoneTwice
<1>2. ToSet(steerQ) \intersect ToSet(front.batch) = {}
  BY DEF IInv, Placed, Apart
<1>3. /\ steerQ' \in Seq(Inputs) /\ ToSet(steerQ') = ToSet(steerQ) \union ToSet(front.batch)
      /\ Distinct(steerQ')
  BY <1>1, <1>2, ConcatProperties, JoinedSets, JoinedDistinct DEF SteerPrompts
<1>4. front'.batch = <<>> /\ ToSet(<<>>) = {} /\ Distinct(<<>>)
  BY NoElements DEF SteerPrompts, IInv, Types, TypeFront, Fronts
<1>5. TypeInputs' /\ NoneTwice'
  BY <1>3, <1>4 DEF SteerPrompts, shell, app, IInv, Types, TypeInputs, NoneTwice
<1>6. Carried' = Carried /\ Accepted' = Accepted /\ Typed' = Typed
  BY DEF SteerPrompts, app, Carried, Accepted, Typed
<1>7. Placed'
  BY <1>3, <1>4, <1>6 DEF SteerPrompts, shell, app, IInv, Placed, Apart
<1>8. KindsKnown' /\ SavedInv'
  BY <1>3, <1>4, <1>6
     DEF SteerPrompts, shell, app, IInv, KindsKnown, OfKind, SavedInv, Stored, Recorded
<1>9. InOrder(steerQ', Typed)
  BY <1>1, JoinedInOrder DEF SteerPrompts, IInv, OrderInv
<1>10. OrderInv'
  BY <1>3, <1>4, <1>6, <1>9, NoElements DEF SteerPrompts, shell, IInv, OrderInv, Ahead
<1> QED BY <1>5, <1>7, <1>8, <1>10 DEF InputInv

\* A new input changes nothing for the others.
LEMMA Others ==
  ASSUME IInv, NEW k \in Kinds, NEW x, Accept(k, x), displaced' = displaced
  PROVE  /\ \A y \in Accepted : y \in Typed' <=> y \in Typed
         /\ k # "prompt" => Typed' = Typed
<1>1. /\ x \notin Accepted /\ Accepted' = Accepted \union {x} /\ kind'[x] = k
      /\ \A y \in Accepted : kind'[y] = kind[y]
  BY NewInput DEF IInv, Types
<1> QED BY <1>1 DEF Typed

\* Everything there is was accepted.
LEMMA Located ==
  ASSUME IInv
  PROVE  /\ ToSet(queue) \union ToSet(later) \union ToSet(notes) \union ToSet(actions)
            \union ToSet(steerQ) \union ToSet(history) \union ToSet(front.batch)
            \union ToSet(Carried) \subseteq Accepted
         /\ ran \union dropped \subseteq Accepted
  BY DEF IInv, Placed, Apart

\* A message is written, or is known not to be.
LEMMA Saves ==
  ASSUME TypeInputs, NEW xs \in Seq(Inputs), Save(xs)
  PROVE  /\ saved' \in Seq(Inputs) /\ unsaved' \subseteq Inputs
         /\ Recorded' = Recorded \union ToSet(xs)
<1>1. saved \in Seq(Inputs) /\ unsaved \subseteq Inputs /\ ToSet(xs) \subseteq Inputs
  BY SeqParts DEF TypeInputs
<1>2. /\ saved \o xs \in Seq(Inputs)
      /\ ToSet(saved \o xs) = ToSet(saved) \union ToSet(xs)
  BY <1>1, ConcatProperties, JoinedSets
<1> QED BY <1>1, <1>2 DEF Save, Recorded

LEMMA SubmitCommandInputs ==
  ASSUME IInv, NEW x, SubmitCommand(x)
  PROVE  InputInv'
<1>1. /\ x \in Inputs /\ x \notin Accepted /\ Accepted' = Accepted \union {x}
      /\ kind' \in Seq(Kinds) /\ Len(kind') <= MaxInputs /\ kind'[x] = "command"
      /\ \A y \in Accepted : kind'[y] = kind[y] /\ y < x
  BY NewInput DEF IInv, Types, SubmitCommand, Kinds
<1>2. front.batch = <<>> /\ front'.batch = <<>> /\ front.at = "ready"
  BY DEF SubmitCommand, Ready, At
<1>3. Carried' = Carried /\ Typed' = Typed
  BY Others DEF SubmitCommand, app, Carried, Kinds
<1>4. TypeInputs' /\ NoneTwice'
  BY <1>1, <1>2 DEF SubmitCommand, app, agent, IInv, Types, TypeInputs, NoneTwice
<1>5. Placed'
  <2>1. /\ queue' = queue /\ later' = later /\ notes' = notes /\ actions' = actions
        /\ steerQ' = steerQ /\ history' = history /\ front'.batch = front.batch
        /\ Carried' = Carried /\ ran' = ran \union {x} /\ dropped' = dropped
    BY <1>2, <1>3 DEF SubmitCommand, app, agent
  <2>2. Placed /\ x \notin Accepted /\ Accepted' = Accepted \union {x}
    BY <1>1 DEF IInv
  <2> QED BY <2>1, <2>2 DEF Placed, Apart
<1>6. KindsKnown' /\ SavedInv'
  BY <1>1, <1>2, <1>3, Located
     DEF SubmitCommand, app, agent, IInv, KindsKnown, OfKind, SavedInv, Stored, Recorded
<1>7. OrderInv'
  BY <1>2, <1>3 DEF SubmitCommand, app, agent, IInv, OrderInv
<1> QED BY <1>4, <1>5, <1>6, <1>7 DEF InputInv

LEMMA SubmitPromptInputs ==
  ASSUME IInv, NEW x, SubmitPrompt(x)
  PROVE  InputInv'
<1>1. /\ x \in Inputs /\ x \notin Accepted /\ Accepted' = Accepted \union {x}
      /\ kind' \in Seq(Kinds) /\ Len(kind') <= MaxInputs /\ kind'[x] = "prompt"
      /\ \A y \in Accepted : kind'[y] = kind[y] /\ y < x
  BY NewInput DEF IInv, Types, SubmitPrompt, Kinds
<1>2. front.batch = <<>> /\ front'.batch = <<x>> /\ front.at = "ready" /\ front'.at = "start"
  BY DEF SubmitPrompt, Ready, At
<1>3. /\ ToSet(<<>>) = {} /\ ToSet(<<x>>) = {x} /\ Distinct(<<x>>)
      /\ InOrder(<<x>>, Typed')
  BY <1>1, NoElements, OneElement
<1>4. Carried' = Carried /\ \A y \in Accepted : y \in Typed' <=> y \in Typed
  BY Others DEF SubmitPrompt, app, Carried, Kinds
<1>5. /\ saved' \in Seq(Inputs) /\ unsaved' \subseteq Inputs
      /\ Recorded' = Recorded \union {x}
  BY <1>1, <1>3, OneElement, Saves DEF SubmitPrompt, IInv, Types
<1>6. TypeInputs' /\ NoneTwice'
  BY <1>1, <1>2, <1>3, <1>5 DEF SubmitPrompt, app, agent, IInv, Types, TypeInputs, NoneTwice
<1>7. Placed'
  <2>1. /\ queue' = queue /\ later' = later /\ notes' = notes /\ actions' = actions
        /\ steerQ' = steerQ /\ history' = history /\ ToSet(front'.batch) = {x}
        /\ ToSet(front.batch) = {} /\ Carried' = Carried /\ ran' = ran /\ dropped' = dropped
    BY <1>2, <1>3, <1>4 DEF SubmitPrompt, app, agent
  <2>2. Placed /\ x \notin Accepted /\ Accepted' = Accepted \union {x}
    BY <1>1 DEF IInv
  <2> QED BY <2>1, <2>2 DEF Placed, Apart
<1>8. KindsKnown' /\ SavedInv'
  BY <1>1, <1>2, <1>3, <1>4, <1>5, Located
     DEF SubmitPrompt, app, agent, IInv, KindsKnown, OfKind, SavedInv, Stored
<1>9. OrderInv'
  <2>1. /\ ToSet(history) \subseteq Accepted /\ ToSet(steerQ) \subseteq Accepted
        /\ ToSet(queue) \subseteq Accepted
    BY Located
  <2>2. InOrder(history', Typed') /\ InOrder(steerQ', Typed') /\ InOrder(queue', Typed')
    BY <1>4, <2>1, FewerInOrder DEF SubmitPrompt, agent, IInv, OrderInv
  <2>3. ToSet(queue') \intersect Typed' = {}
    BY <1>2, <1>4, <2>1 DEF SubmitPrompt, IInv, OrderInv
  <2>4. /\ Ahead(front'.batch, queue', Typed') /\ Ahead(history', queue', Typed')
        /\ Ahead(steerQ', queue', Typed')
    BY <2>3, NotTyped
  <2>5. Ahead(history', front'.batch, Typed') /\ Ahead(steerQ', front'.batch, Typed')
    BY <1>1, <1>2, <1>3, <2>1 DEF SubmitPrompt, agent, Ahead
  <2>6. Ahead(history', steerQ', Typed')
    BY <1>4, <2>1 DEF SubmitPrompt, agent, IInv, OrderInv, Ahead
  <2> QED BY <1>2, <1>3, <2>2, <2>3, <2>4, <2>5, <2>6 DEF OrderInv
<1> QED BY <1>6, <1>7, <1>8, <1>9 DEF InputInv

LEMMA StartAgentInputs ==
  ASSUME IInv, StartAgent
  PROVE  InputInv'
<1>1. /\ history \in Seq(Inputs) /\ front.batch \in Seq(Inputs) /\ Distinct(history)
      /\ Distinct(front.batch) /\ steerQ \in Seq(Inputs)
  BY DEF IInv, Types, TypeInputs, TypeFront, Fronts, NoneTwice
<1>2. ToSet(history) \intersect ToSet(front.batch) = {} /\ ToSet(steerQ) \subseteq Inputs
  BY <1>1, SeqParts DEF IInv, Placed, Apart
<1>3. /\ history' \in Seq(Inputs) /\ ToSet(history') = ToSet(history) \union ToSet(front.batch)
      /\ Distinct(history')
  BY <1>1, <1>2, ConcatProperties, JoinedSets, JoinedDistinct DEF StartAgent
<1>4. /\ front'.batch = <<>> /\ ToSet(<<>>) = {} /\ Distinct(<<>>) /\ front'.at = "clear"
      /\ front.at = "start" /\ \A t : InOrder(<<>>, t)
  BY NoElements DEF StartAgent, IInv, Types, TypeFront, Fronts
<1>5. TypeInputs' /\ NoneTwice'
  BY <1>2, <1>3, <1>4 DEF StartAgent, shell, app, IInv, Types, TypeInputs, NoneTwice
<1>6. /\ Carried' = Carried /\ Accepted' = Accepted
      /\ Typed' = Typed \ ToSet(steerQ)
  BY DEF StartAgent, app, Carried, Accepted, Typed
<1>7. Placed'
  BY <1>3, <1>4, <1>6 DEF StartAgent, shell, app, IInv, Placed, Apart
<1>8. KindsKnown' /\ SavedInv'
  BY <1>3, <1>4, <1>6
     DEF StartAgent, shell, app, IInv, KindsKnown, OfKind, SavedInv, Stored, Recorded
<1>9. OrderInv'
  <2>1. InOrder(history', Typed)
    BY <1>1, JoinedInOrder DEF StartAgent, IInv, OrderInv
  <2>2. InOrder(history', Typed') /\ InOrder(queue', Typed')
    BY <1>6, <2>1, FewerInOrder DEF StartAgent, shell, IInv, OrderInv
  <2>3. ToSet(steerQ') \intersect Typed' = {}
    BY <1>6 DEF StartAgent
  <2>4. ToSet(front'.batch) \intersect Typed' = {}
    BY <1>4
  <2>5. /\ InOrder(steerQ', Typed') /\ Ahead(history', steerQ', Typed')
        /\ Ahead(history', front'.batch, Typed') /\ Ahead(steerQ', front'.batch, Typed')
        /\ Ahead(steerQ', queue', Typed') /\ Ahead(front'.batch, queue', Typed')
    BY <2>3, <2>4, NotTyped
  <2>6. Ahead(history', queue', Typed')
    BY <1>3, <1>6 DEF StartAgent, shell, IInv, OrderInv, Ahead
  <2> QED BY <1>4, <2>2, <2>5, <2>6 DEF OrderInv
<1> QED BY <1>5, <1>7, <1>8, <1>9 DEF InputInv

LEMMA StartGivesUpInputs ==
  ASSUME IInv, StartGivesUp
  PROVE  InputInv'
<1>1. front.batch \in Seq(Inputs) /\ ToSet(front.batch) \subseteq Inputs
  BY SeqParts DEF IInv, Types, TypeFront, Fronts
<1>2. /\ front'.batch = <<>> /\ ToSet(<<>>) = {} /\ Distinct(<<>>) /\ front'.at = "clear"
      /\ front.at = "start" /\ \A t : InOrder(<<>>, t)
  BY NoElements DEF StartGivesUp, IInv, Types, TypeFront, Fronts
<1>3. Carried' = Carried /\ Accepted' = Accepted /\ Typed' = Typed
  BY DEF StartGivesUp, app, Carried, Accepted, Typed
<1>4. TypeInputs' /\ NoneTwice'
  BY <1>1, <1>2 DEF StartGivesUp, shell, app, IInv, Types, TypeInputs, NoneTwice
<1>5. Placed'
  BY <1>2, <1>3 DEF StartGivesUp, shell, app, IInv, Placed, Apart
<1>6. KindsKnown' /\ SavedInv'
  BY <1>2, <1>3
     DEF StartGivesUp, shell, app, IInv, KindsKnown, OfKind, SavedInv, Stored, Recorded
<1>7. OrderInv'
  BY <1>2, <1>3 DEF StartGivesUp, shell, IInv, OrderInv, Ahead
<1> QED BY <1>4, <1>5, <1>6, <1>7 DEF InputInv

LEMMA ToolEndInputs ==
  ASSUME IInv, ToolEnd
  PROVE  InputInv'
<1>1. /\ queue \in Seq(Inputs) /\ Distinct(queue) /\ ToSet(queue) \subseteq Inputs
      /\ later \in Seq(Inputs) /\ Len(later) \in Nat /\ Len(queue) \in Nat
  BY SeqParts, LenProperties DEF IInv, Types, TypeInputs, NoneTwice
<1>2. /\ front.batch = <<>> /\ front'.batch = queue /\ queue' = <<>>
      /\ <<>> \in Seq(Inputs) /\ Len(<<>>) = 0
  BY EmptySeq DEF ToolEnd, Receive, Ready, At
<1>3. ToSet(<<>>) = {} /\ Distinct(<<>>) /\ \A t : InOrder(<<>>, t)
  BY NoElements
<1>4. /\ saved' \in Seq(Inputs) /\ unsaved' \subseteq Inputs
      /\ Recorded' = Recorded \union ToSet(queue)
  BY <1>1, Saves DEF ToolEnd, IInv, Types
<1>5. Len(queue') + Len(later') <= QueueCap
  BY <1>1, <1>2, ShellAssumption DEF ToolEnd, IInv, Types, TypeInputs
<1>6. TypeInputs' /\ NoneTwice'
  BY <1>1, <1>2, <1>3, <1>4, <1>5 DEF ToolEnd, app, IInv, Types, TypeInputs, NoneTwice
<1>7. Carried' = Carried /\ Accepted' = Accepted /\ Typed' = Typed
  BY DEF ToolEnd, app, Carried, Accepted, Typed
<1>8. Placed'
  <2>1. /\ ToSet(queue') = {} /\ later' = later /\ notes' = notes /\ actions' = actions
        /\ steerQ' = steerQ /\ history' = history /\ front'.batch = queue
        /\ ToSet(front.batch) = {} /\ Carried' = Carried /\ ran' = ran /\ dropped' = dropped
    BY <1>2, <1>3, <1>7 DEF ToolEnd, app
  <2>2. Placed /\ Accepted' = Accepted
    BY <1>7 DEF IInv
  <2> QED BY <2>1, <2>2 DEF Placed, Apart
<1>9. KindsKnown' /\ SavedInv'
  BY <1>2, <1>3, <1>4, <1>7
     DEF ToolEnd, app, IInv, KindsKnown, OfKind, SavedInv, Stored
<1>10. OrderInv'
  <2>1. ToSet(queue') \intersect Typed' = {}
    BY <1>2, <1>3
  <2>2. /\ InOrder(queue', Typed') /\ Ahead(history', queue', Typed')
        /\ Ahead(steerQ', queue', Typed') /\ Ahead(front'.batch, queue', Typed')
    BY <2>1, NotTyped
  <2> QED BY <1>2, <1>7, <2>1, <2>2 DEF ToolEnd, IInv, OrderInv
<1> QED BY <1>6, <1>8, <1>9, <1>10 DEF InputInv

LEMMA QueuedPromptInputs ==
  ASSUME IInv, NEW x, SubmitQueued("prompt", x)
  PROVE  InputInv'
<1>1. Accept("prompt", x) /\ Enqueue(<<x>>) /\ running /\ running' = running
  BY DEF SubmitQueued
<1>2. /\ x \in Inputs /\ x \notin Accepted /\ Accepted' = Accepted \union {x}
      /\ kind' \in Seq(Kinds) /\ Len(kind') <= MaxInputs /\ kind'[x] = "prompt"
      /\ \A y \in Accepted : kind'[y] = kind[y] /\ y < x
  BY <1>1, NewInput DEF IInv, Types, Kinds
<1>3. front.batch = <<>> /\ front'.batch = <<>>
  BY DEF SubmitQueued, Ready, At
<1>4. /\ <<x>> \in Seq(Inputs) /\ ToSet(<<x>>) = {x} /\ Distinct(<<x>>)
      /\ \A t : InOrder(<<x>>, t)
  BY <1>2, OneElement
<1>5. Distinct(queue) /\ ToSet(queue) \intersect ToSet(<<x>>) = {} /\ TypeInputs
  BY <1>2, <1>4, Located DEF IInv, Types, NoneTwice
<1>6. /\ queue' \in Seq(Inputs) /\ later' = later /\ Distinct(queue')
      /\ Len(queue') + Len(later') <= QueueCap
      /\ Divided({x})
  BY <1>1, <1>4, <1>5, EnqueueKeeps
<1>7. PICK A \in SUBSET Inputs, B \in SUBSET Inputs :
           /\ A \union B = {x} /\ A \intersect B = {}
           /\ ToSet(queue') = ToSet(queue) \union A /\ dropped' = dropped \union B
  BY <1>6 DEF Divided
<1>8. TypeInputs' /\ NoneTwice'
  BY <1>2, <1>3, <1>6, <1>7 DEF SubmitQueued, app, agent, IInv, Types, TypeInputs, NoneTwice
<1>9. Carried' = Carried /\ \A y \in Accepted : y \in Typed' <=> y \in Typed
  BY <1>1, Others DEF SubmitQueued, app, Carried, Kinds
<1>10. Placed'
  <2>1. /\ later' = later /\ notes' = notes /\ actions' = actions /\ steerQ' = steerQ
        /\ history' = history /\ front'.batch = front.batch /\ Carried' = Carried /\ ran' = ran
    BY <1>3, <1>6, <1>9 DEF SubmitQueued, app, agent
  <2>2. Placed /\ x \notin Accepted /\ Accepted' = Accepted \union {x}
    BY <1>2 DEF IInv
  <2> QED BY <1>7, <2>1, <2>2 DEF Placed, Apart
<1>11. KindsKnown' /\ SavedInv'
  BY <1>2, <1>3, <1>9, Located
     DEF SubmitQueued, app, agent, IInv, KindsKnown, OfKind, SavedInv, Stored, Recorded
<1>12. OrderInv'
  <2>1. /\ ToSet(history) \subseteq Accepted /\ ToSet(steerQ) \subseteq Accepted
        /\ ToSet(queue) \subseteq Accepted /\ ToSet(front.batch) \subseteq Accepted
    BY Located
  <2>2. /\ InOrder(history', Typed') /\ InOrder(steerQ', Typed') /\ InOrder(front'.batch, Typed')
        /\ InOrder(queue, Typed')
    BY <1>3, <1>9, <2>1, FewerInOrder DEF SubmitQueued, agent, IInv, OrderInv
  <2>3. Ahead(queue, <<x>>, Typed')
    BY <1>2, <1>4, <2>1 DEF Ahead
  <2>4. InOrder(queue', Typed')
    BY <1>1, <1>4, <1>5, <2>2, <2>3, EnqueueKeeps
  <2>5. /\ Ahead(history', steerQ', Typed') /\ Ahead(history', front'.batch, Typed')
        /\ Ahead(steerQ', front'.batch, Typed')
    BY <1>3, <1>9, <2>1 DEF SubmitQueued, agent, IInv, OrderInv, Ahead
  <2>6. \A y \in ToSet(queue') : y \in ToSet(queue) \/ y = x
    BY <1>7
  <2>7. /\ Ahead(history', queue', Typed') /\ Ahead(steerQ', queue', Typed')
        /\ Ahead(front'.batch, queue', Typed')
    BY <1>2, <1>3, <1>9, <2>1, <2>6 DEF SubmitQueued, agent, IInv, OrderInv, Ahead
  <2> QED BY <1>1, <2>2, <2>4, <2>5, <2>7 DEF OrderInv
<1> QED BY <1>8, <1>10, <1>11, <1>12 DEF InputInv

LEMMA QueuedCommandInputs ==
  ASSUME IInv, NEW x, SubmitQueued("command", x)
  PROVE  InputInv'
<1>1. /\ Accept("command", x) /\ EnqueueCommand(x) /\ running /\ running' = running
      /\ queue' = queue
  BY DEF SubmitQueued, EnqueueCommand
<1>2. /\ x \in Inputs /\ x \notin Accepted /\ Accepted' = Accepted \union {x}
      /\ kind' \in Seq(Kinds) /\ Len(kind') <= MaxInputs /\ kind'[x] = "command"
      /\ \A y \in Accepted : kind'[y] = kind[y] /\ y < x
  BY <1>1, NewInput DEF IInv, Types, Kinds
<1>3. front.batch = <<>> /\ front'.batch = <<>>
  BY DEF SubmitQueued, Ready, At
<1>4. /\ later \in Seq(Inputs) /\ Distinct(later) /\ x \notin ToSet(later)
      /\ Len(later) \in Nat /\ Len(queue) \in Nat
  BY <1>2, Located, LenProperties DEF IInv, Types, TypeInputs, NoneTwice
<1>5. /\ Append(later, x) \in Seq(Inputs) /\ Len(Append(later, x)) = Len(later) + 1
      /\ ToSet(Append(later, x)) = ToSet(later) \union {x} /\ Distinct(Append(later, x))
  BY <1>2, <1>4, Appended
<1>6. /\ later' \in Seq(Inputs) /\ Distinct(later')
      /\ \/ ToSet(later') = ToSet(later) \union {x} /\ dropped' = dropped
         \/ later' = later /\ dropped' = dropped \union {x}
  BY <1>1, <1>4, <1>5 DEF EnqueueCommand
<1>7. Len(queue') + Len(later') <= QueueCap
  <2>1. Len(queue) + Len(later) <= QueueCap
    BY DEF IInv, Types, TypeInputs
  <2>2. Room > 0 => Len(queue) + (Len(later) + 1) <= QueueCap
    BY <1>4, ShellAssumption DEF Room
  <2> QED BY <1>1, <1>5, <2>1, <2>2 DEF EnqueueCommand
<1>8. TypeInputs' /\ NoneTwice'
  <2>1. dropped' \subseteq Inputs
    BY <1>2, <1>6 DEF IInv, Types, TypeInputs
  <2> QED BY <1>1, <1>2, <1>3, <1>6, <1>7, <2>1
         DEF SubmitQueued, app, agent, IInv, Types, TypeInputs, NoneTwice
<1>9. Carried' = Carried /\ Typed' = Typed
  BY <1>1, Others DEF SubmitQueued, app, Carried, Kinds
<1>10. Placed'
  <2>1. /\ queue' = queue /\ notes' = notes /\ actions' = actions /\ steerQ' = steerQ
        /\ history' = history /\ front'.batch = front.batch /\ Carried' = Carried /\ ran' = ran
    BY <1>1, <1>3, <1>9 DEF SubmitQueued, app, agent
  <2>2. Placed /\ x \notin Accepted /\ Accepted' = Accepted \union {x}
    BY <1>2 DEF IInv
  <2>3. CASE ToSet(later') = ToSet(later) \union {x} /\ dropped' = dropped
    BY <2>1, <2>2, <2>3 DEF Placed, Apart
  <2>4. CASE later' = later /\ dropped' = dropped \union {x}
    BY <2>1, <2>2, <2>4 DEF Placed, Apart
  <2> QED BY <1>6, <2>3, <2>4
<1>11. KindsKnown' /\ SavedInv'
  <2>1. /\ notes' = notes /\ actions' = actions /\ steerQ' = steerQ /\ history' = history
        /\ front'.batch = front.batch /\ saved' = saved /\ unsaved' = unsaved
    BY <1>3 DEF SubmitQueued, app, agent
  <2>2. \A y \in ToSet(notes) \union ToSet(actions) \union ToSet(Carried) : kind'[y] = kind[y]
    BY <1>2, Located
  <2>3. \A y \in ToSet(steerQ) \union ToSet(history) \union ToSet(front.batch) : kind'[y] = kind[y]
    BY <1>2, Located
  <2> QED BY <1>9, <2>1, <2>2, <2>3 DEF IInv, KindsKnown, OfKind, SavedInv, Stored, Recorded
<1>12. OrderInv'
  <2>1. /\ steerQ' = steerQ /\ history' = history /\ front'.batch = front.batch
        /\ queue' = queue /\ Typed' = Typed /\ running' = TRUE
    BY <1>1, <1>3, <1>9 DEF SubmitQueued, agent, IInv, Types, TypeFlags
  <2> QED BY <2>1 DEF IInv, OrderInv
<1> QED BY <1>8, <1>10, <1>11, <1>12 DEF InputInv

\* What is queued and was not typed leaves the order as it is.
LEMMA EnqueueUntyped ==
  ASSUME IInv, NEW xs \in Seq(Inputs), Enqueue(xs), Distinct(xs),
         ToSet(queue) \intersect ToSet(xs) = {}, ToSet(xs) \intersect Typed = {},
         Typed' = Typed, history' = history, steerQ' = steerQ, front'.batch = front.batch,
         ToSet(queue) \intersect Typed # {} =>
            (running' \/ front'.at \in {"signal", "drain", "start", "clear", "set"})
  PROVE  OrderInv'
<1>1. TypeInputs /\ Distinct(queue)
  BY DEF IInv, Types, NoneTwice
<1>2. Divided(ToSet(xs))
  BY <1>1, EnqueueKeeps
<1>3. \A y \in ToSet(queue') \intersect Typed : y \in ToSet(queue)
  BY <1>2 DEF Divided
<1>4. InOrder(queue, Typed) /\ InOrder(xs, Typed) /\ Ahead(queue, xs, Typed)
  BY NotTyped DEF IInv, OrderInv
<1>5. InOrder(queue', Typed)
  BY <1>1, <1>4, EnqueueKeeps
<1>6. ToSet(queue') \intersect Typed # {} => ToSet(queue) \intersect Typed # {}
  BY <1>3
<1> QED BY <1>3, <1>5, <1>6 DEF IInv, OrderInv, Ahead

\* What an extension steers is carried until it is delivered or queued.
LEMMA CarriedOne ==
  ASSUME IInv, ext.at \in {"deliver", "enqueue"}
  PROVE  /\ ext.on \in Inputs /\ Carried = <<ext.on>> /\ ToSet(Carried) = {ext.on}
         /\ <<ext.on>> \in Seq(Inputs) /\ Distinct(<<ext.on>>) /\ ToSet(<<ext.on>>) = {ext.on}
         /\ kind[ext.on] = "steer" /\ {ext.on} \intersect Typed = {}
<1>1. ext.on \in 0..MaxInputs /\ ext.on # 0
  BY DEF IInv, Stages, Types, TypeFront
<1>2. ext.on \in Inputs /\ Carried = <<ext.on>>
  BY <1>1, ShellAssumption DEF Inputs, Carried
<1>3. /\ <<ext.on>> \in Seq(Inputs) /\ Distinct(<<ext.on>>)
      /\ ToSet(<<ext.on>>) = {ext.on}
  BY <1>2, OneElement
<1>4. kind[ext.on] = "steer"
  BY <1>2, <1>3 DEF IInv, KindsKnown, OfKind
<1> QED BY <1>2, <1>3, <1>4 DEF Typed

LEMMA SteerQueuesInputs ==
  ASSUME IInv, SteerQueues
  PROVE  InputInv'
<1> DEFINE x == ext.on
<1>1. /\ x \in Inputs /\ ToSet(Carried) = {x} /\ <<x>> \in Seq(Inputs) /\ Distinct(<<x>>)
      /\ ToSet(<<x>>) = {x} /\ kind[x] = "steer" /\ {x} \intersect Typed = {}
  BY CarriedOne DEF SteerQueues
<1>2. /\ Carried' = <<>> /\ ToSet(<<>>) = {} /\ Enqueue(<<x>>)
      /\ Accepted' = Accepted /\ Typed' = Typed
  BY NoElements DEF SteerQueues, Carried, NoCall, Accepted, Typed
<1> HIDE DEF x
<1>3. TypeInputs /\ Distinct(queue) /\ ToSet(queue) \intersect ToSet(<<x>>) = {}
  BY <1>1 DEF IInv, Types, NoneTwice, Placed, Apart
<1>4. /\ queue' \in Seq(Inputs) /\ later' = later /\ Distinct(queue')
      /\ Len(queue') + Len(later') <= QueueCap /\ Divided({x})
  BY <1>1, <1>2, <1>3, EnqueueKeeps
<1>5. PICK A \in SUBSET Inputs, B \in SUBSET Inputs :
           /\ A \union B = {x} /\ A \intersect B = {}
           /\ ToSet(queue') = ToSet(queue) \union A /\ dropped' = dropped \union B
  BY <1>4 DEF Divided
<1>6. /\ notes' = notes /\ actions' = actions /\ steerQ' = steerQ /\ history' = history
      /\ front' = front /\ ran' = ran /\ kind' = kind
      /\ saved' = saved /\ unsaved' = unsaved /\ displaced' = displaced
      /\ running' = running
  BY DEF SteerQueues, tui, agent
<1>7. TypeInputs' /\ NoneTwice'
  BY <1>4, <1>5, <1>6 DEF IInv, Types, TypeInputs, NoneTwice
<1>8. Placed'
  BY <1>1, <1>2, <1>4, <1>5, <1>6 DEF IInv, Placed, Apart
<1>9. KindsKnown' /\ SavedInv'
  BY <1>2, <1>6 DEF IInv, KindsKnown, OfKind, SavedInv, Stored, Recorded
<1>10. OrderInv'
  BY <1>1, <1>2, <1>3, <1>6, EnqueueUntyped DEF IInv, OrderInv
<1> QED BY <1>7, <1>8, <1>9, <1>10 DEF InputInv

LEMMA SteerDeliversInputs ==
  ASSUME IInv, SteerDelivers
  PROVE  InputInv'
<1> DEFINE x == ext.on
<1>1. /\ x \in Inputs /\ ToSet(Carried) = {x} /\ kind[x] = "steer" /\ x \notin Typed
  BY CarriedOne DEF SteerDelivers
<1>2. /\ Carried' = <<>> /\ ToSet(<<>>) = {} /\ steerQ' = Append(steerQ, x)
      /\ Accepted' = Accepted /\ Typed' = Typed
  BY NoElements DEF SteerDelivers, Carried, NoCall, Accepted, Typed
<1> HIDE DEF x
<1>3. steerQ \in Seq(Inputs) /\ Distinct(steerQ) /\ x \notin ToSet(steerQ)
  BY <1>1 DEF IInv, Types, TypeInputs, NoneTwice, Placed, Apart
<1>4. /\ steerQ' \in Seq(Inputs) /\ ToSet(steerQ') = ToSet(steerQ) \union {x}
      /\ Distinct(steerQ')
  BY <1>1, <1>2, <1>3, Appended
<1>5. /\ queue' = queue /\ later' = later /\ notes' = notes /\ actions' = actions
      /\ history' = history /\ front' = front /\ ran' = ran /\ kind' = kind
      /\ saved' = saved /\ unsaved' = unsaved
      /\ displaced' = displaced /\ running' = running /\ dropped' = dropped
  BY DEF SteerDelivers, shell, tui
<1>6. TypeInputs' /\ NoneTwice'
  BY <1>4, <1>5 DEF IInv, Types, TypeInputs, NoneTwice
<1>7. Placed'
  BY <1>1, <1>2, <1>4, <1>5 DEF IInv, Placed, Apart
<1>8. KindsKnown' /\ SavedInv'
  BY <1>1, <1>2, <1>4, <1>5 DEF IInv, KindsKnown, OfKind, SavedInv, Stored, Recorded
<1>9. InOrder(steerQ', Typed)
  <2>1. <<x>> \in Seq(Inputs) /\ ToSet(<<x>>) = {x} /\ steerQ' = steerQ \o <<x>>
    BY <1>1, <1>2, <1>3, OneElement, AppendIsConcat
  <2>2. InOrder(<<x>>, Typed) /\ Ahead(steerQ, <<x>>, Typed)
    BY <1>1, <2>1, NotTyped
  <2> QED BY <1>3, <2>1, <2>2, JoinedInOrder DEF IInv, OrderInv
<1>10. OrderInv'
  BY <1>1, <1>2, <1>4, <1>5, <1>9 DEF IInv, OrderInv, Ahead
<1> QED BY <1>6, <1>7, <1>8, <1>10 DEF InputInv

LEMMA SteerInputs ==
  ASSUME IInv, NEW x, Steer(x)
  PROVE  InputInv'
<1>1. /\ x \in Inputs /\ x \notin Accepted /\ Accepted' = Accepted \union {x}
      /\ kind' \in Seq(Kinds) /\ Len(kind') <= MaxInputs /\ kind'[x] = "steer"
      /\ \A y \in Accepted : kind'[y] = kind[y] /\ y < x
  BY NewInput DEF IInv, Types, Steer, Kinds
<1>2. /\ queue' = queue /\ later' = later /\ notes' = notes /\ actions' = actions
      /\ steerQ' = steerQ /\ history' = history /\ front' = front /\ ran' = ran
     
      /\ saved' = saved /\ unsaved' = unsaved /\ displaced' = displaced
      /\ running' = running /\ dropped' = dropped
  BY DEF Steer, shell, tui, agent
<1>3. Typed' = Typed
  BY <1>2, Others DEF Steer, Kinds
<1>4. Carried = <<>> /\ Carried' = <<x>> /\ ToSet(<<>>) = {} /\ ToSet(<<x>>) = {x}
  <2>1. ext.on = 0 /\ ext'.on = x
    BY DEF Steer, NoCall
  <2>2. x # 0
    BY <1>1, ShellAssumption DEF Inputs
  <2> QED BY <1>1, <2>1, <2>2, NoElements, OneElement DEF Carried
<1>5. TypeInputs' /\ NoneTwice'
  BY <1>1, <1>2 DEF IInv, Types, TypeInputs, NoneTwice
<1>6. Placed'
  BY <1>1, <1>2, <1>4 DEF IInv, Placed, Apart
<1>7. KindsKnown' /\ SavedInv'
  <2>1. \A y \in ToSet(notes) \union ToSet(actions) : kind'[y] = kind[y]
    BY <1>1, Located
  <2>2. \A y \in ToSet(steerQ) \union ToSet(history) \union ToSet(front.batch) : kind'[y] = kind[y]
    BY <1>1, Located
  <2> QED BY <1>1, <1>2, <1>4, <2>1, <2>2 DEF IInv, KindsKnown, OfKind, SavedInv, Stored, Recorded
<1>8. OrderInv'
  BY <1>2, <1>3 DEF IInv, OrderInv
<1> QED BY <1>5, <1>6, <1>7, <1>8 DEF InputInv

LEMMA SendMessageInputs ==
  ASSUME IInv, NEW x, SendMessage(x)
  PROVE  InputInv'
<1>1. /\ x \in Inputs /\ x \notin Accepted /\ Accepted' = Accepted \union {x}
      /\ kind' \in Seq(Kinds) /\ Len(kind') <= MaxInputs /\ kind'[x] = "send"
      /\ \A y \in Accepted : kind'[y] = kind[y] /\ y < x
  BY NewInput DEF IInv, Types, SendMessage, Kinds
<1>2. /\ queue' = queue /\ later' = later /\ notes' = notes /\ steerQ' = steerQ
      /\ history' = history /\ front' = front /\ ran' = ran /\ saved' = saved /\ unsaved' = unsaved
      /\ displaced' = displaced /\ running' = running /\ dropped' = dropped /\ Carried' = Carried
  BY DEF SendMessage, shell, tui, agent, Carried
<1>3. Typed' = Typed
  BY <1>2, Others DEF SendMessage, Kinds
<1>4. actions \in Seq(Inputs) /\ Distinct(actions) /\ x \notin ToSet(actions)
  BY <1>1, Located DEF IInv, Types, TypeInputs, NoneTwice
<1>5. /\ actions' \in Seq(Inputs) /\ ToSet(actions') = ToSet(actions) \union {x}
      /\ Distinct(actions')
  BY <1>1, <1>4, Appended DEF SendMessage
<1>6. TypeInputs' /\ NoneTwice'
  BY <1>1, <1>2, <1>5 DEF IInv, Types, TypeInputs, NoneTwice
<1>7. Placed'
  BY <1>1, <1>2, <1>5 DEF IInv, Placed, Apart
<1>8. KindsKnown' /\ SavedInv'
  <2>1. /\ \A y \in ToSet(notes) \union ToSet(actions) \union ToSet(Carried) :
              kind'[y] = kind[y]
        /\ \A y \in ToSet(steerQ) \union ToSet(history) \union ToSet(front.batch) :
              kind'[y] = kind[y]
    BY <1>1, Located
  <2> QED BY <1>1, <1>2, <1>5, <2>1 DEF IInv, KindsKnown, OfKind, SavedInv, Stored, Recorded
<1>9. OrderInv'
  BY <1>2, <1>3 DEF IInv, OrderInv
<1> QED BY <1>6, <1>7, <1>8, <1>9 DEF InputInv

LEMMA TakesSteeringInputs ==
  ASSUME IInv, RunTakesSteering \/ CancelledTakesSteering
  PROVE  InputInv'
<1>1. /\ queue' = queue /\ later' = later /\ notes' = notes /\ actions' = actions
      /\ front' = front /\ ran' = ran /\ saved' = saved /\ unsaved' = unsaved /\ kind' = kind
      /\ displaced' = displaced /\ running' = running /\ Carried' = Carried
      /\ Typed' = Typed /\ Accepted' = Accepted
  BY DEF RunTakesSteering, CancelledTakesSteering, shell, app, tui, Carried, Typed,
         Accepted
<1>2. /\ steerQ' = <<>> /\ <<>> \in Seq(Inputs) /\ ToSet(<<>>) = {} /\ Distinct(<<>>)
      /\ \A t : InOrder(<<>>, t)
  BY NoElements, EmptySeq DEF RunTakesSteering, CancelledTakesSteering
<1>3. /\ steerQ \in Seq(Inputs) /\ history \in Seq(Inputs) /\ Distinct(steerQ)
      /\ Distinct(history) /\ ToSet(history) \intersect ToSet(steerQ) = {}
      /\ ToSet(steerQ) \subseteq Inputs
  BY SeqParts DEF IInv, Types, TypeInputs, NoneTwice, Placed, Apart
<1>4. CASE history' = history \o steerQ /\ dropped' = dropped
  <2>1. /\ history' \in Seq(Inputs) /\ ToSet(history') = ToSet(history) \union ToSet(steerQ)
        /\ Distinct(history')
    BY <1>3, <1>4, ConcatProperties, JoinedSets, JoinedDistinct
  <2>2. TypeInputs' /\ NoneTwice'
    BY <1>1, <1>2, <1>4, <2>1 DEF IInv, Types, TypeInputs, NoneTwice
  <2>3. Placed'
    BY <1>1, <1>2, <1>4, <2>1 DEF IInv, Placed, Apart
  <2>4. KindsKnown' /\ SavedInv'
    BY <1>1, <1>2, <2>1 DEF IInv, KindsKnown, OfKind, SavedInv, Stored, Recorded
  <2>5. InOrder(history', Typed)
    BY <1>3, <1>4, JoinedInOrder DEF IInv, OrderInv
  <2>6. OrderInv'
    BY <1>1, <1>2, <2>1, <2>5 DEF IInv, OrderInv, Ahead
  <2> QED BY <2>2, <2>3, <2>4, <2>6 DEF InputInv
<1>5. CASE history' = history /\ dropped' = dropped \union ToSet(steerQ)
  <2>1. TypeInputs' /\ NoneTwice'
    BY <1>1, <1>2, <1>3, <1>5 DEF IInv, Types, TypeInputs, NoneTwice
  <2>2. Placed'
    BY <1>1, <1>2, <1>5 DEF IInv, Placed, Apart
  <2>3. KindsKnown' /\ SavedInv'
    BY <1>1, <1>2, <1>5 DEF IInv, KindsKnown, OfKind, SavedInv, Stored, Recorded
  <2>4. OrderInv'
    BY <1>1, <1>2, <1>5 DEF IInv, OrderInv, Ahead
  <2> QED BY <2>1, <2>2, <2>3, <2>4 DEF InputInv
<1> QED BY <1>4, <1>5 DEF RunTakesSteering, CancelledTakesSteering

LEMMA ProcessActionsInputs ==
  ASSUME IInv, ProcessActions
  PROVE  InputInv'
<1>1. /\ steerQ' = steerQ /\ history' = history /\ front'.batch = front.batch /\ ran' = ran
     
      /\ saved' = saved /\ unsaved' = unsaved /\ kind' = kind
      /\ displaced' = displaced /\ running' = running
      /\ Carried' = Carried /\ Typed' = Typed /\ Accepted' = Accepted
      /\ front.at = "actions" /\ front'.at = "apply"
  BY DEF ProcessActions, agent, Carried, Typed, Accepted, IInv, Types, TypeFront, Fronts
<1>2. actions' = <<>> /\ <<>> \in Seq(Inputs) /\ ToSet(<<>>) = {} /\ Distinct(<<>>)
  BY NoElements, EmptySeq DEF ProcessActions, DrainActions
<1>3. /\ actions \in Seq(Inputs) /\ Distinct(actions) /\ notes \in Seq(Inputs) /\ Distinct(notes)
      /\ ToSet(notes) \intersect ToSet(actions) = {} /\ TypeInputs /\ Distinct(queue)
      /\ ToSet(queue) \intersect ToSet(actions) = {} /\ ToSet(actions) \intersect Typed = {}
  <2>1. ToSet(actions) \intersect Typed = {}
    BY DEF IInv, KindsKnown, OfKind, Typed
  <2> QED BY <2>1 DEF IInv, Types, TypeInputs, NoneTwice, Placed, Apart
<1>4. CASE Enqueue(actions) /\ notes' = notes
  <2>1. /\ queue' \in Seq(Inputs) /\ later' = later /\ Distinct(queue')
        /\ Len(queue') + Len(later') <= QueueCap /\ Divided(ToSet(actions))
    BY <1>3, <1>4, EnqueueKeeps
  <2>2. PICK A \in SUBSET Inputs, B \in SUBSET Inputs :
             /\ A \union B = ToSet(actions) /\ A \intersect B = {}
             /\ ToSet(queue') = ToSet(queue) \union A /\ dropped' = dropped \union B
    BY <2>1 DEF Divided
  <2>3. TypeInputs' /\ NoneTwice'
    BY <1>1, <1>2, <1>4, <2>1, <2>2 DEF IInv, Types, TypeInputs, NoneTwice
  <2>4. Placed'
    BY <1>1, <1>2, <1>4, <2>1, <2>2 DEF IInv, Placed, Apart
  <2>5. KindsKnown' /\ SavedInv'
    BY <1>1, <1>2, <1>4 DEF IInv, KindsKnown, OfKind, SavedInv, Stored, Recorded
  <2>6. OrderInv'
    BY <1>1, <1>3, <1>4, EnqueueUntyped DEF IInv, OrderInv
  <2> QED BY <2>3, <2>4, <2>5, <2>6 DEF InputInv
<1>5. CASE notes' = notes \o actions /\ queue' = queue /\ later' = later /\ dropped' = dropped
  <2>1. /\ notes' \in Seq(Inputs) /\ ToSet(notes') = ToSet(notes) \union ToSet(actions)
        /\ Distinct(notes')
    BY <1>3, <1>5, ConcatProperties, JoinedSets, JoinedDistinct
  <2>2. TypeInputs' /\ NoneTwice'
    BY <1>1, <1>2, <1>5, <2>1 DEF IInv, Types, TypeInputs, NoneTwice
  <2>3. Placed'
    BY <1>1, <1>2, <1>5, <2>1 DEF IInv, Placed, Apart
  <2>4. KindsKnown' /\ SavedInv'
    BY <1>1, <1>2, <2>1 DEF IInv, KindsKnown, OfKind, SavedInv, Stored, Recorded
  <2>5. OrderInv'
    BY <1>1, <1>5 DEF IInv, OrderInv
  <2> QED BY <2>2, <2>3, <2>4, <2>5 DEF InputInv
<1> QED BY <1>4, <1>5 DEF ProcessActions, DrainActions

LEMMA ApplyNoteInputs ==
  ASSUME IInv, ApplyNote
  PROVE  InputInv'
<1> DEFINE x == Head(notes)
<1>1. /\ x \in Inputs /\ notes' \in Seq(Inputs) /\ ToSet(notes) = {x} \union ToSet(notes')
      /\ Distinct(notes') /\ x \notin ToSet(notes')
  BY HeadTail DEF ApplyNote, IInv, Types, TypeInputs, NoneTwice
<1>2. /\ <<x>> \in Seq(Inputs) /\ ToSet(<<x>>) = {x} /\ Distinct(<<x>>) /\ x \notin Typed
      /\ ToSet(queue) \intersect {x} = {} /\ TypeInputs /\ Distinct(queue) /\ kind[x] = "send"
  <2>1. kind[x] = "send"
    BY <1>1 DEF IInv, KindsKnown, OfKind
  <2>2. <<x>> \in Seq(Inputs) /\ ToSet(<<x>>) = {x} /\ Distinct(<<x>>)
    BY <1>1, OneElement
  <2>3. ToSet(queue) \intersect {x} = {}
    BY <1>1 DEF IInv, Placed, Apart
  <2> QED BY <2>1, <2>2, <2>3 DEF IInv, Types, NoneTwice, Typed
<1>3. /\ actions' = actions /\ steerQ' = steerQ /\ history' = history /\ ran' = ran /\ kind' = kind
      /\ displaced' = displaced /\ running' = running /\ Carried' = Carried /\ Typed' = Typed
      /\ Accepted' = Accepted /\ front.at = "apply"
  BY DEF ApplyNote, app, agent, Carried, Typed, Accepted
<1>4. front.batch = <<>> /\ ToSet(<<>>) = {}
  BY <1>3, NoElements DEF IInv, Stages
<1>5. \/ /\ dropped' = dropped \union {x} /\ queue' = queue /\ later' = later
         /\ saved' = saved /\ unsaved' = unsaved
         /\ front' = front
      \/ Enqueue(<<x>>) /\ saved' = saved /\ unsaved' = unsaved /\ front' = front
      \/ /\ Save(<<x>>) /\ queue' = queue /\ later' = later /\ dropped' = dropped
         /\ front'.batch = <<x>> /\ front'.at = "start"
  BY <1>2 DEF ApplyNote, IInv, Types, TypeFront, Fronts
<1> HIDE DEF x
<1>6. CASE /\ dropped' = dropped \union {x} /\ queue' = queue /\ later' = later
           /\ saved' = saved /\ unsaved' = unsaved
           /\ front' = front
  <2>1. TypeInputs' /\ NoneTwice'
    BY <1>1, <1>3, <1>6 DEF IInv, Types, TypeInputs, NoneTwice
  <2>2. Placed'
    BY <1>1, <1>3, <1>6 DEF IInv, Placed, Apart
  <2>3. KindsKnown' /\ SavedInv'
    BY <1>1, <1>3, <1>6 DEF IInv, KindsKnown, OfKind, SavedInv, Stored, Recorded
  <2>4. OrderInv'
    BY <1>3, <1>6 DEF IInv, OrderInv
  <2> QED BY <2>1, <2>2, <2>3, <2>4 DEF InputInv
<1>7. CASE Enqueue(<<x>>) /\ saved' = saved /\ unsaved' = unsaved /\ front' = front
  <2>1. /\ queue' \in Seq(Inputs) /\ later' = later /\ Distinct(queue')
        /\ Len(queue') + Len(later') <= QueueCap /\ Divided({x})
    BY <1>2, <1>7, EnqueueKeeps
  <2>2. PICK A \in SUBSET Inputs, B \in SUBSET Inputs :
             /\ A \union B = {x} /\ A \intersect B = {}
             /\ ToSet(queue') = ToSet(queue) \union A /\ dropped' = dropped \union B
    BY <2>1 DEF Divided
  <2>3. TypeInputs' /\ NoneTwice'
    BY <1>1, <1>3, <1>7, <2>1, <2>2 DEF IInv, Types, TypeInputs, NoneTwice
  <2>4. Placed'
    BY <1>1, <1>3, <1>7, <2>1, <2>2 DEF IInv, Placed, Apart
  <2>5. KindsKnown' /\ SavedInv'
    BY <1>1, <1>3, <1>7 DEF IInv, KindsKnown, OfKind, SavedInv, Stored, Recorded
  <2>6. OrderInv'
    BY <1>2, <1>3, <1>7, EnqueueUntyped DEF IInv, OrderInv
  <2> QED BY <2>3, <2>4, <2>5, <2>6 DEF InputInv
<1>8. CASE /\ Save(<<x>>) /\ queue' = queue /\ later' = later /\ dropped' = dropped
           /\ front'.batch = <<x>> /\ front'.at = "start"
  <2>0. /\ saved' \in Seq(Inputs) /\ unsaved' \subseteq Inputs
        /\ Recorded' = Recorded \union {x}
    BY <1>2, <1>8, Saves
  <2>1. TypeInputs' /\ NoneTwice'
    BY <1>1, <1>2, <1>3, <1>8, <2>0 DEF IInv, Types, TypeInputs, NoneTwice
  <2>2. Placed'
    BY <1>1, <1>2, <1>3, <1>4, <1>8 DEF IInv, Placed, Apart
  <2>3. KindsKnown' /\ SavedInv'
    BY <1>1, <1>2, <1>3, <1>8, <2>0 DEF IInv, KindsKnown, OfKind, SavedInv, Stored
  <2>4. /\ InOrder(front'.batch, Typed) /\ Ahead(history, front'.batch, Typed)
        /\ Ahead(steerQ, front'.batch, Typed) /\ Ahead(front'.batch, queue, Typed)
    BY <1>2, <1>8, NotTyped
  <2>5. OrderInv'
    BY <1>3, <1>8, <2>4 DEF IInv, OrderInv
  <2> QED BY <2>1, <2>2, <2>3, <2>5 DEF InputInv
<1> QED BY <1>5, <1>6, <1>7, <1>8

\* A drain takes no more than there is, and a prompt if there is one.
LEMMA DrainBounds ==
  ASSUME TypeInputs
  PROVE  /\ PromptsDrained \in 0..Len(queue) /\ CommandsDrained \in 0..Len(later)
         /\ PromptsDrained = 0 => queue = <<>>
<1>1. /\ Len(queue) \in Nat /\ (queue # <<>> => Len(queue) # 0)
      /\ Len(later) \in Nat /\ (later # <<>> => Len(later) # 0)
      /\ (queue = <<>> => Len(queue) = 0) /\ (later = <<>> => Len(later) = 0)
  BY EmptySeq, LenProperties DEF TypeInputs
<1> QED BY <1>1 DEF PromptsDrained, CommandsDrained, OneOf

\* What a sort puts out of order is still the same.
LEMMA MixedKeeps ==
  ASSUME NEW s \in Seq(Inputs), Distinct(s), NEW t \in Mixed(s)
  PROVE  t \in Seq(Inputs) /\ Len(t) = Len(s) /\ Distinct(t) /\ ToSet(t) = ToSet(s)
<1>1. PICK f \in Bijection(DOMAIN s, DOMAIN s) : t = [i \in DOMAIN s |-> s[f[i]]]
  BY DEF Mixed
<1>2. /\ f \in [DOMAIN s -> DOMAIN s]
      /\ \A i, j \in DOMAIN s : f[i] = f[j] => i = j
      /\ \A j \in DOMAIN s : \E i \in DOMAIN s : f[i] = j
  BY DEF Bijection, Injection, Surjection, IsInjective
<1>3. Len(s) \in Nat /\ DOMAIN s = 1..Len(s) /\ \A i \in DOMAIN s : s[i] \in Inputs
  BY SeqParts
<1>4. /\ DOMAIN t = DOMAIN s
      /\ \A i \in DOMAIN s : t[i] = s[f[i]] /\ f[i] \in DOMAIN s /\ t[i] \in Inputs
  BY <1>1, <1>2, <1>3
<1>5. t \in [1..Len(s) -> Inputs]
  BY <1>1, <1>2, <1>3
<1>6. t \in Seq(Inputs) /\ Len(t) = Len(s)
  BY <1>3, <1>5, IsASeq, LenProperties
<1>7. Distinct(t)
  BY <1>2, <1>4 DEF Distinct
<1>8. ToSet(t) = ToSet(s)
  <2>1. ASSUME NEW x \in ToSet(s) PROVE x \in ToSet(t)
    <3>1. PICK j \in DOMAIN s : s[j] = x
      BY DEF ToSet
    <3>2. PICK i \in DOMAIN s : f[i] = j
      BY <1>2
    <3> QED BY <1>4, <3>1, <3>2 DEF ToSet
  <2>2. ASSUME NEW x \in ToSet(t) PROVE x \in ToSet(s)
    BY <1>4 DEF ToSet
  <2> QED BY <2>1, <2>2
<1> QED BY <1>6, <1>7, <1>8

\* A drain takes the prompts it takes in their order, or sets them apart.
LEMMA SortedKeeps ==
  ASSUME IInv, NEW p \in Sorted
  PROVE  LET u == Prefix(queue, PromptsDrained)
         IN  /\ p \in Seq(Inputs) /\ Len(p) = PromptsDrained
             /\ Distinct(p) /\ ToSet(p) = ToSet(u)
<1> DEFINE u == Prefix(queue, PromptsDrained)
<1>1. queue \in Seq(Inputs) /\ Distinct(queue) /\ PromptsDrained \in 0..Len(queue)
  BY DrainBounds DEF IInv, Types, TypeInputs, NoneTwice
<1>2. u \in Seq(Inputs) /\ Len(u) = PromptsDrained /\ Distinct(u)
  BY <1>1, Split, SplitSets
<1>3. CASE MayMix
  <2>1. PromptsDrained = Len(queue)
    BY <1>3 DEF MayMix, PromptsDrained
  <2>2. u = queue
    <3>1. Len(queue) \in Nat /\ DOMAIN u = 1..Len(u) /\ DOMAIN queue = 1..Len(queue)
      BY <1>1, <1>2, LenProperties
    <3>2. Part(u, queue, 0)
      BY <1>1, Split
    <3>3. Len(u) = Len(queue) /\ \A i \in 1..Len(u) : u[i] = queue[i]
      <4> HIDE DEF u
      <4> QED BY <1>2, <2>1, <3>1, <3>2 DEF Part
    <3> HIDE DEF u
    <3> QED BY <1>1, <1>2, <3>3, SeqEqual
  <2>3. p \in Mixed(queue)
    BY <1>3 DEF Sorted
  <2> QED BY <1>1, <2>1, <2>2, <2>3, MixedKeeps
<1>4. CASE ~MayMix
  BY <1>2, <1>4 DEF Sorted
<1> QED BY <1>3, <1>4

LEMMA DrainQueueInputs ==
  ASSUME IInv, DrainQueue
  PROVE  InputInv'
<1>0. PICK p \in Sorted :
        /\ queue' = Suffix(queue, PromptsDrained)
        /\ later' = Suffix(later, CommandsDrained)
        /\ ran' = ran \union ToSet(Prefix(later, CommandsDrained))
        /\ \/ actions' = <<>> /\ notes' = notes \o actions
           \/ actions' = actions /\ notes' = notes
        /\ Save(p)
        /\ front' = IF p = <<>> THEN [front EXCEPT !.at = "actions", !.done = TRUE]
                     ELSE [front EXCEPT !.at = "start", !.batch = p]
        /\ displaced' = IF p = Prefix(queue, PromptsDrained) THEN displaced
                        ELSE displaced \union ToSet(p)
  BY DEF DrainQueue
<1> DEFINE u == Prefix(queue, PromptsDrained)
           q == Suffix(queue, PromptsDrained)
           c == Prefix(later, CommandsDrained)
           l == Suffix(later, CommandsDrained)
<1>1. /\ queue \in Seq(Inputs) /\ later \in Seq(Inputs) /\ Distinct(queue) /\ Distinct(later)
      /\ InOrder(queue, Typed) /\ Len(queue) + Len(later) <= QueueCap
      /\ Len(queue) \in Nat /\ Len(later) \in Nat
  BY LenProperties DEF IInv, Types, TypeInputs, NoneTwice, OrderInv
<1>2. /\ PromptsDrained \in 0..Len(queue) /\ CommandsDrained \in 0..Len(later)
      /\ PromptsDrained = 0 => queue = <<>>
  BY DrainBounds DEF IInv, Types
<1>3. /\ p \in Seq(Inputs) /\ q \in Seq(Inputs) /\ Len(p) = PromptsDrained
      /\ Len(q) = Len(queue) - PromptsDrained
  BY <1>1, <1>2, Split, SortedKeeps
<1>4. c \in Seq(Inputs) /\ l \in Seq(Inputs) /\ Len(l) = Len(later) - CommandsDrained
  BY <1>1, <1>2, Split
<1>5. /\ ToSet(queue) = ToSet(p) \union ToSet(q) /\ Distinct(p) /\ Distinct(q)
      /\ ToSet(p) \intersect ToSet(q) = {} /\ ToSet(p) = ToSet(u)
  BY <1>1, <1>2, SplitSets, SortedKeeps
<1>6. /\ ToSet(later) = ToSet(c) \union ToSet(l) /\ Distinct(l)
      /\ ToSet(c) \intersect ToSet(l) = {}
  BY <1>1, <1>2, SplitSets
<1>7. InOrder(u, Typed) /\ InOrder(q, Typed) /\ Ahead(u, q, Typed)
  BY <1>1, <1>2, SplitSets
<1>8. /\ steerQ' = steerQ /\ history' = history /\ kind' = kind
      /\ running' = running /\ dropped' = dropped
      /\ Carried' = Carried /\ Accepted' = Accepted /\ front.at = "drain"
  BY DEF DrainQueue, agent, Carried, Accepted
<1>9. front.batch = <<>> /\ ToSet(<<>>) = {} /\ <<>> \in Seq(Inputs) /\ Distinct(<<>>)
  BY <1>8, NoElements, EmptySeq DEF IInv, Stages
<1>10. /\ queue' = q /\ later' = l /\ ran' = ran \union ToSet(c)
       /\ saved' \in Seq(Inputs) /\ unsaved' \subseteq Inputs
       /\ Recorded' = Recorded \union ToSet(p)
       /\ \/ actions' = <<>> /\ notes' = notes \o actions
          \/ actions' = actions /\ notes' = notes
       /\ front' = IF p = <<>> THEN [front EXCEPT !.at = "actions", !.done = TRUE]
                    ELSE [front EXCEPT !.at = "start", !.batch = p]
  BY <1>0, <1>3, Saves DEF IInv, Types
<1> HIDE DEF u, q, c, l
<1>11. front'.batch = p /\ (p = <<>> \/ front'.at = "start")
  BY <1>9, <1>10 DEF IInv, Types, TypeFront, Fronts
<1>12. /\ notes' \in Seq(Inputs) /\ Distinct(notes')
       /\ actions' \in Seq(Inputs) /\ Distinct(actions')
       /\ ToSet(notes') \union ToSet(actions') = ToSet(notes) \union ToSet(actions)
       /\ ToSet(notes') \intersect ToSet(actions') = {}
  <2>1. /\ actions \in Seq(Inputs) /\ Distinct(actions) /\ notes \in Seq(Inputs) /\ Distinct(notes)
        /\ ToSet(notes) \intersect ToSet(actions) = {}
    BY DEF IInv, Types, TypeInputs, NoneTwice, Placed, Apart
  <2>2. /\ notes \o actions \in Seq(Inputs) /\ Distinct(notes \o actions)
        /\ ToSet(notes \o actions) = ToSet(notes) \union ToSet(actions)
    BY <2>1, ConcatProperties, JoinedSets, JoinedDistinct
  <2> QED BY <1>9, <1>10, <2>1, <2>2
<1>13. TypeInputs' /\ NoneTwice'
  <2>1. Len(queue') + Len(later') <= QueueCap
    <3>1. Len(q) \in Nat /\ Len(l) \in Nat /\ Len(q) <= Len(queue) /\ Len(l) <= Len(later)
      BY <1>1, <1>2, <1>3, <1>4
    <3> QED BY <1>1, <1>10, <3>1, ShellAssumption
  <2>2. ToSet(c) \subseteq Inputs /\ ToSet(p) \subseteq Inputs
    BY <1>3, <1>4, SeqParts
  <2>3. displaced' \subseteq Inputs
    BY <1>0, <2>2 DEF IInv, Types, TypeInputs
  <2> QED BY <1>3, <1>4, <1>5, <1>6, <1>8, <1>10, <1>11, <1>12, <2>1, <2>2, <2>3
         DEF IInv, Types, TypeInputs, NoneTwice
<1>14. Placed'
  BY <1>5, <1>6, <1>8, <1>9, <1>10, <1>11, <1>12 DEF IInv, Placed, Apart
<1>15. KindsKnown' /\ SavedInv'
  BY <1>8, <1>10, <1>11, <1>12 DEF IInv, KindsKnown, OfKind, SavedInv, Stored
<1>16. OrderInv'
  <2>1. ToSet(q) \intersect Typed # {} => p # <<>>
    <3>1. SUFFICES ASSUME p = <<>> PROVE ToSet(q) = {}
      OBVIOUS
    <3>2. PromptsDrained = 0
      BY <1>3, <3>1, EmptySeq
    <3> QED BY <1>2, <1>5, <1>9, <3>2
  <2>2. Typed' = Typed \/ (ToSet(p) \intersect Typed' = {} /\ Typed' \subseteq Typed)
    BY <1>0, <1>8 DEF Typed
  <2>3. p = u \/ ToSet(p) \intersect Typed' = {}
    BY <1>0 DEF Typed, u
  <2>4. InOrder(p, Typed')
    BY <1>7, <2>2, <2>3, FewerInOrder, NotTyped
  <2>5. InOrder(q, Typed') /\ InOrder(history', Typed') /\ InOrder(steerQ', Typed')
    BY <1>7, <1>8, <2>2, FewerInOrder DEF IInv, OrderInv
  <2> QED BY <1>5, <1>7, <1>8, <1>10, <1>11, <2>1, <2>2, <2>4, <2>5 DEF IInv, OrderInv, Ahead
<1> QED BY <1>13, <1>14, <1>15, <1>16 DEF InputInv

\* The other steps move no input.
Bound == {"signal", "drain", "start", "clear", "set"}
Still ==
    /\ UNCHANGED <<kind, queue, later, notes, actions, steerQ, history, ran, dropped, saved,
                   unsaved, displaced>>
    /\ front'.batch = front.batch /\ ext'.on = ext.on
    /\ running \/ front.at \in Bound => running' \/ front'.at \in Bound

LEMMA StillInputs == IInv /\ Still => InputInv'
<1> SUFFICES ASSUME IInv, Still PROVE InputInv'
  OBVIOUS
<1>1. Carried' = Carried /\ Accepted' = Accepted /\ Typed' = Typed
  BY DEF Still, Carried, Accepted, Typed
<1>2. TypeInputs' /\ NoneTwice'
  BY DEF Still, IInv, Types, TypeInputs, NoneTwice
<1>3. Placed'
  BY <1>1 DEF Still, IInv, Placed, Apart
<1>4. KindsKnown' /\ SavedInv'
  BY <1>1 DEF Still, IInv, KindsKnown, OfKind, SavedInv, Stored, Recorded
<1>5. OrderInv'
  BY <1>1 DEF Still, Bound, IInv, OrderInv
<1> QED BY <1>2, <1>3, <1>4, <1>5 DEF InputInv

LEMMA StillSteps ==
  ASSUME IInv,
         \/ ClearIdle
         \/ SetRunning
         \/ SignalIdle
         \/ SelectTask
         \/ FinishEvent
         \/ FinishBg
         \/ FinishSubmit
         \/ TurnEnd
         \/ AgentEnd
         \/ InsertBackground
         \/ StopBackground
         \/ WaitForIdle
         \/ Abort
         \/ RunReports
         \/ RunEmitsEnd
         \/ RunEnds
         \/ \E t \in Tasks : StartBackground(t) \/ TaskEnds(t) \/ BgEnd(t) \/ BgEvent(t)
         \/ \E r \in Inputs : ChannelClosed(r)
  PROVE  Still
<1>1. /\ front.at \notin {"start", "steer"} => front.batch = <<>>
      /\ ext.at \notin {"deliver", "enqueue"} => ext.on = 0
      /\ running \in BOOLEAN
  BY DEF IInv, Stages, Types, TypeFlags
<1>2. front = Ready => front.batch = <<>> /\ front.at = "ready"
  BY DEF Ready, At
<1> USE DEF shell, app, tui, agent, Ready, At, Bound
<1>3. CASE ClearIdle
  BY <1>1, <1>2, <1>3 DEF ClearIdle, Still, IInv, Types, TypeFront, Fronts, NoCall
<1>4. CASE SetRunning
  BY <1>1, <1>2, <1>4 DEF SetRunning, Still, IInv, Types, TypeFront, Fronts, NoCall
<1>5. CASE SignalIdle
  BY <1>1, <1>2, <1>5 DEF SignalIdle, Still, IInv, Types, TypeFront, Fronts, NoCall
<1>6. CASE SelectTask
  BY <1>1, <1>2, <1>6 DEF SelectTask, Still, IInv, Types, TypeFront, Fronts, NoCall
<1>7. CASE FinishEvent
  BY <1>1, <1>2, <1>7 DEF FinishEvent, StopStreaming, Still, IInv, Types, TypeFront, Fronts, NoCall
<1>8. CASE FinishBg
  BY <1>1, <1>2, <1>8 DEF FinishBg, StopStreaming, Still, IInv, Types, TypeFront, Fronts, NoCall
<1>9. CASE FinishSubmit
  BY <1>1, <1>2, <1>9 DEF FinishSubmit, Still, IInv, Types, TypeFront, Fronts, NoCall
<1>10. CASE TurnEnd
  BY <1>1, <1>2, <1>10 DEF TurnEnd, Receive, Still, IInv, Types, TypeFront, Fronts, NoCall
<1>11. CASE AgentEnd
  BY <1>1, <1>2, <1>11 DEF AgentEnd, Receive, Still, IInv, Types, TypeFront, Fronts, NoCall
<1>12. CASE InsertBackground
  BY <1>1, <1>2, <1>12 DEF InsertBackground, Still, IInv, Types, TypeFront, Fronts, NoCall
<1>13. CASE StopBackground
  BY <1>1, <1>2, <1>13 DEF StopBackground, Still, IInv, Types, TypeFront, Fronts, NoCall
<1>14. CASE WaitForIdle
  BY <1>1, <1>2, <1>14 DEF WaitForIdle, Still, IInv, Types, TypeFront, Fronts, NoCall
<1>15. CASE Abort
  BY <1>1, <1>2, <1>15 DEF Abort, Still, IInv, Types, TypeFront, Fronts, NoCall
<1>16. CASE RunReports
  BY <1>1, <1>2, <1>16 DEF RunReports, Still, IInv, Types, TypeFront, Fronts, NoCall
<1>17. CASE RunEmitsEnd
  BY <1>1, <1>2, <1>17 DEF RunEmitsEnd, Still, IInv, Types, TypeFront, Fronts, NoCall
<1>18. CASE RunEnds
  BY <1>1, <1>2, <1>18 DEF RunEnds, Still, IInv, Types, TypeFront, Fronts, NoCall
<1>19. ASSUME NEW t \in Tasks, StartBackground(t) PROVE Still
  BY <1>1, <1>2, <1>19 DEF StartBackground, Still, IInv, Types, TypeFront, Fronts, NoCall
<1>20. ASSUME NEW t \in Tasks, TaskEnds(t) PROVE Still
  BY <1>1, <1>2, <1>20 DEF TaskEnds, Still, IInv, Types, TypeFront, Fronts, NoCall
<1>21. ASSUME NEW t \in Tasks, BgEnd(t) PROVE Still
  BY <1>1, <1>2, <1>21 DEF BgEnd, Still, IInv, Types, TypeFront, Fronts, NoCall
<1>22. ASSUME NEW t \in Tasks, BgEvent(t) PROVE Still
  BY <1>1, <1>2, <1>22 DEF BgEvent, Still, IInv, Types, TypeFront, Fronts, NoCall
<1>23. ASSUME NEW r \in Inputs, ChannelClosed(r) PROVE Still
  BY <1>1, <1>2, <1>23 DEF ChannelClosed, StopStreaming, Still, IInv, Types, TypeFront, Fronts
<1> QED BY <1>3, <1>4, <1>5, <1>6, <1>7, <1>8, <1>9, <1>10, <1>11, <1>12, <1>13,
           <1>14, <1>15, <1>16, <1>17, <1>18, <1>19, <1>20, <1>21, <1>22, <1>23

-----------------------------------------------------------------------------
(* The session and the history.                                             *)

\* What is written behind the session, and was not in it, comes after all the rest.
LEMMA ToldSaved ==
  ASSUME NEW v \in Seq(Inputs), NEW xs \in Seq(Inputs), NEW d,
         Distinct(v), Distinct(xs), ToSet(v) \intersect ToSet(xs) = {}
  PROVE  /\ Distinct(v \o xs) /\ Told(xs, v \o xs, d)
         /\ \A s : ToSet(s) \intersect ToSet(xs) = {} =>
               /\ Before(s, xs, v \o xs, d)
               /\ s \in Seq(Inputs) /\ Told(s, v, d) => Told(s, v \o xs, d)
         /\ \A s, u : /\ ToSet(s) \intersect ToSet(xs) = {} /\ ToSet(u) \intersect ToSet(xs) = {}
                      /\ Before(s, u, v, d)
                      => Before(s, u, v \o xs, d)
<1> DEFINE w == v \o xs
           m == Len(v)
<1>1. /\ Distinct(w)
      /\ \A i \in DOMAIN v : i \in DOMAIN w /\ w[i] = v[i] /\ v[i] \in ToSet(v)
      /\ \A j \in DOMAIN xs : m + j \in DOMAIN w /\ w[m + j] = xs[j] /\ xs[j] \in ToSet(xs)
      /\ \A i \in DOMAIN w : i \in DOMAIN v \/ (i - m \in DOMAIN xs /\ i > m)
  BY Joined, JoinedDistinct, SeqParts
<1>2. /\ \A i \in DOMAIN w : i \in Int /\ m + (i - m) = i /\ m \in Int
      /\ \A i \in DOMAIN v : i \in Int /\ i <= m
      /\ \A i \in DOMAIN xs : i \in Int
  BY Joined, SeqParts
<1> HIDE DEF w, m
<1>3. \A k \in DOMAIN w : w[k] \notin ToSet(xs) => k \in DOMAIN v /\ w[k] = v[k]
  <2> SUFFICES ASSUME NEW k \in DOMAIN w, w[k] \notin ToSet(xs), k \notin DOMAIN v PROVE FALSE
    BY <1>1
  <2>1. k - m \in DOMAIN xs
    BY <1>1
  <2>2. w[m + (k - m)] \in ToSet(xs)
    BY <1>1, <2>1
  <2> QED BY <1>2, <2>2
<1>4. \A k \in DOMAIN w : w[k] \in ToSet(xs) => k \notin DOMAIN v /\ k > m
  BY <1>1
<1>5. Told(xs, w, d)
  <2> SUFFICES ASSUME NEW i \in DOMAIN xs, NEW j \in DOMAIN xs, NEW k \in DOMAIN w,
                      NEW l \in DOMAIN w, i < j, xs[i] = w[k], xs[j] = w[l]
               PROVE  k < l
    BY DEF Told
  <2>1. k = m + i /\ l = m + j
    BY <1>1 DEF Distinct
  <2> QED BY <1>2, <2>1
<1>6. ASSUME NEW s, ToSet(s) \intersect ToSet(xs) = {}
      PROVE  /\ Before(s, xs, w, d)
             /\ s \in Seq(Inputs) /\ Told(s, v, d) => Told(s, w, d)
  <2>1. Before(s, xs, w, d)
    <3> SUFFICES ASSUME NEW k \in DOMAIN w, NEW l \in DOMAIN w, w[k] \in ToSet(s),
                        w[l] \in ToSet(xs)
                 PROVE  k < l
      BY DEF Before
    <3>1. k \in DOMAIN v /\ l > m
      BY <1>3, <1>4, <1>6
    <3> QED BY <1>2, <3>1
  <2>2. ASSUME s \in Seq(Inputs), Told(s, v, d) PROVE Told(s, w, d)
    <3>1. \A i \in DOMAIN s : s[i] \in ToSet(s)
      BY <2>2, SeqParts
    <3>2. \A i \in DOMAIN s, k \in DOMAIN w : s[i] = w[k] => k \in DOMAIN v /\ w[k] = v[k]
      BY <1>3, <1>6, <3>1
    <3> QED BY <2>2, <3>2 DEF Told
  <2> QED BY <2>1, <2>2
<1>7. ASSUME NEW s, NEW u, ToSet(s) \intersect ToSet(xs) = {}, ToSet(u) \intersect ToSet(xs) = {},
             Before(s, u, v, d)
      PROVE  Before(s, u, w, d)
  BY <1>3, <1>7 DEF Before
<1> QED BY <1>1, <1>5, <1>6, <1>7 DEF w

\* What the session does not have is not out of order.
LEMMA Untold ==
  ASSUME NEW v, NEW d, NEW u \in Seq(Inputs), ToSet(u) \intersect ToSet(v) \subseteq d
  PROVE  Told(u, v, d) /\ \A s : Before(s, u, v, d) /\ Before(u, s, v, d)
<1>1. \A i \in DOMAIN u : u[i] \in ToSet(u)
  BY SeqParts
<1>2. \A k \in DOMAIN v : v[k] \in ToSet(v)
  BY DEF ToSet
<1>3. Told(u, v, d)
  BY <1>1, <1>2 DEF Told
<1> QED BY <1>2, <1>3 DEF Before

LEMMA ToldLess ==
  ASSUME NEW v, NEW d, NEW e, d \subseteq e
  PROVE  /\ \A s : Told(s, v, d) => Told(s, v, e)
         /\ \A s, u : Before(s, u, v, d) => Before(s, u, v, e)
  BY DEF Told, Before

LEMMA ToldJoined ==
  ASSUME NEW v \in Seq(Inputs), NEW d, NEW s \in Seq(Inputs), NEW u \in Seq(Inputs),
         Told(s, v, d), Told(u, v, d), Before(s, u, v, d),
         ToSet(s) \intersect ToSet(u) = {}, Distinct(s), Distinct(u)
  PROVE  Told(s \o u, v, d)
<1> DEFINE r == s \o u
           m == Len(s)
<1>1. /\ \A i \in DOMAIN s : r[i] = s[i] /\ s[i] \in ToSet(s)
      /\ \A j \in DOMAIN u : r[m + j] = u[j] /\ u[j] \in ToSet(u)
      /\ \A i \in DOMAIN r : i \in DOMAIN s \/ (i - m \in DOMAIN u /\ i > m)
  BY Joined, SeqParts
<1>2. /\ \A i \in DOMAIN r : i \in Int /\ m + (i - m) = i /\ m \in Int
      /\ \A i \in DOMAIN s : i \in Int /\ i <= m
  BY Joined, SeqParts
<1> HIDE DEF r, m
<1> SUFFICES ASSUME NEW i \in DOMAIN r, NEW j \in DOMAIN r, NEW k \in DOMAIN v, NEW l \in DOMAIN v,
                    i < j, r[i] = v[k], r[j] = v[l], v[k] \notin d, v[l] \notin d
             PROVE  k < l
  BY DEF Told, r
<1>3. CASE i \in DOMAIN s /\ j \in DOMAIN s
  BY <1>1, <1>3 DEF Told
<1>4. ASSUME NEW n \in DOMAIN r, n - m \in DOMAIN u
      PROVE  r[n] = u[n - m] /\ r[n] \in ToSet(u)
  <2>1. r[m + (n - m)] = u[n - m] /\ u[n - m] \in ToSet(u)
    BY <1>1, <1>4
  <2> QED BY <1>2, <2>1
<1>5. CASE i \in DOMAIN s /\ j - m \in DOMAIN u
  BY <1>1, <1>4, <1>5 DEF Before
<1>6. CASE i - m \in DOMAIN u /\ i > m /\ j \in DOMAIN s
  <2>1. j <= m /\ i \in Int /\ j \in Int /\ m \in Int
    BY <1>2, <1>6
  <2> QED BY <1>6, <2>1
<1>7. CASE i - m \in DOMAIN u /\ j - m \in DOMAIN u
  <2>1. i - m < j - m
    BY <1>2
  <2> QED BY <1>4, <1>7, <2>1 DEF Told
<1> QED BY <1>1, <1>3, <1>5, <1>6, <1>7

\* An operation that writes what it is about to hand to the agent.
LEMMA WritingStory ==
  ASSUME IInv, TypeInputs', NEW xs \in Seq(Inputs), Save(xs), Distinct(xs),
         ToSet(xs) \intersect Recorded = {},
         ToSet(xs) \intersect (ToSet(history) \union ToSet(steerQ)) = {},
         history' = history, steerQ' = steerQ, front.batch = <<>>, front'.batch = xs,
         displaced \subseteq displaced', Accepted \subseteq Accepted',
         ToSet(xs) \subseteq Accepted',
         Waiting' \intersect (Recorded \union ToSet(xs)) = {}
  PROVE  StoryInv'
<1> DEFINE e == displaced'
<1>1. /\ saved \in Seq(Inputs) /\ history \in Seq(Inputs) /\ steerQ \in Seq(Inputs)
      /\ Distinct(saved) /\ ToSet(saved) \intersect ToSet(xs) = {}
  BY DEF IInv, Types, TypeInputs, StoryInv, Recorded
<1>2. /\ Told(history, saved, e) /\ Told(steerQ, saved, e) /\ Before(history, steerQ, saved, e)
  BY ToldLess DEF IInv, StoryInv
<1>3. Recorded' = Recorded \union ToSet(xs)
  BY Saves DEF IInv, Types
<1>4. Recorded' \subseteq Accepted' /\ Recorded' \intersect Waiting' = {}
  BY <1>3 DEF IInv, StoryInv
<1> HIDE DEF e
<1>5. CASE saved' = saved \o xs
  <2>1. /\ Distinct(saved') /\ Told(xs, saved', e) /\ Told(history, saved', e)
        /\ Told(steerQ, saved', e) /\ Before(history, xs, saved', e)
        /\ Before(steerQ, xs, saved', e) /\ Before(history, steerQ, saved', e)
    BY <1>1, <1>2, <1>5, ToldSaved
  <2> QED BY <1>4, <2>1 DEF StoryInv, e
<1>6. CASE saved' = saved
  <2>1. /\ Told(xs, saved', e) /\ Before(history, xs, saved', e) /\ Before(steerQ, xs, saved', e)
    BY <1>1, <1>6, Untold
  <2> QED BY <1>1, <1>2, <1>4, <1>6, <2>1 DEF StoryInv, e
<1> QED BY <1>5, <1>6 DEF Save

\* A step that writes nothing and hands nothing on.
LEMMA QuietStory ==
  ASSUME IInv, saved' = saved /\ unsaved' = unsaved, history' = history, steerQ' = steerQ,
         front'.batch = front.batch, displaced' = displaced, Accepted \subseteq Accepted',
         Waiting' \subseteq Waiting \union (Accepted' \ Accepted)
  PROVE  StoryInv'
<1>1. Recorded' = Recorded
  BY DEF Recorded
<1> QED BY <1>1 DEF IInv, StoryInv

LEMMA StartAgentStory ==
  ASSUME IInv, StartAgent
  PROVE  StoryInv'
<1>1. /\ saved \in Seq(Inputs) /\ history \in Seq(Inputs) /\ front.batch \in Seq(Inputs)
      /\ steerQ \in Seq(Inputs) /\ Distinct(history) /\ Distinct(front.batch)
      /\ ToSet(history) \intersect ToSet(front.batch) = {}
  BY DEF IInv, Types, TypeInputs, TypeFront, Fronts, NoneTwice, Placed, Apart
<1>2. /\ history' = history \o front.batch /\ steerQ' = steerQ /\ saved' = saved
      /\ displaced' = displaced \union ToSet(steerQ) /\ front'.batch = <<>>
      /\ Recorded' = Recorded /\ Waiting' = Waiting /\ Accepted' = Accepted
  BY DEF StartAgent, shell, app, Recorded, Waiting, Carried, Accepted, IInv, Types, TypeFront,
         Fronts
<1>3. Told(history', saved, displaced)
  BY <1>1, <1>2, ToldJoined DEF IInv, StoryInv
<1>4. Told(history', saved, displaced')
  BY <1>2, <1>3, ToldLess
<1>5. /\ Told(steerQ, saved, displaced') /\ Told(<<>>, saved, displaced')
      /\ \A s : /\ Before(s, steerQ, saved, displaced') /\ Before(s, <<>>, saved, displaced')
  BY <1>1, <1>2, Untold, NoElements, EmptySeq
<1> QED BY <1>2, <1>4, <1>5 DEF IInv, StoryInv

LEMMA GivesUpStory ==
  ASSUME IInv, StartGivesUp
  PROVE  StoryInv'
<1>1. /\ history' = history /\ steerQ' = steerQ /\ saved' = saved
      /\ displaced' = displaced /\ front'.batch = <<>>
      /\ Recorded' = Recorded /\ Waiting' = Waiting /\ Accepted' = Accepted
  BY DEF StartGivesUp, shell, app, Recorded, Waiting, Carried, Accepted, IInv, Types, TypeFront,
         Fronts
<1>2. Told(<<>>, saved, displaced) /\ \A s : Before(s, <<>>, saved, displaced)
  BY Untold, NoElements, EmptySeq
<1> QED BY <1>1, <1>2 DEF IInv, StoryInv

LEMMA SteerPromptsStory ==
  ASSUME IInv, SteerPrompts
  PROVE  StoryInv'
<1>1. /\ saved \in Seq(Inputs) /\ front.batch \in Seq(Inputs)
      /\ steerQ \in Seq(Inputs) /\ Distinct(steerQ) /\ Distinct(front.batch)
      /\ ToSet(steerQ) \intersect ToSet(front.batch) = {}
  BY DEF IInv, Types, TypeInputs, TypeFront, Fronts, NoneTwice, Placed, Apart
<1>2. /\ history' = history /\ steerQ' = steerQ \o front.batch /\ saved' = saved
      /\ displaced' = displaced /\ front'.batch = <<>>
      /\ Recorded' = Recorded /\ Waiting' = Waiting /\ Accepted' = Accepted
  BY DEF SteerPrompts, shell, app, Recorded, Waiting, Carried, Accepted, IInv, Types, TypeFront,
         Fronts
<1>3. Told(steerQ', saved, displaced)
  BY <1>1, <1>2, ToldJoined DEF IInv, StoryInv
<1>4. Told(<<>>, saved, displaced) /\ \A s : Before(s, <<>>, saved, displaced)
  BY Untold, NoElements, EmptySeq
<1>5. ToSet(steerQ') = ToSet(steerQ) \union ToSet(front.batch)
  BY <1>1, <1>2, JoinedSets
<1>6. Before(history, steerQ', saved, displaced)
  BY <1>5 DEF IInv, StoryInv, Before
<1> QED BY <1>2, <1>3, <1>4, <1>6 DEF IInv, StoryInv

LEMMA SteerDeliversStory ==
  ASSUME IInv, SteerDelivers
  PROVE  StoryInv'
<1> DEFINE u == <<ext.on>>
<1>1. ext.on \in Inputs /\ Carried = u /\ Carried' = <<>>
  BY CarriedOne DEF SteerDelivers, NoCall, Carried
<1>2. u \in Seq(Inputs) /\ ToSet(u) = {ext.on} /\ Distinct(u)
  BY <1>1, OneElement
<1> HIDE DEF u
<1>3. /\ saved \in Seq(Inputs) /\ steerQ \in Seq(Inputs) /\ Distinct(steerQ)
      /\ ToSet(steerQ) \intersect ToSet(u) = {} /\ ToSet(u) \intersect ToSet(saved) = {}
  BY <1>1 DEF IInv, Types, TypeInputs, NoneTwice, Placed, Apart, StoryInv, Waiting, Recorded
<1>4. /\ history' = history /\ steerQ' = steerQ \o u /\ saved' = saved
      /\ displaced' = displaced /\ front' = front
      /\ Recorded' = Recorded /\ Waiting' \subseteq Waiting /\ Accepted' = Accepted
  <2>1. steerQ' = steerQ \o u
    BY <1>3, AppendProperties, AppendIsConcat DEF SteerDelivers, u
  <2>2. Waiting' \subseteq Waiting
    BY <1>1, NoElements DEF SteerDelivers, shell, Waiting
  <2> QED BY <2>1, <2>2 DEF SteerDelivers, shell, tui, Recorded, Accepted
<1>5. /\ Told(u, saved, displaced)
      /\ \A s : Before(s, u, saved, displaced) /\ Before(u, s, saved, displaced)
  BY <1>2, <1>3, Untold
<1>6. Told(steerQ', saved, displaced)
  BY <1>2, <1>3, <1>4, <1>5, ToldJoined DEF IInv, StoryInv
<1>7. ToSet(steerQ') = ToSet(steerQ) \union ToSet(u)
  BY <1>2, <1>3, <1>4, JoinedSets
<1>8. /\ Before(history, steerQ', saved, displaced)
      /\ Before(steerQ', front.batch, saved, displaced)
  BY <1>5, <1>7 DEF IInv, StoryInv, Before
<1> QED BY <1>4, <1>6, <1>8 DEF IInv, StoryInv

LEMMA TakesSteeringStory ==
  ASSUME IInv, RunTakesSteering \/ CancelledTakesSteering
  PROVE  StoryInv'
<1>1. /\ saved' = saved /\ displaced' = displaced /\ front' = front /\ steerQ' = <<>>
      /\ Recorded' = Recorded /\ Waiting' = Waiting /\ Accepted' = Accepted
      /\ history' = history \o steerQ \/ history' = history
  BY DEF RunTakesSteering, CancelledTakesSteering, shell, app, tui, Recorded, Waiting, Carried,
         Accepted
<1>2. /\ saved \in Seq(Inputs) /\ history \in Seq(Inputs) /\ steerQ \in Seq(Inputs)
      /\ Distinct(history) /\ Distinct(steerQ) /\ ToSet(history) \intersect ToSet(steerQ) = {}
  BY DEF IInv, Types, TypeInputs, NoneTwice, Placed, Apart
<1>3. /\ Told(<<>>, saved, displaced)
      /\ \A s : Before(s, <<>>, saved, displaced) /\ Before(<<>>, s, saved, displaced)
  BY Untold, NoElements, EmptySeq
<1>4. Told(history', saved, displaced) /\ Before(history', front.batch, saved, displaced)
  <2>1. CASE history' = history
    BY <2>1 DEF IInv, StoryInv
  <2>2. CASE history' = history \o steerQ
    <3>1. Told(history', saved, displaced)
      BY <1>2, <2>2, ToldJoined DEF IInv, StoryInv
    <3>2. ToSet(history') = ToSet(history) \union ToSet(steerQ)
      BY <1>2, <2>2, JoinedSets
    <3> QED BY <3>1, <3>2 DEF IInv, StoryInv, Before
  <2> QED BY <1>1, <2>1, <2>2
<1> QED BY <1>1, <1>3, <1>4 DEF IInv, StoryInv

LEMMA SubmitPromptStory ==
  ASSUME IInv, NEW x, SubmitPrompt(x)
  PROVE  StoryInv'
<1>1. /\ x \in Inputs /\ x \notin Accepted /\ Accepted' = Accepted \union {x}
  BY NewInput DEF IInv, Types, SubmitPrompt, Kinds
<1>2. <<x>> \in Seq(Inputs) /\ ToSet(<<x>>) = {x} /\ Distinct(<<x>>)
  BY <1>1, OneElement
<1>3. /\ Waiting' = Waiting /\ front.batch = <<>> /\ front'.batch = <<x>>
      /\ history' = history /\ steerQ' = steerQ /\ displaced' = displaced /\ Save(<<x>>)
  BY DEF SubmitPrompt, Waiting, Carried, app, agent, Ready, At
<1>4. /\ Waiting \subseteq Accepted /\ ToSet(history) \subseteq Accepted
      /\ ToSet(steerQ) \subseteq Accepted
  BY Located DEF Waiting
<1>5. Recorded \subseteq Accepted /\ Recorded \intersect Waiting = {}
  BY DEF IInv, StoryInv
<1>6. TypeInputs'
  BY SubmitPromptInputs DEF InputInv
<1> QED BY <1>1, <1>2, <1>3, <1>4, <1>5, <1>6, WritingStory

LEMMA ToldQueue ==
  ASSUME IInv, NEW p \in Seq(Inputs), ToSet(p) \subseteq ToSet(queue) \union ToSet(notes)
  PROVE  /\ ToSet(p) \intersect Recorded = {} /\ ToSet(p) \subseteq Accepted
         /\ ToSet(p) \intersect (ToSet(history) \union ToSet(steerQ)) = {}
<1>1. ToSet(p) \intersect (ToSet(history) \union ToSet(steerQ)) = {}
  BY DEF IInv, Placed, Apart
<1> QED BY <1>1, Located DEF IInv, StoryInv, Waiting

LEMMA ToolEndStory ==
  ASSUME IInv, ToolEnd
  PROVE  StoryInv'
<1>1. /\ queue \in Seq(Inputs) /\ Distinct(queue) /\ queue' = <<>> /\ ToSet(<<>>) = {}
      /\ front.batch = <<>> /\ front'.batch = queue /\ history' = history /\ steerQ' = steerQ
      /\ displaced' = displaced /\ Accepted' = Accepted /\ Save(queue)
      /\ notes' = notes /\ actions' = actions /\ Carried' = Carried
  BY NoElements DEF ToolEnd, Receive, Ready, At, app, Carried, Accepted, IInv, Types, TypeInputs,
                    NoneTwice
<1>2. Waiting' = ToSet(notes) \union ToSet(actions) \union ToSet(Carried)
  BY <1>1 DEF Waiting
<1>3. Waiting' \intersect (Recorded \union ToSet(queue)) = {}
  BY <1>2 DEF IInv, StoryInv, Waiting, Placed, Apart
<1>4. TypeInputs'
  BY ToolEndInputs DEF InputInv
<1> QED BY <1>1, <1>3, <1>4, ToldQueue, WritingStory

LEMMA DrainQueueStory ==
  ASSUME IInv, DrainQueue
  PROVE  StoryInv'
<1>1. PICK p \in Sorted :
        /\ queue' = Suffix(queue, PromptsDrained)
        /\ \/ actions' = <<>> /\ notes' = notes \o actions
           \/ actions' = actions /\ notes' = notes
        /\ Save(p)
        /\ front' = IF p = <<>> THEN [front EXCEPT !.at = "actions", !.done = TRUE]
                     ELSE [front EXCEPT !.at = "start", !.batch = p]
        /\ displaced \subseteq displaced'
  BY DEF DrainQueue
<1>2. /\ queue \in Seq(Inputs) /\ Distinct(queue) /\ PromptsDrained \in 0..Len(queue)
      /\ notes \in Seq(Inputs) /\ actions \in Seq(Inputs)
  BY DrainBounds DEF IInv, Types, TypeInputs, NoneTwice
<1>3. /\ p \in Seq(Inputs) /\ Distinct(p) /\ ToSet(queue) = ToSet(p) \union ToSet(queue')
      /\ ToSet(p) \intersect ToSet(queue') = {}
  BY <1>1, <1>2, SplitSets, SortedKeeps
<1>4. /\ history' = history /\ steerQ' = steerQ /\ Accepted' = Accepted /\ Carried' = Carried
      /\ front.batch = <<>> /\ front'.batch = p
  <2>1. front.batch = <<>>
    BY DEF DrainQueue, IInv, Stages
  <2>2. front'.batch = p
    BY <1>1, <2>1 DEF IInv, Types, TypeFront, Fronts
  <2> QED BY <2>1, <2>2 DEF DrainQueue, agent, Accepted, Carried
<1>5. ToSet(notes') \union ToSet(actions') = ToSet(notes) \union ToSet(actions)
  <2>1. ToSet(notes \o actions) = ToSet(notes) \union ToSet(actions)
    BY <1>2, JoinedSets
  <2>2. ToSet(<<>>) = {}
    BY NoElements
  <2> QED BY <1>1, <2>1, <2>2
<1>6. Waiting' = ToSet(queue') \union ToSet(notes) \union ToSet(actions) \union ToSet(Carried)
  BY <1>4, <1>5 DEF Waiting
<1>7. Waiting' \intersect (Recorded \union ToSet(p)) = {}
  <2>1. Waiting' \subseteq Waiting
    BY <1>3, <1>6 DEF Waiting
  <2>2. (ToSet(notes) \union ToSet(actions) \union ToSet(Carried)) \intersect ToSet(queue) = {}
    BY DEF IInv, Placed, Apart
  <2> QED BY <1>3, <1>6, <2>1, <2>2 DEF IInv, StoryInv
<1>8. TypeInputs'
  BY DrainQueueInputs DEF InputInv
<1>9. /\ ToSet(p) \intersect Recorded = {} /\ ToSet(p) \subseteq Accepted
      /\ ToSet(p) \intersect (ToSet(history) \union ToSet(steerQ)) = {}
  BY <1>3, ToldQueue
<1> QED BY <1>1, <1>3, <1>4, <1>7, <1>8, <1>9, WritingStory

LEMMA ApplyNoteStory ==
  ASSUME IInv, ApplyNote
  PROVE  StoryInv'
<1> DEFINE x == Head(notes)
<1>1. /\ x \in Inputs /\ ToSet(notes) = {x} \union ToSet(notes') /\ x \notin ToSet(notes')
  BY HeadTail DEF ApplyNote, IInv, Types, TypeInputs, NoneTwice
<1>2. <<x>> \in Seq(Inputs) /\ ToSet(<<x>>) = {x} /\ Distinct(<<x>>)
  BY <1>1, OneElement
<1>3. /\ actions' = actions /\ steerQ' = steerQ /\ history' = history
      /\ displaced' = displaced /\ Carried' = Carried /\ Accepted' = Accepted
      /\ front.batch = <<>>
  BY DEF ApplyNote, app, agent, Carried, Accepted, IInv, Stages
<1>4. \/ /\ saved' = saved /\ unsaved' = unsaved /\ front' = front
         /\ queue' = queue \/ Enqueue(<<x>>)
      \/ Save(<<x>>) /\ queue' = queue /\ front'.batch = <<x>>
  BY DEF ApplyNote, IInv, Types, TypeFront, Fronts
<1> HIDE DEF x
<1>5. CASE /\ saved' = saved /\ unsaved' = unsaved /\ front' = front
           /\ queue' = queue \/ Enqueue(<<x>>)
  <2>1. ToSet(queue') \subseteq ToSet(queue) \union {x}
    <3>1. CASE Enqueue(<<x>>)
      <4>1. TypeInputs /\ Distinct(queue) /\ ToSet(queue) \intersect {x} = {}
        BY <1>1 DEF IInv, Types, NoneTwice, Placed, Apart
      <4>2. Divided({x})
        BY <1>2, <3>1, <4>1, EnqueueKeeps
      <4> QED BY <4>2 DEF Divided
    <3> QED BY <1>5, <3>1
  <2>2. Waiting' \subseteq Waiting
    BY <1>1, <1>3, <2>1 DEF Waiting
  <2> QED BY <1>3, <1>5, <2>2, QuietStory
<1>6. CASE Save(<<x>>) /\ queue' = queue /\ front'.batch = <<x>>
  <2>1. Waiting' \intersect (Recorded \union {x}) = {}
    BY <1>1, <1>3, <1>6 DEF IInv, StoryInv, Waiting, Placed, Apart
  <2>2. TypeInputs'
    BY ApplyNoteInputs DEF InputInv
  <2>3. /\ ToSet(<<x>>) \intersect Recorded = {} /\ ToSet(<<x>>) \subseteq Accepted
        /\ ToSet(<<x>>) \intersect (ToSet(history) \union ToSet(steerQ)) = {}
    BY <1>1, <1>2, ToldQueue
  <2> QED BY <1>2, <1>3, <1>6, <2>1, <2>2, <2>3, WritingStory
<1> QED BY <1>4, <1>5, <1>6

LEMMA OthersStory ==
  ASSUME IInv,
         \/ \E x \in Inputs : SubmitCommand(x) \/ Steer(x) \/ SendMessage(x)
         \/ \E x \in Inputs : SubmitQueued("prompt", x) \/ SubmitQueued("command", x)
         \/ SteerQueues \/ ProcessActions
  PROVE  StoryInv'
<1>1. ASSUME NEW x \in Inputs, SubmitCommand(x) PROVE StoryInv'
  <2>1. /\ saved' = saved /\ unsaved' = unsaved /\ history' = history /\ steerQ' = steerQ
        /\ front'.batch = front.batch /\ displaced' = displaced /\ Waiting' = Waiting
    BY <1>1 DEF SubmitCommand, app, agent, Ready, At, Waiting, Carried
  <2>2. Accepted' = Accepted \union {x}
    BY <1>1, NewInput DEF SubmitCommand, IInv, Types, Kinds
  <2> QED BY <2>1, <2>2, QuietStory
<1>2. ASSUME NEW x \in Inputs, Steer(x) PROVE StoryInv'
  <2>1. /\ saved' = saved /\ unsaved' = unsaved /\ history' = history /\ steerQ' = steerQ
        /\ front'.batch = front.batch /\ displaced' = displaced
        /\ queue' = queue /\ notes' = notes /\ actions' = actions /\ ext'.on = x
    BY <1>2 DEF Steer, shell, tui, agent, NoCall
  <2>2. x \notin Accepted /\ Accepted' = Accepted \union {x}
    BY <1>2, NewInput DEF Steer, IInv, Types, Kinds
  <2>3. ToSet(Carried') = {x}
    <3>1. x # 0
      BY ShellAssumption DEF Inputs
    <3> QED BY <2>1, <3>1, OneElement DEF Carried
  <2>4. Waiting' \subseteq Waiting \union (Accepted' \ Accepted)
    BY <2>1, <2>2, <2>3 DEF Waiting
  <2> QED BY <2>1, <2>2, <2>4, QuietStory
<1>3. ASSUME NEW x \in Inputs, SendMessage(x) PROVE StoryInv'
  <2>1. /\ saved' = saved /\ unsaved' = unsaved /\ history' = history /\ steerQ' = steerQ
        /\ front'.batch = front.batch /\ displaced' = displaced
        /\ queue' = queue /\ notes' = notes /\ actions' = Append(actions, x) /\ Carried' = Carried
    BY <1>3 DEF SendMessage, shell, tui, agent, Carried
  <2>2. x \notin Accepted /\ Accepted' = Accepted \union {x}
    BY <1>3, NewInput DEF SendMessage, IInv, Types, Kinds
  <2>3. ToSet(actions') = ToSet(actions) \union {x}
    <3>1. actions \in Seq(Inputs)
      BY DEF IInv, Types, TypeInputs
    <3> QED BY <2>1, <3>1, Appended
  <2>4. Waiting' \subseteq Waiting \union (Accepted' \ Accepted)
    BY <2>1, <2>2, <2>3 DEF Waiting
  <2> QED BY <2>1, <2>2, <2>4, QuietStory
<1>4. ASSUME NEW x \in Inputs, SubmitQueued("prompt", x) PROVE StoryInv'
  <2>1. /\ saved' = saved /\ unsaved' = unsaved /\ history' = history /\ steerQ' = steerQ
        /\ front'.batch = front.batch /\ displaced' = displaced
        /\ notes' = notes /\ actions' = actions /\ Carried' = Carried /\ Enqueue(<<x>>)
    BY <1>4 DEF SubmitQueued, app, agent, Ready, At, Carried
  <2>2. x \notin Accepted /\ Accepted' = Accepted \union {x}
    BY <1>4, NewInput DEF SubmitQueued, IInv, Types, Kinds
  <2>3. ToSet(queue') \subseteq ToSet(queue) \union {x}
    <3>1. TypeInputs /\ Distinct(queue) /\ ToSet(queue) \intersect {x} = {}
      BY <2>2, Located DEF IInv, Types, NoneTwice
    <3>2. <<x>> \in Seq(Inputs) /\ ToSet(<<x>>) = {x} /\ Distinct(<<x>>)
      BY OneElement
    <3>3. Divided({x})
      BY <2>1, <3>1, <3>2, EnqueueKeeps
    <3> QED BY <3>3 DEF Divided
  <2>4. Waiting' \subseteq Waiting \union (Accepted' \ Accepted)
    BY <2>1, <2>2, <2>3 DEF Waiting
  <2> QED BY <2>1, <2>2, <2>4, QuietStory
<1>5. ASSUME NEW x \in Inputs, SubmitQueued("command", x) PROVE StoryInv'
  <2>1. /\ saved' = saved /\ unsaved' = unsaved /\ history' = history /\ steerQ' = steerQ
        /\ front'.batch = front.batch /\ displaced' = displaced /\ queue' = queue
        /\ notes' = notes /\ actions' = actions /\ Carried' = Carried
    BY <1>5 DEF SubmitQueued, EnqueueCommand, app, agent, Ready, At, Carried
  <2>2. Accepted' = Accepted \union {x}
    BY <1>5, NewInput DEF SubmitQueued, IInv, Types, Kinds
  <2>3. Waiting' = Waiting
    BY <2>1 DEF Waiting
  <2> QED BY <2>1, <2>2, <2>3, QuietStory
<1>6. CASE SteerQueues
  <2>1. /\ saved' = saved /\ unsaved' = unsaved /\ history' = history /\ steerQ' = steerQ
        /\ front'.batch = front.batch /\ displaced' = displaced /\ Accepted' = Accepted
        /\ notes' = notes /\ actions' = actions /\ Enqueue(<<ext.on>>) /\ Carried' = <<>>
    BY <1>6 DEF SteerQueues, tui, agent, Carried, NoCall, Accepted
  <2>2. ext.on \in Inputs /\ Carried = <<ext.on>>
    BY <1>6, CarriedOne DEF SteerQueues
  <2>3. ToSet(queue') \subseteq ToSet(queue) \union ToSet(Carried)
    <3>1. <<ext.on>> \in Seq(Inputs) /\ ToSet(<<ext.on>>) = {ext.on} /\ Distinct(<<ext.on>>)
      BY <2>2, OneElement
    <3>2. TypeInputs /\ Distinct(queue) /\ ToSet(queue) \intersect {ext.on} = {}
      BY <2>2, <3>1 DEF IInv, Types, NoneTwice, Placed, Apart
    <3>3. Divided({ext.on})
      BY <2>1, <3>1, <3>2, EnqueueKeeps
    <3> QED BY <2>2, <3>1, <3>3 DEF Divided
  <2>4. Waiting' \subseteq Waiting
    BY <2>1, <2>3, NoElements DEF Waiting
  <2> QED BY <2>1, <2>4, QuietStory
<1>7. CASE ProcessActions
  <2>1. /\ saved' = saved /\ unsaved' = unsaved /\ history' = history /\ steerQ' = steerQ
        /\ front'.batch = front.batch /\ displaced' = displaced /\ Accepted' = Accepted
        /\ Carried' = Carried /\ actions' = <<>>
    BY <1>7 DEF ProcessActions, DrainActions, agent, Carried, Accepted, IInv, Types, TypeFront,
                Fronts
  <2>2. /\ actions \in Seq(Inputs) /\ notes \in Seq(Inputs) /\ Distinct(actions) /\ TypeInputs
        /\ Distinct(queue) /\ ToSet(queue) \intersect ToSet(actions) = {}
    BY DEF IInv, Types, TypeInputs, NoneTwice, Placed, Apart
  <2>3. \/ Enqueue(actions) /\ notes' = notes
        \/ notes' = notes \o actions /\ queue' = queue
    BY <1>7 DEF ProcessActions, DrainActions
  <2>4. ToSet(queue') \union ToSet(notes') \subseteq
           ToSet(queue) \union ToSet(notes) \union ToSet(actions)
    <3>1. CASE Enqueue(actions) /\ notes' = notes
      <4>1. Divided(ToSet(actions))
        BY <2>2, <3>1, EnqueueKeeps
      <4> QED BY <3>1, <4>1 DEF Divided
    <3>2. CASE notes' = notes \o actions /\ queue' = queue
      BY <2>2, <3>2, JoinedSets
    <3> QED BY <2>3, <3>1, <3>2
  <2>5. Waiting' \subseteq Waiting
    BY <2>1, <2>4, NoElements DEF Waiting
  <2> QED BY <2>1, <2>5, QuietStory
<1> QED BY <1>1, <1>2, <1>3, <1>4, <1>5, <1>6, <1>7

LEMMA StillStory == IInv /\ Still => StoryInv'
<1> SUFFICES ASSUME IInv, Still PROVE StoryInv'
  OBVIOUS
<1>1. Waiting' = Waiting /\ Accepted' = Accepted
  BY DEF Still, Waiting, Carried, Accepted
<1> QED BY <1>1, QuietStory DEF Still

-----------------------------------------------------------------------------
(* What everybody is doing.                                                 *)

ControlInv == TypeFront /\ TypeFlags /\ TypeRun /\ Stages /\ RunningInv
EndLast == \A i \in DOMAIN chan : chan[i] = "agentEnd" => i = Len(chan)

\* The end of a run is the last event of its channel, ...
LEMMA Received ==
  ASSUME IInv, NEW e, Receive(e)
  PROVE  /\ chan' \in Seq(Events) /\ Len(chan') <= ChanCap /\ EndLast'
         /\ e = "agentEnd" => EndComes /\ ~EndComes'
         /\ e # "agentEnd" => (EndComes' <=> EndComes)
<1> DEFINE n == Len(chan)
           u == Tail(chan)
<1>1. /\ chan \in Seq(Events) /\ n <= ChanCap /\ chan # <<>> /\ Head(chan) = e /\ chan' = u
      /\ \A i \in DOMAIN chan : chan[i] = "agentEnd" => i = n
  BY DEF IInv, Types, TypeRun, RunningInv, Receive
<1>2. /\ n \in Nat \ {0} /\ DOMAIN chan = 1..n /\ Head(chan) = chan[1]
      /\ u \in Seq(Events) /\ Len(u) = n - 1 /\ \A i \in 1..(n - 1) : u[i] = chan[i + 1]
  BY <1>1, HeadTailProperties, SeqParts, EmptySeq
<1>3. DOMAIN u = 1..(n - 1)
  BY <1>2, LenProperties
<1> HIDE DEF n, u
<1>4. u \in Seq(Events) /\ Len(u) <= ChanCap
  BY <1>1, <1>2, ShellAssumption
<1>5. \A i \in DOMAIN u : u[i] = "agentEnd" => i = Len(u)
  <2> SUFFICES ASSUME NEW i \in 1..(n - 1), u[i] = "agentEnd" PROVE i = n - 1
    BY <1>2, <1>3
  <2>1. i + 1 \in DOMAIN chan /\ chan[i + 1] = "agentEnd"
    BY <1>2
  <2>2. i + 1 = n
    BY <1>1, <2>1
  <2> QED BY <1>2, <2>2
<1>6. ASSUME e = "agentEnd" PROVE EndComes /\ \A i \in DOMAIN u : u[i] # "agentEnd"
  <2>1. 1 \in DOMAIN chan /\ chan[1] = "agentEnd"
    BY <1>1, <1>2, <1>6
  <2>2. n = 1
    BY <1>1, <2>1
  <2> QED BY <1>3, <2>1, <2>2 DEF EndComes
<1>7. ASSUME e # "agentEnd" PROVE (\E i \in DOMAIN u : u[i] = "agentEnd") <=> EndComes
  <2>1. ASSUME NEW i \in DOMAIN u, u[i] = "agentEnd" PROVE EndComes
    <3>1. i + 1 \in DOMAIN chan /\ chan[i + 1] = "agentEnd"
      BY <1>2, <1>3, <2>1
    <3> QED BY <3>1 DEF EndComes
  <2>2. ASSUME NEW i \in DOMAIN chan, chan[i] = "agentEnd"
        PROVE  \E j \in DOMAIN u : u[j] = "agentEnd"
    <3>1. i # 1
      BY <1>1, <1>2, <1>7, <2>2
    <3>2. i - 1 \in 1..(n - 1) /\ i - 1 + 1 = i
      BY <1>2, <3>1
    <3> QED BY <1>2, <1>3, <2>2, <3>2
  <2> QED BY <2>1, <2>2 DEF EndComes
<1> QED BY <1>1, <1>4, <1>5, <1>6, <1>7 DEF EndComes, EndLast

\* ... for nothing is reported behind it.
LEMMA Emitted ==
  ASSUME TypeRun, NEW e \in Events, Emit(e), ~EndComes
  PROVE  /\ chan' \in Seq(Events) /\ Len(chan') <= ChanCap /\ EndLast'
         /\ EndComes' <=> e = "agentEnd" /\ Len(chan) < ChanCap
<1> DEFINE n == Len(chan)
           u == Append(chan, e)
<1>1. /\ chan \in Seq(Events) /\ n <= ChanCap /\ n \in Nat /\ DOMAIN chan = 1..n
      /\ \A i \in DOMAIN chan : chan[i] # "agentEnd"
      /\ chan' = IF n < ChanCap THEN u ELSE chan
  BY LenProperties DEF TypeRun, Emit, EndComes
<1>2. /\ u \in Seq(Events) /\ Len(u) = n + 1 /\ u[n + 1] = e
      /\ \A i \in 1..n : u[i] = chan[i]
  BY <1>1, AppendProperties
<1>3. DOMAIN u = 1..(n + 1)
  BY <1>2, LenProperties
<1> HIDE DEF n, u
<1>4. CASE n < ChanCap
  <2>1. n + 1 <= ChanCap /\ n + 1 \in 1..(n + 1)
    BY <1>1, <1>4, ShellAssumption
  <2>2. \A i \in DOMAIN u : i = n + 1 \/ (i \in 1..n /\ u[i] # "agentEnd")
    BY <1>1, <1>2, <1>3
  <2> QED BY <1>1, <1>2, <1>3, <1>4, <2>1, <2>2 DEF EndComes, EndLast, n
<1>5. CASE ~(n < ChanCap)
  BY <1>1, <1>5 DEF EndComes, EndLast, n
<1> QED BY <1>4, <1>5

\* What a sequence of inputs says about itself.
\* What a sequence of inputs says about itself.
LEMMA Lengths ==
  ASSUME NEW s \in Seq(Inputs), NEW u \in Seq(Inputs)
  PROVE  /\ Len(s) <= Len(s \o u) /\ (u # <<>> => Len(s) + 1 <= Len(s \o u))
         /\ s \o u \in Seq(Inputs)
<1>1. /\ Len(s) \in Nat /\ Len(u) \in Nat /\ (u # <<>> => Len(u) # 0)
      /\ Len(s \o u) = Len(s) + Len(u) /\ s \o u \in Seq(Inputs)
  BY LenProperties, ConcatProperties, EmptySeq
<1> QED BY <1>1

LEMMA FrontSteps ==
  ASSUME NEW f \in Fronts, NEW at \in Steps, NEW b \in Seq(Inputs),
         NEW v \in {"none", "submit", "drain"}
  PROVE  /\ [f EXCEPT !.at = at] \in Fronts /\ [f EXCEPT !.at = at, !.batch = b] \in Fronts
         /\ [f EXCEPT !.at = at, !.done = TRUE] \in Fronts
         /\ [f EXCEPT !.at = at, !.batch = b, !.via = v] \in Fronts
  BY DEF Fronts
LEMMA FrontNew ==
  ASSUME NEW at \in Steps, NEW op \in {"none", "submit", "event", "bg"}, NEW b \in Seq(Inputs),
         NEW v \in {"none", "submit", "drain"}, NEW d \in BOOLEAN
  PROVE  At(at, op, b, v, d) \in Fronts
  BY DEF Fronts, At

LEMMA FrontFresh ==
  /\ At("actions", "event", <<>>, "none", FALSE) \in Fronts
  /\ At("signal", "event", <<>>, "drain", FALSE) \in Fronts
  /\ At("apply", "bg", <<>>, "none", TRUE) \in Fronts
  /\ At("signal", "bg", <<>>, "drain", FALSE) \in Fronts
<1>1. <<>> \in Seq(Inputs) /\ {"actions", "signal", "apply"} \subseteq Steps
  BY EmptySeq DEF Steps
<1> QED BY <1>1, FrontNew

LEMMA FrontTyped ==
  ASSUME IInv, FrontStep
  PROVE  TypeFront'
<1>1. front \in Fronts /\ TypeFront /\ <<>> \in Seq(Inputs) /\ Ready \in Fronts
  BY FrontNew, EmptySeq DEF IInv, Types, TypeFront, Ready, Steps
<1>2. SUFFICES front' \in Fronts /\ ext' = ext
  BY <1>1 DEF TypeFront
<1> USE DEF app, Steps
<1>3. CASE StartAgent
  BY <1>1, <1>3, FrontSteps DEF StartAgent
<1>4. CASE ClearIdle
  BY <1>1, <1>4, FrontSteps DEF ClearIdle
<1>5. CASE SetRunning
  BY <1>1, <1>5, FrontSteps DEF SetRunning
<1>6. CASE SteerPrompts
  BY <1>1, <1>6, FrontSteps DEF SteerPrompts
<1>7. CASE SignalIdle
  BY <1>1, <1>7, FrontSteps DEF SignalIdle
<1>8. CASE DrainQueue
  <2>1. PICK p \in Sorted :
           \/ front' = [front EXCEPT !.at = "actions", !.done = TRUE]
           \/ front' = [front EXCEPT !.at = "start", !.batch = p]
    BY <1>8 DEF DrainQueue
  <2>2. p \in Seq(Inputs)
    BY SortedKeeps
  <2>3. ext' = ext
    BY <1>8 DEF DrainQueue
  <2>4. /\ [front EXCEPT !.at = "actions", !.done = TRUE] \in Fronts
        /\ [front EXCEPT !.at = "start", !.batch = p] \in Fronts
    BY <1>1, <2>2 DEF Fronts
  <2> QED BY <1>1, <2>1, <2>3, <2>4
<1>9. CASE ProcessActions
  BY <1>1, <1>9, FrontSteps DEF ProcessActions, DrainActions
<1>10. CASE ApplyNote
  <2> DEFINE b == <<Head(notes)>>
  <2>1. b \in Seq(Inputs)
    BY <1>10, HeadTail, OneElement DEF ApplyNote, IInv, Types, TypeInputs
  <2>2. \/ front' = front
        \/ front' = [front EXCEPT !.at = "start", !.batch = b, !.via = "submit"]
    BY <1>10 DEF ApplyNote
  <2> HIDE DEF b
  <2>3. ext' = ext
    BY <1>10 DEF ApplyNote
  <2>4. [front EXCEPT !.at = "start", !.batch = b, !.via = "submit"] \in Fronts
    BY <1>1, <2>1 DEF Fronts
  <2> QED BY <1>1, <2>2, <2>3, <2>4
<1>11. CASE SelectTask
  BY <1>1, <1>11, FrontSteps DEF SelectTask
<1>12. CASE FinishEvent
  BY <1>1, <1>12, FrontSteps DEF FinishEvent
<1>13. CASE FinishBg
  BY <1>1, <1>13, FrontSteps DEF FinishBg
<1>14. CASE FinishSubmit
  BY <1>1, <1>14, FrontSteps DEF FinishSubmit
<1>15. CASE StartGivesUp
  BY <1>1, <1>15, FrontSteps DEF StartGivesUp
<1> QED BY <1>3, <1>4, <1>5, <1>6, <1>7, <1>8, <1>9, <1>10, <1>11, <1>12, <1>13, <1>14, <1>15
        DEF FrontStep

LEMMA FrontControl ==
  ASSUME IInv, FrontStep
  PROVE  (TypeFlags /\ TypeRun /\ Stages /\ RunningInv)'
<1> USE DEF shell, app, tui, agent, Ready, At, IInv, Types, TypeFront, Fronts, TypeFlags, TypeRun,
            Stages, RunningInv, Busy, EndComes
<1>1. CASE StartAgent
  <2>1. TypeFlags'
    BY <1>1 DEF StartAgent
  <2>2. TypeRun'
    <3>1. chan' \in Seq(Events) /\ Len(chan') <= ChanCap
      BY <1>1, EmptySeq, ShellAssumption DEF StartAgent
    <3>2. runs \in Nat /\ evCh \in 0..runs /\ polls \subseteq 1..runs
      OBVIOUS
    <3>3. runs' = runs + 1 /\ evCh' = evCh /\ polls' = polls /\ phase' = "body" /\ tools' = 0
      BY <1>1 DEF StartAgent
    <3> QED BY <3>1, <3>2, <3>3, ShellAssumption
  <2>3. Stages'
    BY <1>1 DEF StartAgent
  <2>4. RunningInv'
    BY <1>1 DEF StartAgent
  <2> QED BY <2>1, <2>2, <2>3, <2>4
<1>2. CASE ClearIdle
  <2>1. TypeFlags'
    BY <1>2 DEF ClearIdle
  <2>2. TypeRun'
    BY <1>2 DEF ClearIdle
  <2>3. Stages'
    BY <1>2 DEF ClearIdle
  <2>4. RunningInv'
    BY <1>2 DEF ClearIdle
  <2> QED BY <2>1, <2>2, <2>3, <2>4
<1>3. CASE SetRunning
  <2>1. TypeFlags'
    BY <1>3 DEF SetRunning
  <2>2. TypeRun'
    BY <1>3 DEF SetRunning
  <2>3. Stages'
    BY <1>3 DEF SetRunning
  <2>4. RunningInv'
    BY <1>3 DEF SetRunning
  <2> QED BY <2>1, <2>2, <2>3, <2>4
<1>4. CASE SteerPrompts
  BY <1>4 DEF SteerPrompts
<1>5. CASE SignalIdle
  BY <1>5 DEF SignalIdle
<1>6. CASE DrainQueue
  BY <1>6 DEF DrainQueue
<1>7. CASE ProcessActions
  BY <1>7 DEF ProcessActions, DrainActions
<1>8. CASE ApplyNote
  <2>1. TypeFlags'
    BY <1>8 DEF ApplyNote
  <2>2. TypeRun'
    BY <1>8 DEF ApplyNote
  <2>3. Stages'
    <3>1. <<Head(notes)>> # <<>>
      BY <1>8, HeadTail, OneElement DEF ApplyNote, TypeInputs
    <3>2. front.batch = <<>> /\ front.at = "apply"
      BY <1>8 DEF ApplyNote
    <3>3. \/ front' = front
          \/ front'.at = "start" /\ front'.batch = <<Head(notes)>>
      BY <1>8 DEF ApplyNote
    <3>4. UNCHANGED <<runs, history, streaming, evCh, ext>>
      BY <1>8 DEF ApplyNote
    <3> QED BY <3>1, <3>2, <3>3, <3>4
  <2>4. RunningInv'
    BY <1>8 DEF ApplyNote
  <2> QED BY <2>1, <2>2, <2>3, <2>4
<1>9. CASE SelectTask
  BY <1>9 DEF SelectTask
<1>10. CASE FinishEvent
  <2>1. TypeFlags'
    BY <1>10 DEF FinishEvent, StopStreaming
  <2>2. TypeRun'
    <3>1. runs \in Nat /\ evCh \in 0..runs /\ polls \subseteq 1..runs /\ (streaming => evCh >= 1)
      OBVIOUS
    <3>2. /\ evCh' = runs \/ evCh' = evCh
          /\ polls' = polls \/ (polls' = polls \union {evCh'} /\ (streaming \/ evCh' # evCh))
          /\ UNCHANGED <<runs, phase, tools, chan>>
      BY <1>10 DEF FinishEvent, StopStreaming
    <3>3. evCh' \in 0..runs /\ (evCh' # evCh => evCh' >= 1) /\ (evCh' = evCh \/ evCh' >= 1)
      BY <3>1, <3>2
    <3>4. streaming \/ evCh' # evCh => evCh' \in 1..runs
      BY <3>1, <3>3
    <3>5. polls' \subseteq 1..runs
      BY ONLY <3>1, <3>2, <3>4
    <3> QED BY <3>2, <3>3, <3>5
  <2>3. Stages'
    BY <1>10 DEF FinishEvent, StopStreaming
  <2>4. RunningInv'
    BY <1>10 DEF FinishEvent, StopStreaming
  <2> QED BY <2>1, <2>2, <2>3, <2>4
<1>11. CASE FinishBg
  <2>1. TypeFlags'
    BY <1>11 DEF FinishBg, StopStreaming
  <2>2. TypeRun'
    <3>1. runs \in Nat /\ evCh \in 0..runs /\ polls \subseteq 1..runs
      OBVIOUS
    <3>2. /\ \/ evCh' = runs /\ evCh # runs /\ polls' = polls \union {runs}
             \/ evCh' = evCh /\ polls' = polls
          /\ UNCHANGED <<runs, phase, tools, chan>>
      BY <1>11 DEF FinishBg, StopStreaming
    <3>3. evCh # runs => runs \in 1..runs
      BY <3>1
    <3>4. evCh' \in 0..runs
      BY ONLY <3>1, <3>2
    <3>5. polls' \subseteq 1..runs
      <4>1. CASE polls' = polls
        BY ONLY <3>1, <4>1
      <4>2. CASE polls' = polls \union {runs} /\ runs \in 1..runs
        BY ONLY <3>1, <4>2
      <4> QED BY <3>2, <3>3, <4>1, <4>2
    <3> QED BY <3>2, <3>4, <3>5
  <2>3. Stages'
    BY <1>11 DEF FinishBg, StopStreaming
  <2>4. RunningInv'
    BY <1>11 DEF FinishBg, StopStreaming
  <2> QED BY <2>1, <2>2, <2>3, <2>4
<1>12. CASE FinishSubmit
  BY <1>12 DEF FinishSubmit
<1>13. CASE StartGivesUp
  <2>1. TypeFlags'
    BY <1>13 DEF StartGivesUp, Oddities
  <2>2. TypeRun'
    <3>1. chan' \in Seq(Events) /\ Len(chan') <= ChanCap
      BY <1>13, EmptySeq, ShellAssumption DEF StartGivesUp
    <3>2. runs \in Nat /\ evCh \in 0..runs /\ polls \subseteq 1..runs
      OBVIOUS
    <3>3. runs' = runs + 1 /\ evCh' = evCh /\ polls' = polls /\ phase' = "over" /\ tools' = 0
      BY <1>13 DEF StartGivesUp
    <3> QED BY <3>1, <3>2, <3>3, ShellAssumption
  <2>3. Stages'
    BY <1>13 DEF StartGivesUp
  <2>4. RunningInv'
    BY <1>13, EmptySeq DEF StartGivesUp
  <2> QED BY <2>1, <2>2, <2>3, <2>4
<1> QED BY <1>1, <1>2, <1>3, <1>4, <1>5, <1>6, <1>7, <1>8, <1>9, <1>10, <1>11, <1>12, <1>13
        DEF FrontStep

LEMMA UserControl ==
  ASSUME IInv, User
  PROVE  ControlInv'
<1> USE DEF shell, app, tui, agent, Ready, At, NoCall, IInv, Types, TypeFront, Fronts, TypeFlags,
            TypeRun, Stages, RunningInv, Busy, EndComes
<1>1. ASSUME NEW x \in Inputs, SubmitCommand(x)
      PROVE  ControlInv'
  <2>1. TypeFront'
    BY <1>1 DEF SubmitCommand, Steps
  <2>2. TypeFlags'
    BY <1>1 DEF SubmitCommand, Steps
  <2>3. TypeRun'
    BY <1>1 DEF SubmitCommand, Steps
  <2>4. (Stages /\ RunningInv)'
    BY <1>1 DEF SubmitCommand, Steps
  <2> QED BY <2>1, <2>2, <2>3, <2>4 DEF ControlInv
<1>2. ASSUME NEW x \in Inputs, SubmitPrompt(x)
      PROVE  ControlInv'
  <2>1. TypeFront'
    BY <1>2, OneElement DEF SubmitPrompt, Steps
  <2>2. TypeFlags'
    BY <1>2, OneElement DEF SubmitPrompt, Steps
  <2>3. TypeRun'
    BY <1>2, OneElement DEF SubmitPrompt, Steps
  <2>4. (Stages /\ RunningInv)'
    BY <1>2, OneElement DEF SubmitPrompt, Steps
  <2> QED BY <2>1, <2>2, <2>3, <2>4 DEF ControlInv
<1>3. ASSUME NEW x \in Inputs, NEW k \in Kinds, SubmitQueued(k, x)
      PROVE  ControlInv'
  <2>1. TypeFront'
    BY <1>3 DEF SubmitQueued, Steps
  <2>2. TypeFlags'
    BY <1>3 DEF SubmitQueued, Steps
  <2>3. TypeRun'
    BY <1>3 DEF SubmitQueued, Steps
  <2>4. (Stages /\ RunningInv)'
    BY <1>3 DEF SubmitQueued, Steps
  <2> QED BY <2>1, <2>2, <2>3, <2>4 DEF ControlInv
<1> QED BY <1>1, <1>2, <1>3 DEF User

LEMMA EventControl ==
  ASSUME IInv, ToolEnd \/ TurnEnd \/ AgentEnd
  PROVE  ControlInv'
<1> USE DEF shell, app, tui, agent, Ready, At, NoCall, IInv, Types, TypeFront, Fronts, TypeFlags,
            TypeRun, Stages, RunningInv, Busy, EndComes
<1>1. CASE ToolEnd
  <2>1. TypeFront'
    BY <1>1, Received DEF ToolEnd, Steps, Receive, TypeInputs
  <2>2. TypeFlags'
    BY <1>1, Received DEF ToolEnd, Steps, Receive, TypeInputs
  <2>3. TypeRun'
    BY <1>1, Received DEF ToolEnd, Steps, Receive, TypeInputs
  <2>4. Stages'
    BY <1>1 DEF ToolEnd, Receive
  <2>5. EndLast' /\ (EndComes' <=> EndComes)
    BY <1>1, Received DEF ToolEnd
  <2>6. /\ front = Ready /\ (front'.at = "actions" \/ front'.at = "steer")
        /\ UNCHANGED <<running, heldBack, phase, odd>>
    BY <1>1 DEF ToolEnd, Receive
  <2>7. RunningInv'
    BY <2>5, <2>6 DEF EndLast
  <2> QED BY <2>1, <2>2, <2>3, <2>4, <2>7 DEF ControlInv
<1>2. CASE TurnEnd
  <2>1. TypeFront'
    BY <1>2, Received DEF TurnEnd, Steps, Receive
  <2>2. TypeFlags'
    BY <1>2, Received DEF TurnEnd, Steps, Receive
  <2>3. TypeRun'
    BY <1>2, Received DEF TurnEnd, Steps, Receive
  <2>4. (Stages /\ RunningInv)'
    BY <1>2, Received DEF TurnEnd, Steps, Receive
  <2> QED BY <2>1, <2>2, <2>3, <2>4 DEF ControlInv
<1>3. CASE AgentEnd
  <2>1. TypeFront'
    <3>1. /\ \/ front' = At("actions", "event", <<>>, "none", FALSE)
             \/ front' = At("signal", "event", <<>>, "drain", FALSE)
          /\ ext' = ext
      BY <1>3 DEF AgentEnd
    <3>2. front' \in Fronts
      BY <3>1, FrontFresh
    <3> QED BY <3>1, <3>2
  <2>2. TypeFlags'
    BY <1>3, Received DEF AgentEnd, Steps, Receive, Oddities
  <2>3. TypeRun'
    BY <1>3, Received DEF AgentEnd, Steps, Receive, Oddities
  <2>4. (Stages /\ RunningInv)'
    BY <1>3, Received DEF AgentEnd, Steps, Receive, Oddities
  <2> QED BY <2>1, <2>2, <2>3, <2>4 DEF ControlInv
<1> QED BY <1>1, <1>2, <1>3

LEMMA BackgroundControl ==
  ASSUME IInv, (\E t \in Tasks : BgEnd(t) \/ BgEvent(t)) \/ \E r \in Inputs : ChannelClosed(r)
  PROVE  ControlInv'
<1> USE DEF shell, app, tui, agent, Ready, At, NoCall, IInv, Types, TypeFront, Fronts, TypeFlags,
            TypeRun, Stages, RunningInv, Busy, EndComes
<1>1. ASSUME NEW t \in Tasks, BgEnd(t)
      PROVE  ControlInv'
  <2>1. TypeFront'
    <3>1. /\ \/ front' = At("apply", "bg", <<>>, "none", TRUE)
             \/ front' = At("signal", "bg", <<>>, "drain", FALSE)
          /\ ext' = ext
      BY <1>1 DEF BgEnd
    <3>2. front' \in Fronts
      BY <3>1, FrontFresh
    <3> QED BY <3>1, <3>2
  <2>2. TypeFlags'
    BY <1>1 DEF BgEnd, Steps
  <2>3. TypeRun'
    BY <1>1 DEF BgEnd, Steps
  <2>4. (Stages /\ RunningInv)'
    BY <1>1 DEF BgEnd, Steps
  <2> QED BY <2>1, <2>2, <2>3, <2>4 DEF ControlInv
<1>2. ASSUME NEW t \in Tasks, BgEvent(t)
      PROVE  ControlInv'
  <2>1. TypeFront'
    BY <1>2 DEF BgEvent, Steps
  <2>2. TypeFlags'
    BY <1>2 DEF BgEvent, Steps
  <2>3. TypeRun'
    BY <1>2 DEF BgEvent, Steps
  <2>4. (Stages /\ RunningInv)'
    BY <1>2 DEF BgEvent, Steps
  <2> QED BY <2>1, <2>2, <2>3, <2>4 DEF ControlInv
<1>3. ASSUME NEW r \in Inputs, ChannelClosed(r)
      PROVE  ControlInv'
  <2>1. TypeFront'
    BY <1>3 DEF ChannelClosed, StopStreaming
  <2>2. TypeFlags'
    BY <1>3 DEF ChannelClosed, StopStreaming
  <2>3. TypeRun'
    BY <1>3 DEF ChannelClosed, StopStreaming
  <2>4. (Stages /\ RunningInv)'
    BY <1>3 DEF ChannelClosed, StopStreaming
  <2> QED BY <2>1, <2>2, <2>3, <2>4 DEF ControlInv
<1> QED BY <1>1, <1>2, <1>3

LEMMA ExtensionControl ==
  ASSUME IInv, Extension
  PROVE  ControlInv'
<1> USE DEF shell, app, tui, agent, Ready, At, NoCall, IInv, Types, TypeFront, Fronts, TypeFlags,
            TypeRun, Stages, RunningInv, Busy, EndComes
<1>1. ASSUME NEW x \in Inputs, Steer(x)
      PROVE  ControlInv'
  <2>1. TypeFront'
    <3>1. x \in 0..MaxInputs
      BY ShellAssumption DEF Inputs
    <3> QED BY <1>1, <3>1 DEF Steer
  <2>2. TypeFlags'
    BY <1>1 DEF Steer, Inputs
  <2>3. TypeRun'
    BY <1>1 DEF Steer, Inputs
  <2>4. (Stages /\ RunningInv)'
    BY <1>1 DEF Steer, Inputs
  <2> QED BY <2>1, <2>2, <2>3, <2>4 DEF ControlInv
<1>2. ASSUME NEW x \in Inputs, SendMessage(x)
      PROVE  ControlInv'
  <2>1. TypeFront'
    BY <1>2 DEF SendMessage
  <2>2. TypeFlags'
    BY <1>2 DEF SendMessage
  <2>3. TypeRun'
    BY <1>2 DEF SendMessage
  <2>4. (Stages /\ RunningInv)'
    BY <1>2 DEF SendMessage
  <2> QED BY <2>1, <2>2, <2>3, <2>4 DEF ControlInv
<1>3. CASE SteerDelivers
  <2>1. TypeFront'
    BY <1>3, ShellAssumption DEF SteerDelivers
  <2>2. TypeFlags'
    BY <1>3 DEF SteerDelivers
  <2>3. TypeRun'
    BY <1>3 DEF SteerDelivers
  <2>4. (Stages /\ RunningInv)'
    BY <1>3 DEF SteerDelivers
  <2> QED BY <2>1, <2>2, <2>3, <2>4 DEF ControlInv
<1>4. CASE SteerQueues
  <2>1. TypeFront'
    BY <1>4, ShellAssumption DEF SteerQueues
  <2>2. TypeFlags'
    BY <1>4 DEF SteerQueues
  <2>3. TypeRun'
    BY <1>4 DEF SteerQueues
  <2>4. (Stages /\ RunningInv)'
    BY <1>4 DEF SteerQueues
  <2> QED BY <2>1, <2>2, <2>3, <2>4 DEF ControlInv
<1>5. CASE InsertBackground
  <2>1. TypeFront'
    BY <1>5 DEF InsertBackground
  <2>2. TypeFlags'
    BY <1>5 DEF InsertBackground
  <2>3. TypeRun'
    BY <1>5 DEF InsertBackground
  <2>4. (Stages /\ RunningInv)'
    BY <1>5 DEF InsertBackground
  <2> QED BY <2>1, <2>2, <2>3, <2>4 DEF ControlInv
<1>6. ASSUME NEW t \in Tasks, StartBackground(t)
      PROVE  ControlInv'
  <2>1. TypeFront'
    BY <1>6 DEF StartBackground, Oddities
  <2>2. TypeFlags'
    BY <1>6 DEF StartBackground, Oddities
  <2>3. TypeRun'
    BY <1>6 DEF StartBackground, Oddities
  <2>4. (Stages /\ RunningInv)'
    BY <1>6 DEF StartBackground, Oddities
  <2> QED BY <2>1, <2>2, <2>3, <2>4 DEF ControlInv
<1>7. CASE StopBackground
  <2>1. TypeFront'
    BY <1>7 DEF StopBackground, Oddities
  <2>2. TypeFlags'
    BY <1>7 DEF StopBackground, Oddities
  <2>3. TypeRun'
    BY <1>7 DEF StopBackground, Oddities
  <2>4. (Stages /\ RunningInv)'
    BY <1>7 DEF StopBackground, Oddities
  <2> QED BY <2>1, <2>2, <2>3, <2>4 DEF ControlInv
<1>8. CASE WaitForIdle
  <2>1. TypeFront'
    BY <1>8 DEF WaitForIdle
  <2>2. TypeFlags'
    BY <1>8 DEF WaitForIdle
  <2>3. TypeRun'
    BY <1>8 DEF WaitForIdle
  <2>4. (Stages /\ RunningInv)'
    BY <1>8 DEF WaitForIdle
  <2> QED BY <2>1, <2>2, <2>3, <2>4 DEF ControlInv
<1>9. CASE Abort
  <2>1. TypeFront'
    BY <1>9 DEF Abort
  <2>2. TypeFlags'
    BY <1>9 DEF Abort
  <2>3. TypeRun'
    BY <1>9 DEF Abort
  <2>4. (Stages /\ RunningInv)'
    BY <1>9 DEF Abort
  <2> QED BY <2>1, <2>2, <2>3, <2>4 DEF ControlInv
<1> QED BY <1>1, <1>2, <1>3, <1>4, <1>5, <1>6, <1>7, <1>8, <1>9 DEF Extension

LEMMA AgentControl ==
  ASSUME IInv, Agent
  PROVE  ControlInv'
<1> USE DEF shell, app, tui, agent, Ready, At, NoCall, IInv, Types, TypeFront, Fronts, TypeFlags,
            TypeRun, Stages, RunningInv, Busy, EndComes
<1>1. CASE RunReports
  <2>1. TypeFront'
    BY <1>1, Emitted DEF RunReports, Events
  <2>2. TypeFlags'
    BY <1>1, Emitted DEF RunReports, Events
  <2>3. ~EndComes /\ (Emit("toolEnd") \/ Emit("turnEnd"))
    BY <1>1 DEF RunReports
  <2>4. chan' \in Seq(Events) /\ Len(chan') <= ChanCap /\ EndLast' /\ ~EndComes'
    BY <2>3, Emitted DEF Events
  <2>5. tools' \in 0..MaxTools
    BY <1>1, ShellAssumption DEF RunReports
  <2>6. TypeRun'
    BY <1>1, <2>4, <2>5 DEF RunReports
  <2>7. Stages'
    BY <1>1 DEF RunReports
  <2>8. RunningInv'
    BY <1>1, <2>3, <2>4 DEF RunReports, EndLast
  <2> QED BY <2>1, <2>2, <2>6, <2>7, <2>8 DEF ControlInv
<1>2. CASE RunTakesSteering \/ CancelledTakesSteering
  <2>1. TypeFront'
    BY <1>2, Lengths DEF RunTakesSteering, CancelledTakesSteering, TypeInputs
  <2>2. TypeFlags'
    BY <1>2, Lengths DEF RunTakesSteering, CancelledTakesSteering, TypeInputs
  <2>3. TypeRun'
    BY <1>2, Lengths DEF RunTakesSteering, CancelledTakesSteering, TypeInputs
  <2>4. Stages'
    BY <1>2 DEF RunTakesSteering, CancelledTakesSteering
  <2>5. RunningInv'
    BY <1>2 DEF RunTakesSteering, CancelledTakesSteering
  <2> QED BY <2>1, <2>2, <2>3, <2>4, <2>5 DEF ControlInv
<1>3. CASE RunEmitsEnd
  <2>1. TypeFront'
    BY <1>3, Emitted DEF RunEmitsEnd, Events, Oddities
  <2>2. TypeFlags'
    BY <1>3, Emitted DEF RunEmitsEnd, Events, Oddities
  <2>3. ~EndComes /\ Emit("agentEnd") /\ "agentEnd" \in Events
    BY <1>3 DEF RunEmitsEnd, Events
  <2>4. /\ chan' \in Seq(Events) /\ Len(chan') <= ChanCap /\ EndLast'
        /\ EndComes' <=> Len(chan) < ChanCap
    BY <2>3, Emitted
  <2>5. TypeRun'
    BY <1>3, <2>4 DEF RunEmitsEnd
  <2>6. Stages'
    BY <1>3 DEF RunEmitsEnd
  <2>7. /\ phase = "body" /\ phase' = "ending"
        /\ odd' = IF Len(chan) < ChanCap THEN odd ELSE odd \union {"missed"}
        /\ UNCHANGED <<running, heldBack, front>>
    BY <1>3 DEF RunEmitsEnd
  <2>8. RunningInv'
    BY <2>4, <2>7 DEF EndLast
  <2> QED BY <2>1, <2>2, <2>5, <2>6, <2>8 DEF ControlInv
<1>4. CASE RunEnds
  <2>1. TypeFront'
    BY <1>4 DEF RunEnds
  <2>2. TypeFlags'
    BY <1>4 DEF RunEnds
  <2>3. TypeRun'
    BY <1>4 DEF RunEnds
  <2>4. (Stages /\ RunningInv)'
    BY <1>4 DEF RunEnds
  <2> QED BY <2>1, <2>2, <2>3, <2>4 DEF ControlInv
<1>5. ASSUME NEW t \in Tasks, TaskEnds(t)
      PROVE  ControlInv'
  <2>1. TypeFront'
    BY <1>5 DEF TaskEnds
  <2>2. TypeFlags'
    BY <1>5 DEF TaskEnds
  <2>3. TypeRun'
    BY <1>5 DEF TaskEnds
  <2>4. (Stages /\ RunningInv)'
    BY <1>5 DEF TaskEnds
  <2> QED BY <2>1, <2>2, <2>3, <2>4 DEF ControlInv
<1> QED BY <1>1, <1>2, <1>3, <1>4, <1>5 DEF Agent

-----------------------------------------------------------------------------
(* The invariant and the theorems.                                          *)

LEMMA InitIInv == Init => IInv
<1> SUFFICES ASSUME Init PROVE IInv
  OBVIOUS
<1>1. \A S : <<>> \in Seq(S)
  BY EmptySeq
<1>2. Len(<<>>) = 0 /\ DOMAIN <<>> = {} /\ Accepted = {}
  BY EmptySeq DEF Init, Accepted
<1>3. ToSet(<<>>) = {} /\ Distinct(<<>>) /\ \A t : InOrder(<<>>, t)
  BY NoElements
<1>4. front.batch = <<>> /\ front.at = "ready" /\ Carried = <<>> /\ ext.on = 0 /\ ext.at = "none"
  BY DEF Init, Ready, At, NoCall, Carried
<1>5. TypeInputs
  BY <1>1, <1>2, ShellAssumption DEF Init, TypeInputs
<1>6. TypeFront
  <2>1. front \in Fronts
    BY <1>1, FrontNew DEF Init, Ready, Steps
  <2> QED BY <2>1, ShellAssumption DEF Init, TypeFront, NoCall
<1>7. TypeFlags
  BY DEF Init, TypeFlags
<1>8. TypeRun
  BY <1>1, <1>2, ShellAssumption DEF Init, TypeRun
<1>9. Stages
  BY <1>2, <1>4 DEF Init, Stages
<1>10. NoneTwice
  BY <1>3, <1>4 DEF Init, NoneTwice
<1>11. Placed
  BY <1>2, <1>3, <1>4 DEF Init, Placed, Apart
<1>12. KindsKnown /\ SavedInv
  BY <1>3, <1>4 DEF Init, KindsKnown, OfKind, SavedInv, Stored, Recorded
<1>13. RunningInv
  BY <1>2, <1>4 DEF Init, RunningInv, Busy, EndComes
<1>14. OrderInv
  BY <1>3, <1>4 DEF Init, OrderInv, Ahead
<1>15. StoryInv
  BY <1>2, <1>3, <1>4, EmptySeq
     DEF Init, StoryInv, Recorded, Waiting, Told, Before
<1> QED BY <1>5, <1>6, <1>7, <1>8, <1>9, <1>10, <1>11, <1>12, <1>13, <1>14, <1>15 DEF IInv, Types

LEMMA InputsKept == IInv /\ Next => InputInv'
<1> SUFFICES ASSUME IInv, Next PROVE InputInv'
  OBVIOUS
<1>1. ASSUME User PROVE InputInv'
  <2>1. ASSUME NEW x \in Inputs, NEW k \in Kinds, SubmitQueued(k, x) PROVE InputInv'
    <3>1. k = "prompt" \/ k = "command"
      BY <2>1 DEF SubmitQueued
    <3> QED BY <2>1, <3>1, QueuedPromptInputs, QueuedCommandInputs
  <2> QED BY <1>1, <2>1, SubmitCommandInputs, SubmitPromptInputs DEF User
<1>2. ASSUME FrontStep PROVE InputInv'
  BY <1>2, StartAgentInputs, StartGivesUpInputs, SteerPromptsInputs, DrainQueueInputs,
     ProcessActionsInputs,
     ApplyNoteInputs, StillSteps, StillInputs DEF FrontStep
<1>3. ASSUME ToolEnd \/ TurnEnd \/ AgentEnd PROVE InputInv'
  BY <1>3, ToolEndInputs, StillSteps, StillInputs
<1>4. ASSUME Extension PROVE InputInv'
  BY <1>4, SteerInputs, SendMessageInputs, SteerDeliversInputs, SteerQueuesInputs, StillSteps,
     StillInputs DEF Extension
<1>5. ASSUME Agent PROVE InputInv'
  BY <1>5, TakesSteeringInputs, StillSteps, StillInputs DEF Agent
<1>6. ASSUME \/ \E t \in Tasks : BgEnd(t) \/ BgEvent(t)
             \/ \E r \in Inputs : ChannelClosed(r)
      PROVE  InputInv'
  BY <1>6, StillSteps, StillInputs
<1> QED BY <1>1, <1>2, <1>3, <1>4, <1>5, <1>6 DEF Next

LEMMA StoryKept == IInv /\ Next => StoryInv'
<1> SUFFICES ASSUME IInv, Next PROVE StoryInv'
  OBVIOUS
<1>1. ASSUME User PROVE StoryInv'
  <2>1. ASSUME NEW x \in Inputs, NEW k \in Kinds, SubmitQueued(k, x) PROVE StoryInv'
    <3>1. k = "prompt" \/ k = "command"
      BY <2>1 DEF SubmitQueued
    <3> QED BY <2>1, <3>1, OthersStory
  <2> QED BY <1>1, <2>1, OthersStory, SubmitPromptStory DEF User
<1>2. ASSUME FrontStep PROVE StoryInv'
  BY <1>2, StartAgentStory, GivesUpStory, SteerPromptsStory, DrainQueueStory, OthersStory,
     ApplyNoteStory, StillSteps, StillStory DEF FrontStep
<1>3. ASSUME ToolEnd \/ TurnEnd \/ AgentEnd PROVE StoryInv'
  BY <1>3, ToolEndStory, StillSteps, StillStory
<1>4. ASSUME Extension PROVE StoryInv'
  BY <1>4, OthersStory, SteerDeliversStory, StillSteps, StillStory DEF Extension
<1>5. ASSUME Agent PROVE StoryInv'
  BY <1>5, TakesSteeringStory, StillSteps, StillStory DEF Agent
<1>6. ASSUME \/ \E t \in Tasks : BgEnd(t) \/ BgEvent(t)
             \/ \E r \in Inputs : ChannelClosed(r)
      PROVE  StoryInv'
  BY <1>6, StillSteps, StillStory
<1> QED BY <1>1, <1>2, <1>3, <1>4, <1>5, <1>6 DEF Next

LEMMA ControlKept == IInv /\ Next => ControlInv'
<1> SUFFICES ASSUME IInv, Next PROVE ControlInv'
  OBVIOUS
<1>1. ASSUME FrontStep PROVE ControlInv'
  BY <1>1, FrontTyped, FrontControl DEF ControlInv
<1> QED BY <1>1, UserControl, EventControl, BackgroundControl, ExtensionControl, AgentControl
        DEF Next

LEMMA NextIInv == IInv /\ [Next]_vars => IInv'
<1> SUFFICES ASSUME IInv, [Next]_vars PROVE IInv'
  OBVIOUS
<1>1. CASE Next
  BY <1>1, InputsKept, StoryKept, ControlKept DEF InputInv, ControlInv, IInv, Types
<1>2. CASE UNCHANGED vars
  <2> USE DEF vars, shell, app, tui, agent
  <2>1. InputInv' /\ StoryInv'
    BY <1>2, StillInputs, StillStory DEF Still
  <2>2. TypeFront' /\ TypeRun' /\ Stages'
    BY <1>2 DEF IInv, Types, TypeFront, TypeRun, Stages
  <2>3. TypeFlags' /\ RunningInv'
    BY <1>2 DEF IInv, Types, TypeFlags, RunningInv, Busy, EndComes
  <2> QED BY <2>1, <2>2, <2>3 DEF InputInv, IInv, Types
<1> QED BY <1>1, <1>2

LEMMA Invariant == Spec => []IInv
  BY InitIInv, NextIInv, PTL DEF Spec

\* A sequence without repetition is as long as the set of its elements is large.
LEMMA DistinctLength ==
  ASSUME NEW s \in Seq(Inputs), Distinct(s)
  PROVE  Cardinality(ToSet(s)) = Len(s) /\ Len(s) <= MaxInputs
<1>1. Len(s) \in Nat /\ DOMAIN s = 1..Len(s) /\ ToSet(s) \subseteq 1..MaxInputs
  BY SeqParts DEF Inputs
<1>2. s \in [1..Len(s) -> ToSet(s)]
  BY <1>1 DEF ToSet
<1>3. s \in Bijection(1..Len(s), ToSet(s))
  BY <1>1, <1>2 DEF Bijection, Injection, Surjection, IsInjective, Distinct, ToSet
<1>4. Cardinality(ToSet(s)) = Len(s)
  BY <1>1, <1>3, FS_CountingElements DEF ExistsBijection
<1>5. IsFiniteSet(1..MaxInputs) /\ Cardinality(1..MaxInputs) = MaxInputs
  BY ShellAssumption, FS_Interval
<1>6. Cardinality(ToSet(s)) <= MaxInputs
  BY <1>1, <1>5, FS_Subset
<1> QED BY <1>4, <1>6

\* The bounded sequences of the type invariant.
LEMMA Bounded ==
  ASSUME NEW S, NEW n \in Nat, NEW s \in Seq(S), Len(s) <= n
  PROVE  s \in BoundedSeq(S, n)
<1>1. Len(s) \in 0..n /\ s \in [1..Len(s) -> S]
  BY LenProperties
<1> QED BY <1>1 DEF BoundedSeq, SeqOf

\* Every variable has its type: Shell.queue never holds more than maxQueueSize items,
\* the events channel of a run no more than EventBufferSize events, and the front end
\* listens to no run that was not started.
THEOREM TypeCorrect == Spec => []TypeOK
<1>1. IInv => TypeOK
  <2> SUFFICES ASSUME IInv PROVE TypeOK
    OBVIOUS
  <2>1. /\ MaxInputs \in Nat /\ QueueCap \in Nat /\ ChanCap \in Nat
        /\ queue \in Seq(Inputs) /\ later \in Seq(Inputs) /\ notes \in Seq(Inputs)
        /\ actions \in Seq(Inputs) /\ steerQ \in Seq(Inputs) /\ history \in Seq(Inputs)
        /\ front.batch \in Seq(Inputs) /\ chan \in Seq(Events) /\ kind \in Seq(Kinds)
    BY ShellAssumption DEF IInv, Types, TypeInputs, TypeFront, Fronts, TypeRun
  <2>2. Len(queue) \in Nat /\ Len(later) \in Nat /\ Len(history) \in Nat
    BY <2>1, LenProperties
  <2>3. Len(queue) + Len(later) <= QueueCap /\ Len(queue) <= QueueCap /\ Len(later) <= QueueCap
    BY <2>1, <2>2 DEF IInv, Types, TypeInputs
  <2>4. /\ Len(notes) <= MaxInputs /\ Len(actions) <= MaxInputs /\ Len(steerQ) <= MaxInputs
        /\ Len(history) <= MaxInputs /\ Len(front.batch) <= MaxInputs
    BY <2>1, DistinctLength DEF IInv, NoneTwice
  <2>5. kind \in BoundedSeq(Kinds, MaxInputs)
    BY <2>1, Bounded DEF IInv, Types, TypeInputs
  <2>6. queue \in BoundedSeq(Inputs, QueueCap) /\ later \in BoundedSeq(Inputs, QueueCap)
    BY <2>1, <2>3, Bounded
  <2>7. /\ notes \in BoundedSeq(Inputs, MaxInputs) /\ actions \in BoundedSeq(Inputs, MaxInputs)
        /\ steerQ \in BoundedSeq(Inputs, MaxInputs) /\ history \in BoundedSeq(Inputs, MaxInputs)
        /\ front.batch \in BoundedSeq(Inputs, MaxInputs)
    BY <2>1, <2>4, Bounded
  <2>8. chan \in BoundedSeq(Events, ChanCap)
    BY <2>1, Bounded DEF IInv, Types, TypeRun
  <2>9. saved \in BoundedSeq(Inputs, MaxInputs)
    <3>1. saved \in Seq(Inputs) /\ Distinct(saved)
      BY DEF IInv, Types, TypeInputs, StoryInv
    <3> QED BY <2>1, <3>1, DistinctLength, Bounded
  <2>10. front \in [at : Steps, op : {"none", "submit", "event", "bg"},
                    batch : BoundedSeq(Inputs, MaxInputs),
                    via : {"none", "submit", "drain"}, done : BOOLEAN]
    BY <2>7 DEF IInv, Types, TypeFront, Fronts
  <2>11. {unsaved, ran, dropped, displaced} \subseteq SUBSET Inputs
    BY DEF IInv, Types, TypeInputs
  <2> QED BY <2>3, <2>5, <2>6, <2>7, <2>8, <2>9, <2>10, <2>11
         DEF IInv, Types, TypeFront, TypeFlags, TypeRun, TypeOK, Events
<1> QED BY <1>1, Invariant, PTL

\* Joining what has nothing in common.
LEMMA JoinedDisjoint ==
  ASSUME NEW s \in Seq(Inputs), NEW u \in Seq(Inputs), Distinct(s), Distinct(u),
         ToSet(s) \intersect ToSet(u) = {}
  PROVE  s \o u \in Seq(Inputs) /\ Distinct(s \o u) /\ ToSet(s \o u) = ToSet(s) \union ToSet(u)
  BY ConcatProperties, JoinedDistinct, JoinedSets

\* Every input that Submit, Steer or SendMessage accepted is at one place: queued,
\* carried by somebody, with the agent, executed as a command, or given up.
THEOREM InputsOnceHolds == Spec => []InputsOnce
<1>1. IInv => InputsOnce
  <2> SUFFICES ASSUME IInv PROVE InputsOnce
    OBVIOUS
  <2>1. /\ queue \in Seq(Inputs) /\ later \in Seq(Inputs) /\ notes \in Seq(Inputs)
        /\ actions \in Seq(Inputs) /\ steerQ \in Seq(Inputs) /\ history \in Seq(Inputs)
        /\ front.batch \in Seq(Inputs)
    BY DEF IInv, Types, TypeInputs, TypeFront, Fronts
  <2>2. Carried \in Seq(Inputs) /\ Distinct(Carried)
    <3>1. CASE ext.on = 0
      BY <3>1, EmptySeq, NoElements DEF Carried
    <3>2. CASE ext.on # 0
      <4>1. ext.on \in Inputs
        BY <3>2, ShellAssumption DEF IInv, Types, TypeFront, Inputs
      <4> QED BY <3>2, <4>1, OneElement DEF Carried
    <3> QED BY <3>1, <3>2
  <2>3. /\ Distinct(queue) /\ Distinct(later) /\ Distinct(notes) /\ Distinct(actions)
        /\ Distinct(steerQ) /\ Distinct(history) /\ Distinct(front.batch) /\ Placed
    BY DEF IInv, NoneTwice
  <2> DEFINE c1 == queue \o later
             c2 == c1 \o notes
             c3 == c2 \o actions
             c4 == c3 \o steerQ
             c5 == c4 \o history
             c6 == c5 \o front.batch
             c7 == c6 \o Carried
  <2>4. /\ c1 \in Seq(Inputs) /\ Distinct(c1)
        /\ ToSet(c1) = ToSet(queue) \union ToSet(later)
    <3>1. ToSet(queue) \intersect ToSet(later) = {}
      BY <2>3 DEF Placed, Apart
    <3>2. queue \in Seq(Inputs) /\ Distinct(queue) /\ later \in Seq(Inputs) /\ Distinct(later)
      BY <2>1, <2>2, <2>3
    <3> QED BY <3>1, <3>2, JoinedDisjoint
  <2>5. /\ c2 \in Seq(Inputs) /\ Distinct(c2)
        /\ ToSet(c2) = ToSet(c1) \union ToSet(notes)
    <3>1. ToSet(c1) \intersect ToSet(notes) = {}
      BY <2>3, <2>4 DEF Placed, Apart
    <3>2. c1 \in Seq(Inputs) /\ Distinct(c1) /\ notes \in Seq(Inputs) /\ Distinct(notes)
      BY <2>1, <2>2, <2>3, <2>4
    <3> HIDE DEF c1
    <3> QED BY <3>1, <3>2, JoinedDisjoint
  <2>6. /\ c3 \in Seq(Inputs) /\ Distinct(c3)
        /\ ToSet(c3) = ToSet(c2) \union ToSet(actions)
    <3>1. ToSet(c2) \intersect ToSet(actions) = {}
      BY <2>3, <2>4, <2>5 DEF Placed, Apart
    <3>2. c2 \in Seq(Inputs) /\ Distinct(c2) /\ actions \in Seq(Inputs) /\ Distinct(actions)
      BY <2>1, <2>2, <2>3, <2>5
    <3> HIDE DEF c2
    <3> QED BY <3>1, <3>2, JoinedDisjoint
  <2>7. /\ c4 \in Seq(Inputs) /\ Distinct(c4)
        /\ ToSet(c4) = ToSet(c3) \union ToSet(steerQ)
    <3>1. ToSet(c3) \intersect ToSet(steerQ) = {}
      BY <2>3, <2>4, <2>5, <2>6 DEF Placed, Apart
    <3>2. c3 \in Seq(Inputs) /\ Distinct(c3) /\ steerQ \in Seq(Inputs) /\ Distinct(steerQ)
      BY <2>1, <2>2, <2>3, <2>6
    <3> HIDE DEF c3
    <3> QED BY <3>1, <3>2, JoinedDisjoint
  <2>8. /\ c5 \in Seq(Inputs) /\ Distinct(c5)
        /\ ToSet(c5) = ToSet(c4) \union ToSet(history)
    <3>1. ToSet(c4) \intersect ToSet(history) = {}
      BY <2>3, <2>4, <2>5, <2>6, <2>7 DEF Placed, Apart
    <3>2. c4 \in Seq(Inputs) /\ Distinct(c4) /\ history \in Seq(Inputs) /\ Distinct(history)
      BY <2>1, <2>2, <2>3, <2>7
    <3> HIDE DEF c4
    <3> QED BY <3>1, <3>2, JoinedDisjoint
  <2>9. /\ c6 \in Seq(Inputs) /\ Distinct(c6)
        /\ ToSet(c6) = ToSet(c5) \union ToSet(front.batch)
    <3>1. ToSet(c5) \intersect ToSet(front.batch) = {}
      BY <2>3, <2>4, <2>5, <2>6, <2>7, <2>8 DEF Placed, Apart
    <3>2. c5 \in Seq(Inputs) /\ Distinct(c5) /\ front.batch \in Seq(Inputs) /\ Distinct(front.batch)
      BY <2>1, <2>2, <2>3, <2>8
    <3> HIDE DEF c5
    <3> QED BY <3>1, <3>2, JoinedDisjoint
  <2>10. /\ c7 \in Seq(Inputs) /\ Distinct(c7)
        /\ ToSet(c7) = ToSet(c6) \union ToSet(Carried)
    <3>1. ToSet(c6) \intersect ToSet(Carried) = {}
      BY <2>3, <2>4, <2>5, <2>6, <2>7, <2>8, <2>9 DEF Placed, Apart
    <3>2. c6 \in Seq(Inputs) /\ Distinct(c6) /\ Carried \in Seq(Inputs) /\ Distinct(Carried)
      BY <2>1, <2>2, <2>3, <2>9
    <3> HIDE DEF c6
    <3> QED BY <3>1, <3>2, JoinedDisjoint
  <2>11. Cardinality(ToSet(c7)) = Len(c7)
    BY <2>10, DistinctLength
  <2>12. /\ ToSet(c7) \union ran \union dropped = DOMAIN kind
        /\ ran \intersect dropped = {} /\ ToSet(c7) \intersect (ran \union dropped) = {}
    <3>1. DOMAIN kind = Accepted
      BY LenProperties DEF IInv, Types, TypeInputs, Accepted
    <3> HIDE DEF c1, c2, c3, c4, c5, c6, c7
    <3> QED BY <2>3, <2>4, <2>5, <2>6, <2>7, <2>8, <2>9, <2>10, <3>1 DEF Placed, Apart
  <2> QED BY <2>11, <2>12 DEF InputsOnce, Carried
<1> QED BY <1>1, Invariant, PTL

\* The prompts that the user types reach the agent's history in their order, by the
\* start of a run or by steering, except those that a run left in steerQ and those
\* that drainQueue sorted out of order.
THEOREM PromptsInOrderHolds == Spec => []PromptsInOrder
<1>1. IInv => PromptsInOrder
  <2> SUFFICES ASSUME IInv PROVE PromptsInOrder
    OBVIOUS
  <2>1. \A i \in DOMAIN history : history[i] \in Accepted
    BY Located DEF ToSet
  <2>2. InOrder(history, Typed)
    BY DEF IInv, OrderInv
  <2> QED BY <2>1, <2>2 DEF InOrder, Typed, PromptsInOrder
<1> QED BY <1>1, Invariant, PTL

\* However Submit, drainAndSubmitQueued, the steering at EventToolEnd, failing writes
\* (persistMessage) and runs are interleaved, the session has every input that the agent
\* has, once, but for those whose own write failed and those an extension steers; and
\* the inputs it has are in the order in which the agent saw them, but for those a run
\* left in steerQ and those drainQueue sorted out of order.
THEOREM SessionAgreesHolds == Spec => []SessionAgrees
<1>1. IInv => SessionAgrees
  <2> SUFFICES ASSUME IInv PROVE SessionAgrees
    OBVIOUS
  <2>1. steerQ \in Seq(Inputs) /\ history \in Seq(Inputs) /\ saved \in Seq(Inputs)
    BY DEF IInv, Types, TypeInputs
  <2>2. ToSet(steerQ \o history) = ToSet(steerQ) \union ToSet(history)
    BY <2>1, JoinedSets
  <2>3. \A x \in ToSet(steerQ \o history) :
          kind[x] # "steer" => x \in ToSet(saved) \union unsaved
    BY <2>2 DEF IInv, SavedInv, Stored, Recorded
  <2>4. IsInjective(saved)
    BY DEF IInv, StoryInv, Distinct, IsInjective
  <2>5. Told(history, saved, displaced)
    BY DEF IInv, StoryInv
  <2> QED BY <2>3, <2>4, <2>5 DEF Told, SessionAgrees
<1> QED BY <1>1, Invariant, PTL

\* Shell.running is set while a run is at work, and no longer than its end is still
\* to be processed, is held back, or was not delivered.
THEOREM RunningIsTrueHolds == Spec => []RunningIsTrue
<1>1. IInv => RunningIsTrue
  <2> SUFFICES ASSUME IInv PROVE RunningIsTrue
    OBVIOUS
  <2>1. EndComes => "agentEnd" \in ToSet(chan)
    BY DEF EndComes, ToSet
  <2> QED BY <2>1 DEF IInv, RunningInv, Busy, RunningIsTrue
<1> QED BY <1>1, Invariant, PTL

-----------------------------------------------------------------------------
(* The poll that leads on: the safety behind the liveness properties.       *)

Crowded == "crowded" \in odd
Plain == odd \intersect {"held", "missed"} = {}
Starting == {"start", "clear", "set"}

\* As long as background tasks come one at a time, the front end follows the one there
\* is, or is in the middle of one of its events.
Alone ==
    \/ Crowded
    \/ /\ bgPolls \subseteq {bgSel}
       /\ bgTasks \subseteq {bgSel} \/ (bgSel = NoTask /\ \E t \in Tasks : bgTasks = {t})
       /\ ext.at = "insert" => bgTasks = {} /\ bgSel = NoTask
       /\ bgSel # NoTask => bgPolls = {bgSel} \/ front.op = "bg"
       /\ front.op = "bg" => bgPolls = {} /\ bgSel # NoTask

\* While the app is not idle the front end reads the run it displays, or is busy with an
\* event of it; a run that it does not display yet is taken up when the operation, or
\* that of a background task, is finished.
WakeInv ==
    /\ waiting => ~idle
    /\ front.at = "drain" => idle
    /\ front.at = "set" => ~idle
    /\ front.at \in {"signal", "drain"} => front.op # "submit" /\ front.via = "drain"
    /\ front.at \in {"clear", "set"} => evCh # runs
    /\ front.op = "submit" /\ front.at \in Starting => front.via = "submit"
    /\ front.op = "none" => front = Ready
    /\ ~idle /\ evCh = runs => streaming /\ (runs \in polls \/ front.op = "event")
    /\ ~idle /\ evCh # runs =>
          \/ Crowded \/ bgPolls # {} \/ front.at \in Starting \/ front.op = "bg"
          \/ (front.op = "event" /\ running)

\* A held-back end waits for a task that is followed, or is about to be.
HeldInv ==
    heldBack /\ odd \intersect {"crowded", "unfollowed"} = {} =>
      \/ bgPolls # {}
      \/ front.op = "bg" /\ ~front.done
      \/ front.op = "event" /\ front.at # "finish" /\ bgTasks # {}

\* Without an end held back or dropped, only the run at work is read, and an operation
\* that ends one run and starts the next follows the next.
FollowInv ==
    Plain =>
      /\ ~heldBack
      /\ running => /\ ~idle /\ streaming
                    /\ front.op = "event" \/ (evCh = runs /\ runs \in polls)
      /\ polls # {} => running /\ polls = {runs} /\ front.op # "event"
      /\ front.op = "event" =>
           /\ streaming
           /\ front.done => ~running
           /\ running \/ front.done \/ front.at \in Bound
           /\ front.at \in Bound => ~front.done
           /\ front.at \in Starting => front.via = "drain"
      /\ front.at \in {"signal", "drain"} => front.op = "event"
      /\ front.op # "event" /\ front.at \in Starting => front.via = "submit"

Followed == Alone /\ WakeInv /\ HeldInv /\ FollowInv

LEMMA InitFollowed == Init => Followed
  BY DEF Init, Followed, Alone, WakeInv, HeldInv, FollowInv, Ready, At, NoCall, Bound, Starting

\* Most of what goes on elsewhere does not touch it.
Aside ==
    /\ UNCHANGED <<front, running, heldBack, bgTasks, bgSel, bgPolls, evCh, runs, streaming,
                   polls, idle>>
    /\ odd \subseteq odd'
    /\ waiting' => waiting \/ ~idle
    /\ ext'.at = "insert" => ext.at = "insert"

LEMMA AsideFollowed == Followed /\ Aside => Followed'
<1> SUFFICES ASSUME Followed, Aside PROVE Followed'
  OBVIOUS
<1> USE DEF Followed, Aside, Crowded, Plain, Starting, Bound, Ready, At
<1>1. Alone'
  BY DEF Alone
<1>2. WakeInv'
  BY DEF WakeInv
<1>3. HeldInv'
  BY DEF HeldInv
<1>4. FollowInv'
  BY DEF FollowInv
<1> QED BY <1>1, <1>2, <1>3, <1>4

LEMMA AsideSteps ==
  ASSUME IInv, \/ \E x \in Inputs : Steer(x) \/ SendMessage(x)
               \/ SteerDelivers \/ SteerQueues \/ WaitForIdle \/ Abort
               \/ Agent \/ UNCHANGED vars
  PROVE  Aside
<1> USE DEF Aside, shell, app, tui, agent, vars, IInv, Types, TypeFront
<1>1. ASSUME NEW x \in Inputs, Steer(x) PROVE Aside
  <2>1. ext'.at # "insert"
    BY <1>1 DEF Steer, NoCall
  <2> QED BY <1>1, <2>1 DEF Steer
<1>2. ASSUME NEW x \in Inputs, SendMessage(x) PROVE Aside
  BY <1>2 DEF SendMessage
<1>3. CASE SteerDelivers \/ SteerQueues
  BY <1>3 DEF SteerDelivers, SteerQueues, NoCall
<1>4. CASE WaitForIdle \/ Abort \/ UNCHANGED vars
  BY <1>4 DEF WaitForIdle, Abort
<1>5. CASE Agent
  BY <1>5 DEF Agent, RunReports, RunTakesSteering, CancelledTakesSteering, RunEmitsEnd, RunEnds,
              TaskEnds
<1> QED BY <1>1, <1>2, <1>3, <1>4, <1>5

LEMMA NoTaskApart == NoTask \notin Tasks /\ \A S : S \subseteq Tasks => NoTask \notin S
  BY ShellAssumption

LEMMA FrontFollowed ==
  ASSUME IInv, Followed, FrontStep
  PROVE  Followed'
<1> USE DEF shell, app, tui, agent, Ready, At, NoCall, Bound, Starting, Crowded, Plain, IInv, Types,
            TypeFront, Fronts, TypeFlags, TypeRun, RunningInv, Busy, EndComes, Followed
<1>1. CASE StartAgent
  <2>1. Alone'
    BY NoTaskApart, <1>1 DEF StartAgent, Alone, WakeInv
  <2>2. WakeInv'
    BY <1>1 DEF StartAgent, Alone, WakeInv
  <2>3. HeldInv'
    BY NoTaskApart, <1>1 DEF StartAgent, Alone, WakeInv, HeldInv
  <2>4. FollowInv'
    BY <1>1 DEF StartAgent, WakeInv, FollowInv
  <2> QED BY <2>1, <2>2, <2>3, <2>4 DEF Followed
<1>2. CASE ClearIdle
  <2>1. Alone'
    BY NoTaskApart, <1>2 DEF ClearIdle, Alone, WakeInv
  <2>2. WakeInv'
    BY <1>2 DEF ClearIdle, Alone, WakeInv
  <2>3. HeldInv'
    BY NoTaskApart, <1>2 DEF ClearIdle, Alone, WakeInv, HeldInv
  <2>4. FollowInv'
    BY <1>2 DEF ClearIdle, WakeInv, FollowInv
  <2> QED BY <2>1, <2>2, <2>3, <2>4 DEF Followed
<1>3. CASE SetRunning
  <2>1. Alone'
    BY NoTaskApart, <1>3 DEF SetRunning, Alone, WakeInv
  <2>2. WakeInv'
    BY <1>3 DEF SetRunning, Alone, WakeInv
  <2>3. HeldInv'
    BY NoTaskApart, <1>3 DEF SetRunning, Alone, WakeInv, HeldInv
  <2>4. FollowInv'
    BY <1>3 DEF SetRunning, WakeInv, FollowInv
  <2> QED BY <2>1, <2>2, <2>3, <2>4 DEF Followed
<1>4. CASE SteerPrompts
  <2>1. Alone'
    BY NoTaskApart, <1>4 DEF SteerPrompts, Alone, WakeInv
  <2>2. WakeInv'
    BY <1>4 DEF SteerPrompts, Alone, WakeInv
  <2>3. HeldInv'
    BY NoTaskApart, <1>4 DEF SteerPrompts, Alone, WakeInv, HeldInv
  <2>4. FollowInv'
    BY <1>4 DEF SteerPrompts, WakeInv, FollowInv
  <2> QED BY <2>1, <2>2, <2>3, <2>4 DEF Followed
<1>5. CASE SignalIdle
  <2>1. Alone'
    BY NoTaskApart, <1>5 DEF SignalIdle, Alone, WakeInv
  <2>2. WakeInv'
    BY <1>5 DEF SignalIdle, Alone, WakeInv
  <2>3. HeldInv'
    BY NoTaskApart, <1>5 DEF SignalIdle, Alone, WakeInv, HeldInv
  <2>4. FollowInv'
    BY <1>5 DEF SignalIdle, WakeInv, FollowInv
  <2> QED BY <2>1, <2>2, <2>3, <2>4 DEF Followed
<1>6. CASE DrainQueue
  <2>1. Alone'
    BY NoTaskApart, <1>6 DEF DrainQueue, Alone, WakeInv
  <2>2. WakeInv'
    BY <1>6 DEF DrainQueue, Alone, WakeInv
  <2>3. HeldInv'
    BY NoTaskApart, <1>6 DEF DrainQueue, Alone, WakeInv, HeldInv
  <2>4. FollowInv'
    BY <1>6 DEF DrainQueue, WakeInv, FollowInv
  <2> QED BY <2>1, <2>2, <2>3, <2>4 DEF Followed
<1>7. CASE ProcessActions
  <2>1. Alone'
    BY NoTaskApart, <1>7 DEF ProcessActions, DrainActions, Alone, WakeInv
  <2>2. WakeInv'
    BY <1>7 DEF ProcessActions, DrainActions, Alone, WakeInv
  <2>3. HeldInv'
    BY NoTaskApart, <1>7 DEF ProcessActions, DrainActions, Alone, WakeInv, HeldInv
  <2>4. FollowInv'
    BY <1>7 DEF ProcessActions, DrainActions, WakeInv, FollowInv
  <2> QED BY <2>1, <2>2, <2>3, <2>4 DEF Followed
<1>8. CASE ApplyNote
  <2>1. Alone'
    BY NoTaskApart, <1>8 DEF ApplyNote, Alone, WakeInv
  <2>2. WakeInv'
    <3>1. front.at = "apply" /\ front.op # "none"
      BY <1>8 DEF ApplyNote, WakeInv
    <3>2. /\ \/ front' = front
             \/ ~streaming /\ front' = [front EXCEPT !.at = "start", !.batch = <<Head(notes)>>,
                                                     !.via = "submit"]
          /\ UNCHANGED <<idle, waiting, streaming, evCh, runs, polls, bgPolls, odd, running>>
      BY <1>8 DEF ApplyNote
    <3>3. CASE front' = front
      BY <3>2, <3>3 DEF WakeInv
    <3>4. CASE ~streaming /\ front'.at = "start" /\ front'.via = "submit" /\ front'.op = front.op
      BY <3>1, <3>2, <3>4 DEF WakeInv
    <3> QED BY <3>2, <3>3, <3>4
  <2>3. HeldInv'
    BY NoTaskApart, <1>8 DEF ApplyNote, Alone, WakeInv, HeldInv
  <2>4. FollowInv'
    BY <1>8 DEF ApplyNote, WakeInv, FollowInv
  <2> QED BY <2>1, <2>2, <2>3, <2>4 DEF Followed
<1>9. CASE SelectTask
  <2>1. Alone'
    BY NoTaskApart, <1>9 DEF SelectTask, Alone, WakeInv
  <2>2. WakeInv'
    BY <1>9 DEF SelectTask, Alone, WakeInv
  <2>3. HeldInv'
    <3>1. /\ \/ \E t \in bgTasks : bgPolls' = bgPolls \union {t}
             \/ bgTasks \subseteq {bgSel} /\ UNCHANGED <<bgSel, bgPolls>>
          /\ front'.op = front.op /\ front'.done = front.done
          /\ UNCHANGED <<heldBack, odd>>
      BY <1>9 DEF SelectTask
    <3>2. SUFFICES ASSUME heldBack, odd \intersect {"crowded", "unfollowed"} = {}, bgPolls = {},
                          bgTasks # {}, bgTasks \subseteq {bgSel}, front.op = "event"
                   PROVE  FALSE
      BY <3>1 DEF HeldInv
    <3>3. bgSel \in bgTasks /\ bgSel # NoTask
      BY <3>2, NoTaskApart
    <3> QED BY <3>2, <3>3 DEF Alone
  <2>4. FollowInv'
    BY <1>9 DEF SelectTask, WakeInv, FollowInv
  <2> QED BY <2>1, <2>2, <2>3, <2>4 DEF Followed
<1>10. CASE FinishEvent
  <2>1. Alone'
    BY NoTaskApart, <1>10 DEF FinishEvent, StopStreaming, Alone, WakeInv
  <2>2. WakeInv'
    BY <1>10 DEF FinishEvent, StopStreaming, Alone, WakeInv
  <2>3. HeldInv'
    BY NoTaskApart, <1>10 DEF FinishEvent, StopStreaming, Alone, WakeInv, HeldInv
  <2>4. FollowInv'
    BY <1>10 DEF FinishEvent, StopStreaming, WakeInv, FollowInv
  <2> QED BY <2>1, <2>2, <2>3, <2>4 DEF Followed
<1>11. CASE FinishBg
  <2>1. Alone'
    BY NoTaskApart, <1>11 DEF FinishBg, StopStreaming, Alone, WakeInv
  <2>2. WakeInv'
    BY <1>11 DEF FinishBg, StopStreaming, Alone, WakeInv
  <2>3. HeldInv'
    BY NoTaskApart, <1>11 DEF FinishBg, StopStreaming, Alone, WakeInv, HeldInv
  <2>4. FollowInv'
    BY <1>11 DEF FinishBg, StopStreaming, WakeInv, FollowInv
  <2> QED BY <2>1, <2>2, <2>3, <2>4 DEF Followed
<1>12. CASE FinishSubmit
  <2>1. Alone'
    BY NoTaskApart, <1>12 DEF FinishSubmit, Alone, WakeInv
  <2>2. WakeInv'
    BY <1>12 DEF FinishSubmit, Alone, WakeInv
  <2>3. HeldInv'
    BY NoTaskApart, <1>12 DEF FinishSubmit, Alone, WakeInv, HeldInv
  <2>4. FollowInv'
    BY <1>12 DEF FinishSubmit, WakeInv, FollowInv
  <2> QED BY <2>1, <2>2, <2>3, <2>4 DEF Followed
<1>13. CASE StartGivesUp
  <2>1. Alone'
    BY NoTaskApart, <1>13 DEF StartGivesUp, Alone, WakeInv
  <2>2. WakeInv'
    BY <1>13 DEF StartGivesUp, Alone, WakeInv
  <2>3. HeldInv'
    BY NoTaskApart, <1>13 DEF StartGivesUp, Alone, WakeInv, HeldInv
  <2>4. FollowInv'
    BY <1>13 DEF StartGivesUp, FollowInv
  <2> QED BY <2>1, <2>2, <2>3, <2>4 DEF Followed
<1> QED BY <1>1, <1>2, <1>3, <1>4, <1>5, <1>6, <1>7, <1>8, <1>9, <1>10, <1>11, <1>12, <1>13
        DEF FrontStep

LEMMA UserFollowed ==
  ASSUME IInv, Followed, User
  PROVE  Followed'
<1> USE DEF shell, app, tui, agent, Ready, At, NoCall, Bound, Starting, Crowded, Plain, IInv, Types,
            TypeFront, Fronts, TypeFlags, TypeRun, RunningInv, Busy, EndComes, Followed
<1>1. ASSUME NEW x \in Inputs, SubmitCommand(x)
      PROVE  Followed'
  <2>1. Alone'
    BY NoTaskApart, <1>1 DEF SubmitCommand, Alone, WakeInv
  <2>2. WakeInv'
    BY <1>1 DEF SubmitCommand, Alone, WakeInv
  <2>3. HeldInv'
    BY NoTaskApart, <1>1 DEF SubmitCommand, Alone, WakeInv, HeldInv
  <2>4. FollowInv'
    BY <1>1 DEF SubmitCommand, WakeInv, FollowInv
  <2> QED BY <2>1, <2>2, <2>3, <2>4 DEF Followed
<1>2. ASSUME NEW x \in Inputs, SubmitPrompt(x)
      PROVE  Followed'
  <2>1. Alone'
    BY NoTaskApart, <1>2 DEF SubmitPrompt, Alone, WakeInv
  <2>2. WakeInv'
    BY <1>2 DEF SubmitPrompt, Alone, WakeInv
  <2>3. HeldInv'
    BY NoTaskApart, <1>2 DEF SubmitPrompt, Alone, WakeInv, HeldInv
  <2>4. FollowInv'
    BY <1>2 DEF SubmitPrompt, WakeInv, FollowInv
  <2> QED BY <2>1, <2>2, <2>3, <2>4 DEF Followed
<1>3. ASSUME NEW x \in Inputs, NEW k \in Kinds, SubmitQueued(k, x)
      PROVE  Followed'
  <2>1. Alone'
    BY NoTaskApart, <1>3 DEF SubmitQueued, Alone, WakeInv
  <2>2. WakeInv'
    BY <1>3 DEF SubmitQueued, Alone, WakeInv
  <2>3. HeldInv'
    BY NoTaskApart, <1>3 DEF SubmitQueued, Alone, WakeInv, HeldInv
  <2>4. FollowInv'
    BY <1>3 DEF SubmitQueued, WakeInv, FollowInv
  <2> QED BY <2>1, <2>2, <2>3, <2>4 DEF Followed
<1> QED BY <1>1, <1>2, <1>3 DEF User

LEMMA EventFollowed ==
  ASSUME IInv, Followed, ToolEnd \/ TurnEnd \/ AgentEnd
  PROVE  Followed'
<1> USE DEF shell, app, tui, agent, Ready, At, NoCall, Bound, Starting, Crowded, Plain, IInv, Types,
            TypeFront, Fronts, TypeFlags, TypeRun, RunningInv, Busy, EndComes, Followed
<1>1. CASE ToolEnd
  <2>1. Alone'
    BY NoTaskApart, <1>1 DEF ToolEnd, Receive, Alone, WakeInv
  <2>2. WakeInv'
    BY <1>1 DEF ToolEnd, Receive, Alone, WakeInv
  <2>3. HeldInv'
    BY NoTaskApart, <1>1 DEF ToolEnd, Receive, Alone, WakeInv, HeldInv
  <2>4. FollowInv'
    BY <1>1 DEF ToolEnd, Receive, WakeInv, FollowInv
  <2> QED BY <2>1, <2>2, <2>3, <2>4 DEF Followed
<1>2. CASE TurnEnd
  <2>1. Alone'
    BY NoTaskApart, <1>2 DEF TurnEnd, Receive, Alone, WakeInv
  <2>2. WakeInv'
    BY <1>2 DEF TurnEnd, Receive, Alone, WakeInv
  <2>3. HeldInv'
    BY NoTaskApart, <1>2 DEF TurnEnd, Receive, Alone, WakeInv, HeldInv
  <2>4. FollowInv'
    BY <1>2 DEF TurnEnd, Receive, WakeInv, FollowInv
  <2> QED BY <2>1, <2>2, <2>3, <2>4 DEF Followed
<1>3. CASE AgentEnd
  <2>1. Alone'
    BY NoTaskApart, <1>3 DEF AgentEnd, Receive, BgRunning, Alone, WakeInv
  <2>2. WakeInv'
    BY <1>3 DEF AgentEnd, Receive, BgRunning, Alone, WakeInv
  <2>3. HeldInv'
    <3>1. SUFFICES ASSUME heldBack'
                   PROVE  front'.op = "event" /\ front'.at = "actions" /\ bgTasks' # {}
      BY DEF HeldInv
    <3>2. ~heldBack
      <4>1. EndComes
        BY <1>3, Received DEF AgentEnd
      <4> QED BY <4>1
    <3>3. BgRunning
      BY <1>3, <3>1, <3>2 DEF AgentEnd
    <3>4. front' = At("actions", "event", <<>>, "none", FALSE) /\ bgTasks' = bgTasks
      BY <1>3, <3>3 DEF AgentEnd
    <3> QED BY <3>3, <3>4 DEF BgRunning
  <2>4. FollowInv'
    <3>1. SUFFICES ASSUME Plain' PROVE FollowInv'
      BY DEF FollowInv
    <3>2. Plain /\ ~BgRunning
      BY <1>3, <3>1 DEF AgentEnd
    <3>3. runs \in polls /\ polls' = polls \ {runs} /\ front = Ready
      BY <1>3 DEF AgentEnd, Receive
    <3>4. ~heldBack /\ running /\ streaming /\ polls = {runs}
      BY <3>2, <3>3 DEF FollowInv
    <3>5. /\ running' = FALSE /\ front' = At("signal", "event", <<>>, "drain", FALSE)
          /\ UNCHANGED <<heldBack, streaming>>
      BY <1>3, <3>2 DEF AgentEnd
    <3>6. polls' = {}
      BY <3>3, <3>4
    <3> QED BY <3>4, <3>5, <3>6 DEF FollowInv
  <2> QED BY <2>1, <2>2, <2>3, <2>4 DEF Followed
<1> QED BY <1>1, <1>2, <1>3

LEMMA BackgroundFollowed ==
  ASSUME IInv, Followed, \/ \E t \in Tasks : BgEnd(t) \/ BgEvent(t)
                         \/ \E r \in Inputs : ChannelClosed(r)
  PROVE  Followed'
<1> USE DEF shell, app, tui, agent, Ready, At, NoCall, Bound, Starting, Crowded, Plain, IInv, Types,
            TypeFront, Fronts, TypeFlags, TypeRun, RunningInv, Busy, EndComes, Followed
<1>1. ASSUME NEW t \in Tasks, BgEnd(t)
      PROVE  Followed'
  <2>1. Alone'
    BY NoTaskApart, <1>1 DEF BgEnd, Alone, WakeInv
  <2>2. WakeInv'
    BY <1>1 DEF BgEnd, Alone, WakeInv
  <2>3. HeldInv'
    BY NoTaskApart, <1>1 DEF BgEnd, Alone, WakeInv, HeldInv
  <2>4. FollowInv'
    BY <1>1 DEF BgEnd, WakeInv, FollowInv
  <2> QED BY <2>1, <2>2, <2>3, <2>4 DEF Followed
<1>2. ASSUME NEW t \in Tasks, BgEvent(t)
      PROVE  Followed'
  <2>1. Alone'
    BY NoTaskApart, <1>2 DEF BgEvent, Alone, WakeInv
  <2>2. WakeInv'
    BY <1>2 DEF BgEvent, Alone, WakeInv
  <2>3. HeldInv'
    BY NoTaskApart, <1>2 DEF BgEvent, Alone, WakeInv, HeldInv
  <2>4. FollowInv'
    BY <1>2 DEF BgEvent, WakeInv, FollowInv
  <2> QED BY <2>1, <2>2, <2>3, <2>4 DEF Followed
<1>3. ASSUME NEW r \in Inputs, ChannelClosed(r)
      PROVE  Followed'
  <2>1. Alone'
    BY NoTaskApart, <1>3 DEF ChannelClosed, Closed, StopStreaming, Alone, WakeInv
  <2>2. WakeInv'
    BY <1>3 DEF ChannelClosed, Closed, StopStreaming, Alone, WakeInv
  <2>3. HeldInv'
    BY NoTaskApart, <1>3 DEF ChannelClosed, Closed, StopStreaming, Alone, WakeInv, HeldInv
  <2>4. FollowInv'
    BY <1>3 DEF ChannelClosed, Closed, StopStreaming, WakeInv, FollowInv
  <2> QED BY <2>1, <2>2, <2>3, <2>4 DEF Followed
<1> QED BY <1>1, <1>2, <1>3

LEMMA TasksFollowed ==
  ASSUME IInv, Followed, (\E t \in Tasks : StartBackground(t)) \/ InsertBackground \/ StopBackground
  PROVE  Followed'
<1> USE DEF shell, app, tui, agent, Ready, At, NoCall, Bound, Starting, Crowded, Plain, IInv, Types,
            TypeFront, Fronts, TypeFlags, TypeRun, RunningInv, Busy, EndComes, Followed
<1>1. ASSUME NEW t \in Tasks, StartBackground(t)
      PROVE  Followed'
  <2>1. Alone'
    BY NoTaskApart, <1>1 DEF StartBackground, Alone, WakeInv
  <2>2. WakeInv'
    BY <1>1 DEF StartBackground, Alone, WakeInv
  <2>3. HeldInv'
    BY NoTaskApart, <1>1 DEF StartBackground, Alone, WakeInv, HeldInv
  <2>4. FollowInv'
    BY <1>1 DEF StartBackground, WakeInv, FollowInv
  <2> QED BY <2>1, <2>2, <2>3, <2>4 DEF Followed
<1>2. CASE InsertBackground
  <2>1. Alone'
    <3>1. SUFFICES ASSUME ~Crowded PROVE Alone'
      BY <1>2 DEF InsertBackground, Alone
    <3>2. /\ bgTasks' = bgTasks \union {ext.task} /\ ext' = NoCall /\ ext.at = "insert"
          /\ UNCHANGED <<front, bgSel, bgPolls, odd>>
      BY <1>2 DEF InsertBackground
    <3>3. bgTasks = {} /\ bgSel = NoTask /\ ext.task \in Tasks
      BY <3>1, <3>2 DEF Alone, Stages
    <3>4. bgTasks' = {ext.task} /\ bgSel' = NoTask /\ ext'.at = "none"
      BY <3>2, <3>3
    <3> QED BY <3>1, <3>2, <3>3, <3>4 DEF Alone
  <2>2. WakeInv'
    BY <1>2 DEF InsertBackground, Alone, WakeInv
  <2>3. HeldInv'
    BY NoTaskApart, <1>2 DEF InsertBackground, Alone, WakeInv, HeldInv
  <2>4. FollowInv'
    BY <1>2 DEF InsertBackground, WakeInv, FollowInv
  <2> QED BY <2>1, <2>2, <2>3, <2>4 DEF Followed
<1>3. CASE StopBackground
  <2>1. Alone'
    BY NoTaskApart, <1>3 DEF StopBackground, Alone, WakeInv
  <2>2. WakeInv'
    BY <1>3 DEF StopBackground, Alone, WakeInv
  <2>3. HeldInv'
    <3>1. /\ bgTasks # {}
          /\ odd' = IF bgTasks \subseteq {bgSel} THEN odd ELSE odd \union {"unfollowed"}
          /\ UNCHANGED <<front, bgSel, bgPolls, heldBack>>
      BY <1>3 DEF StopBackground
    <3>2. SUFFICES ASSUME heldBack, odd' \intersect {"crowded", "unfollowed"} = {}, bgPolls = {},
                          front.op = "event"
                   PROVE  FALSE
      BY <3>1 DEF HeldInv
    <3>3. odd' = odd /\ bgTasks \subseteq {bgSel}
      BY <3>1, <3>2
    <3>4. bgSel \in bgTasks /\ bgSel # NoTask
      BY <3>1, <3>3, NoTaskApart
    <3> QED BY <3>2, <3>3, <3>4 DEF Alone
  <2>4. FollowInv'
    BY <1>3 DEF StopBackground, WakeInv, FollowInv
  <2> QED BY <2>1, <2>2, <2>3, <2>4 DEF Followed
<1> QED BY <1>1, <1>2, <1>3

LEMMA NextFollowed == IInv /\ Followed /\ [Next]_vars => Followed'
  BY AsideFollowed, AsideSteps, FrontFollowed, UserFollowed, EventFollowed, BackgroundFollowed,
     TasksFollowed DEF Next, Extension

LEMMA FollowedAlways == Spec => []Followed
  BY Invariant, InitFollowed, NextFollowed, PTL DEF Spec

\* No wake-up is lost, the safety behind WaiterWoken: who waits for the agent to be idle
\* waits for an app that is not, and whenever the front end rests it reads the latest
\* run, whose end or closed channel sets the signal, or a background task, whose end
\* takes up the run it does not read yet.  Only two background tasks at once can leave
\* a run that nobody reads.
WakeUpComes ==
    waiting =>
      /\ ~idle
      /\ front = Ready => runs \in polls \/ bgPolls # {} \/ "crowded" \in odd
THEOREM NoWakeUpLost == Spec => []WakeUpComes
<1>1. Followed => WakeUpComes
  BY DEF Followed, WakeInv, WakeUpComes, Crowded, Starting, Ready, At
<1> QED BY <1>1, FollowedAlways, PTL

\* The safety behind HeldBackCompletes: whenever the front end rests while the end of a
\* run is held back, it reads the task it has selected, and no other task is left, so
\* that the end of this one completes the run.
HeldBackInHand ==
    heldBack /\ front = Ready /\ odd \intersect {"crowded", "unfollowed"} = {} =>
      bgSel \in bgPolls /\ bgTasks \subseteq {bgSel}
THEOREM HeldBackIsInHand == Spec => []HeldBackInHand
<1>1. IInv /\ Followed => HeldBackInHand
  BY ShellAssumption DEF Followed, HeldInv, Alone, HeldBackInHand, Crowded, Ready, At, IInv,
         Types, TypeFlags
<1> QED BY <1>1, Invariant, FollowedAlways, PTL

\* The safety behind QueueServed: as long as no end of a run was held back or dropped, a
\* front end that rests during a run displays it, reads its events and those of no other
\* run, and the app is not idle.
RunInHand ==
    running /\ front = Ready /\ odd \intersect {"held", "missed"} = {} =>
      evCh = runs /\ polls = {runs} /\ streaming /\ ~idle
THEOREM RunIsInHand == Spec => []RunInHand
<1>1. Followed => RunInHand
  BY DEF Followed, FollowInv, RunInHand, Plain, Ready, At
<1> QED BY <1>1, FollowedAlways, PTL

=============================================================================
