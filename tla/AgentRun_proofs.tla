--------------------------- MODULE AgentRun_proofs ---------------------------
(***************************************************************************)
(* Proofs about AgentRun, for any limits and any number of runs, turns,    *)
(* calls, steering messages, follow-ups and compactions.                   *)
(***************************************************************************)
EXTENDS AgentRun, SequenceTheorems, FiniteSetTheorems, TLAPS

\* The types, by what they are about.
TypeHistory == messages \in Seq(Message) /\ log \subseteq Message
TypeQueues == /\ steerQ \in Seq(Message) /\ followQ \in Seq(Message)
              /\ pending \in Seq(Message) /\ fromTools \in Seq(Message)
              /\ grabs \in Seq(Seq(Message))
TypeRun == /\ turnContext \in 0..MaxRuns /\ pc \in RunSteps /\ ctxDone \in BOOLEAN
           /\ turnCount \in Nat /\ attempt \in 0..(MaxRetries - 1)
           /\ hadCalls \in 0..MaxCalls /\ nAsst \in Nat
           /\ sentS \in 0..MaxSteer /\ sentF \in 0..MaxFollow /\ runs \in 0..MaxRuns
TypeCompact == /\ snapshot \in Seq(Message) /\ job \in Seq(Message)
               /\ compactor \in {"off", "working", "exiting"} /\ stale \in BOOLEAN
               /\ nSum \in Nat /\ gist \in Seq(SUBSET Message)
Types == TypeHistory /\ TypeQueues /\ TypeRun /\ TypeCompact

\* Where messages wait that are no longer queued and not yet in the history.
Places ==
    /\ pending # <<>> => pc = "turn"
    /\ fromTools # <<>> => pc \in {"cap", "snapshot", "launch", "next"}
    /\ grabs # <<>> => pc = "tools"

\* There is a compaction only while there is a run; it has a job while it works.
Compacting ==
    /\ pc = "idle" => compactor = "off"
    /\ compactor # "working" => job = <<>>

\* Every batch may leave its workers behind, and is open once.
LateInv == late \in Nat /\
    \E b \in 0..MaxAsst :
        /\ late <= MaxCalls * b /\ b <= nAsst
        /\ pc = "tools" => b < nAsst /\ nAsst <= MaxAsst

\* What a summary stands for is known.
Known(s) == \A m \in Elements(s) : m.kind = "summary" => m.n \in 1..nSum
Gists == Len(gist) = nSum /\ Known(messages) /\ Known(snapshot) /\ Known(job)

\* Numbers are given out in order.
Numbered(m) ==
    /\ m.kind = "prompt" => m.n <= runs /\ (pc = "prompt" => m.n < runs)
    /\ m.kind = "steer" => m.n <= sentS
    /\ m.kind = "follow" => m.n <= sentF
    /\ m.kind \in {"asst", "failed"} => m.n <= nAsst
    /\ m.kind = "tool" => m.n <= nAsst /\ (pc = "tools" => m.n < nAsst)
Numbers == \A m \in Elements(messages) : Numbered(m)

Distinct(s) == \A i, j \in DOMAIN s : i # j => s[i] # s[j]
Sent == {"steer", "follow", "prompt"}
Ordered(s) == \A i, j \in DOMAIN s :
                 i < j /\ s[i].kind = s[j].kind /\ s[i].kind \in Sent => s[i].n < s[j].n
History == Distinct(messages) /\ Ordered(messages)

\* Queues hold messages of one kind in order; those of that kind elsewhere are older.
Line(q, kind, n) ==
    /\ \A m \in Elements(q) : m.kind = kind /\ m.n <= n
    /\ \A i, j \in DOMAIN q : i < j => q[i].n < q[j].n
Older(s, q, kind) == \A x \in Elements(s), y \in Elements(q) : x.kind = kind => x.n < y.n

Follows == Line(followQ, "follow", sentF) /\ Older(messages, followQ, "follow")

SteerLine(q) == Line(q, "steer", sentS)
Steers ==
    /\ SteerLine(steerQ) /\ SteerLine(pending) /\ SteerLine(fromTools)
    /\ \A b \in DOMAIN grabs : SteerLine(grabs[b])
    /\ Older(messages, steerQ, "steer") /\ Older(messages, pending, "steer")
    /\ Older(messages, fromTools, "steer")
    /\ \A b \in DOMAIN grabs : Older(messages, grabs[b], "steer")
    /\ Older(pending, steerQ, "steer") /\ Older(fromTools, steerQ, "steer")
    /\ \A b \in DOMAIN grabs : Older(grabs[b], steerQ, "steer")
    /\ \A b, c \in DOMAIN grabs : b < c => Older(grabs[b], grabs[c], "steer")

\* A result is behind its message, at the place of its call.
BehindAt(s, i) == s[i].kind = "tool" =>
                     /\ s[i].call \in 1..(i - 1)
                     /\ s[i - s[i].call].kind = "asst" /\ s[i - s[i].call].n = s[i].n
                     /\ s[i].call <= s[i - s[i].call].call
Behind(s) == \A i \in DOMAIN s : BehindAt(s, i)
\* The message at i has all its results.
Answered(s, i) == s[i].kind = "asst" =>
                     /\ i + s[i].call <= Len(s)
                     /\ \A k \in 1..s[i].call : s[i + k] = Msg("tool", s[i].n, k)
\* No message of a job has results beyond it, and the history begins with the job.
JobInv == compactor = "working" =>
             /\ Len(job) <= Len(messages)
             /\ \A i \in 1..Len(job) :
                   messages[i] = job[i] /\ (job[i].kind = "asst" => i + job[i].call <= Len(job))
Pairs ==
    MaxMessages = 0 /\ ~stale =>
        /\ Behind(messages) /\ JobInv
        /\ \A i \in DOMAIN messages : (pc = "tools" /\ i = Len(messages)) \/ Answered(messages, i)
        /\ pc = "tools" => /\ Len(messages) > 0 /\ hadCalls > 0
                           /\ messages[Len(messages)] = Msg("asst", nAsst, hadCalls)

IInv == /\ Types /\ Places /\ Compacting /\ LateInv /\ Gists /\ Numbers /\ History
        /\ Follows /\ Steers /\ Pairs /\ HistoryPreserved

-----------------------------------------------------------------------------
(* Sequences of messages.                                                   *)

LEMMA SeqParts ==
  ASSUME NEW s \in Seq(Message)
  PROVE  /\ Len(s) \in Nat /\ DOMAIN s = 1..Len(s)
         /\ \A i \in DOMAIN s : s[i] \in Message /\ s[i] \in Elements(s)
         /\ Elements(s) \subseteq Message
         /\ \A m \in Elements(s) : \E i \in DOMAIN s : m = s[i]
BY LenProperties, ElementOfSeq DEF Elements

LEMMA NoMessages ==
  /\ <<>> \in Seq(Message) /\ Len(<<>>) = 0 /\ DOMAIN <<>> = {} /\ Elements(<<>>) = {}
BY EmptySeq DEF Elements

LEMMA OneMessage ==
  ASSUME NEW x \in Message
  PROVE  /\ <<x>> \in Seq(Message) /\ Len(<<x>>) = 1 /\ DOMAIN <<x>> = 1..1 /\ <<x>>[1] = x
         /\ Elements(<<x>>) = {x}
<1>1. <<x>> \in Seq(Message) /\ Len(<<x>>) = 1 /\ <<x>>[1] = x
  OBVIOUS
<1>2. DOMAIN <<x>> = 1..1
  BY <1>1, LenProperties
<1> QED BY <1>1, <1>2 DEF Elements

LEMMA Joined ==
  ASSUME NEW s \in Seq(Message), NEW t \in Seq(Message)
  PROVE  /\ s \o t \in Seq(Message) /\ Len(s \o t) = Len(s) + Len(t)
         /\ \A i \in DOMAIN s : i \in DOMAIN (s \o t) /\ (s \o t)[i] = s[i]
         /\ \A j \in DOMAIN t : Len(s) + j \in DOMAIN (s \o t) /\ (s \o t)[Len(s) + j] = t[j]
         /\ \A i \in DOMAIN (s \o t) : i \in DOMAIN s \/ (i - Len(s) \in DOMAIN t /\ i > Len(s))
         /\ DOMAIN (s \o t) = 1..(Len(s) + Len(t))
<1>1. /\ Len(s) \in Nat /\ Len(t) \in Nat /\ DOMAIN s = 1..Len(s) /\ DOMAIN t = 1..Len(t)
  BY LenProperties
<1>2. /\ s \o t \in Seq(Message) /\ Len(s \o t) = Len(s) + Len(t)
      /\ \A i \in 1..(Len(s) + Len(t)) :
            (s \o t)[i] = IF i <= Len(s) THEN s[i] ELSE t[i - Len(s)]
  BY ConcatProperties
<1>3. DOMAIN (s \o t) = 1..(Len(s) + Len(t))
  BY <1>2, LenProperties
<1>4. \A n, m \in Nat :
         /\ \A i \in 1..n : i \in 1..(n + m) /\ i <= n
         /\ \A j \in 1..m : n + j \in 1..(n + m) /\ ~(n + j <= n) /\ n + j - n = j
         /\ \A i \in 1..(n + m) : i \in 1..n \/ (i - n \in 1..m /\ i > n)
  OBVIOUS
<1> QED BY <1>1, <1>2, <1>3, <1>4

LEMMA JoinedElements ==
  ASSUME NEW s \in Seq(Message), NEW t \in Seq(Message)
  PROVE  Elements(s \o t) = Elements(s) \union Elements(t)
<1>1. /\ \A i \in DOMAIN s : i \in DOMAIN (s \o t) /\ (s \o t)[i] = s[i]
      /\ \A j \in DOMAIN t : Len(s) + j \in DOMAIN (s \o t) /\ (s \o t)[Len(s) + j] = t[j]
      /\ \A i \in DOMAIN (s \o t) : i \in DOMAIN s \/ (i - Len(s) \in DOMAIN t /\ i > Len(s))
      /\ Len(s) \in Nat /\ DOMAIN (s \o t) = 1..(Len(s) + Len(t))
  BY Joined, LenProperties
<1>2. \A i \in DOMAIN (s \o t) : i \in Int
  BY <1>1, LenProperties
<1>3. \A i \in Int : Len(s) + (i - Len(s)) = i
  BY <1>1
<1>4. \A i \in DOMAIN (s \o t) :
         (s \o t)[i] = s[i] \/ (i - Len(s) \in DOMAIN t /\ (s \o t)[i] = t[i - Len(s)])
  BY <1>1, <1>2, <1>3
<1>5. \A i \in DOMAIN (s \o t) :
         i \in DOMAIN s \/ (i - Len(s) \in DOMAIN t /\ (s \o t)[i] = t[i - Len(s)])
  BY <1>1, <1>2, <1>3
<1>6. ASSUME NEW m \in Elements(s \o t)
      PROVE  m \in Elements(s) \union Elements(t)
  <2>1. PICK i \in DOMAIN (s \o t) : m = (s \o t)[i]
    BY DEF Elements
  <2> QED BY <1>1, <1>5, <2>1 DEF Elements
<1>7. ASSUME NEW m \in Elements(s) \union Elements(t)
      PROVE  m \in Elements(s \o t)
  <2>1. CASE m \in Elements(s)
    BY <1>1, <2>1 DEF Elements
  <2>2. CASE m \in Elements(t)
    BY <1>1, <2>2 DEF Elements
  <2> QED BY <2>1, <2>2
<1> QED BY <1>6, <1>7

LEMMA AppendedElements ==
  ASSUME NEW s \in Seq(Message), NEW x \in Message
  PROVE  /\ Append(s, x) \in Seq(Message) /\ Elements(Append(s, x)) = Elements(s) \union {x}
         /\ Len(s) \in Nat /\ DOMAIN s = 1..Len(s) /\ DOMAIN Append(s, x) = 1..(Len(s) + 1)
         /\ \A i \in DOMAIN s : Append(s, x)[i] = s[i]
         /\ Append(s, x)[Len(s) + 1] = x
<1>1. /\ Append(s, x) \in Seq(Message) /\ Len(Append(s, x)) = Len(s) + 1 /\ Len(s) \in Nat
      /\ DOMAIN s = 1..Len(s) /\ \A i \in 1..Len(s) : Append(s, x)[i] = s[i]
      /\ Append(s, x)[Len(s) + 1] = x
  BY AppendProperties, LenProperties
<1>2. DOMAIN Append(s, x) = 1..(Len(s) + 1)
  BY <1>1, LenProperties
<1>3. \A n \in Nat : /\ \A i \in 1..(n + 1) : i \in 1..n \/ i = n + 1
                     /\ n + 1 \in 1..(n + 1) /\ \A i \in 1..n : i \in 1..(n + 1)
  OBVIOUS
<1> QED BY <1>1, <1>2, <1>3 DEF Elements

LEMMA Suffixed ==
  ASSUME NEW s \in Seq(Message), NEW k \in 0..Len(s)
  PROVE  /\ Suffix(s, k) \in Seq(Message) /\ Len(Suffix(s, k)) = Len(s) - k
         /\ DOMAIN Suffix(s, k) = 1..(Len(s) - k)
         /\ \A i \in 1..(Len(s) - k) : Suffix(s, k)[i] = s[k + i] /\ k + i \in DOMAIN s /\ k + i > k
         /\ Elements(Suffix(s, k)) \subseteq Elements(s)
<1>1. Len(s) \in Nat /\ DOMAIN s = 1..Len(s) /\ \A i \in 1..Len(s) : s[i] \in Message
  BY LenProperties, ElementOfSeq
<1>2. k + 1 \in Nat /\ k + 1 >= 1 /\ \A i \in (k + 1)..Len(s) : s[i] \in Message
  BY <1>1
<1> DEFINE t == SubSeq(s, k + 1, Len(s))
<1>3. /\ t \in Seq(Message)
      /\ Len(t) = IF k + 1 <= Len(s) THEN Len(s) - (k + 1) + 1 ELSE 0
      /\ \A i \in 1..(Len(s) - (k + 1) + 1) : t[i] = s[(k + 1) + i - 1]
  BY <1>1, <1>2, SubSeqProperties
<1>4. /\ (IF k + 1 <= Len(s) THEN Len(s) - (k + 1) + 1 ELSE 0) = Len(s) - k
      /\ Len(s) - (k + 1) + 1 = Len(s) - k /\ \A i \in Int : (k + 1) + i - 1 = k + i
  <2>1. \A n \in Nat : \A m \in 0..n :
           /\ (IF m + 1 <= n THEN n - (m + 1) + 1 ELSE 0) = n - m
           /\ n - (m + 1) + 1 = n - m /\ \A i \in Int : (m + 1) + i - 1 = m + i
    OBVIOUS
  <2> QED BY <1>1, <2>1
<1>5. \A i \in 1..(Len(s) - k) : k + i \in 1..Len(s) /\ k + i > k
  BY <1>1
<1> HIDE DEF t
<1>6. Len(t) = Len(s) - k /\ \A i \in 1..(Len(s) - k) : t[i] = s[k + i]
  <2>1. Len(t) = Len(s) - k
    BY <1>3, <1>4
  <2>2. ASSUME NEW i \in 1..(Len(s) - k)
        PROVE  t[i] = s[k + i]
    <3>1. i \in 1..(Len(s) - (k + 1) + 1) /\ (k + 1) + i - 1 = k + i
      <4>1. i \in Int
        OBVIOUS
      <4> QED BY <1>4, <4>1
    <3>2. t[i] = s[(k + 1) + i - 1]
      BY <1>3, <3>1
    <3> QED BY <3>1, <3>2
  <2> QED BY <2>1, <2>2
<1>7. DOMAIN t = 1..(Len(s) - k)
  BY <1>3, <1>6, LenProperties
<1>8. Elements(t) \subseteq Elements(s)
  BY <1>1, <1>5, <1>6, <1>7 DEF Elements
<1> QED BY <1>1, <1>3, <1>5, <1>6, <1>7, <1>8 DEF t, Suffix

\* One message before the end of a history.
Front(x, s, k) == <<x>> \o Suffix(s, k)

LEMMA Fronted ==
  ASSUME NEW s \in Seq(Message), NEW k \in 0..Len(s), NEW x \in Message
  PROVE  /\ Front(x, s, k) \in Seq(Message) /\ Len(Front(x, s, k)) = Len(s) - k + 1
         /\ DOMAIN Front(x, s, k) = 1..(Len(s) - k + 1) /\ Front(x, s, k)[1] = x
         /\ \A i \in DOMAIN Front(x, s, k) : i # 1 =>
               k + i - 1 \in DOMAIN s /\ k + i - 1 > k /\ Front(x, s, k)[i] = s[k + i - 1]
         /\ \A j \in DOMAIN s : j > k =>
               j - k + 1 \in DOMAIN Front(x, s, k) /\ Front(x, s, k)[j - k + 1] = s[j]
         /\ Elements(Front(x, s, k)) \subseteq {x} \union Elements(s)
<1> DEFINE u == Suffix(s, k)
           t == <<x>> \o u
           n == Len(s) - k
<1>1. /\ u \in Seq(Message) /\ Len(u) = n /\ DOMAIN u = 1..n
      /\ \A i \in 1..n : u[i] = s[k + i] /\ k + i \in DOMAIN s /\ k + i > k
      /\ Elements(u) \subseteq Elements(s) /\ DOMAIN s = 1..Len(s) /\ Len(s) \in Nat
      /\ n \in Nat
  <2>1. Len(s) \in Nat /\ DOMAIN s = 1..Len(s)
    BY LenProperties
  <2>2. n \in Nat
    BY <2>1
  <2> QED BY <2>1, <2>2, Suffixed
<1> HIDE DEF u
<1>2. /\ t \in Seq(Message) /\ Len(t) = 1 + Len(u)
      /\ \A i \in 1..1 : t[i] = <<x>>[i]
      /\ \A j \in DOMAIN u : t[1 + j] = u[j]
      /\ DOMAIN t = 1..(1 + Len(u))
      /\ Elements(t) = {x} \union Elements(u)
  <2> DEFINE w == <<x>>
  <2>1. /\ w \in Seq(Message) /\ Len(w) = 1 /\ DOMAIN w = 1..1 /\ w[1] = x
        /\ Elements(w) = {x}
    BY OneMessage
  <2> HIDE DEF w
  <2>2. /\ w \o u \in Seq(Message) /\ Len(w \o u) = 1 + Len(u)
        /\ \A i \in 1..1 : (w \o u)[i] = w[i]
        /\ \A j \in DOMAIN u : (w \o u)[1 + j] = u[j]
        /\ DOMAIN (w \o u) = 1..(1 + Len(u))
    <3>1. /\ \A i \in DOMAIN w : (w \o u)[i] = w[i]
          /\ \A j \in DOMAIN u : (w \o u)[Len(w) + j] = u[j]
          /\ w \o u \in Seq(Message) /\ Len(w \o u) = Len(w) + Len(u)
          /\ DOMAIN (w \o u) = 1..(Len(w) + Len(u))
      BY <1>1, <2>1, Joined
    <3> QED BY <2>1, <3>1
  <2>3. Elements(w \o u) = {x} \union Elements(u)
    BY <1>1, <2>1, JoinedElements
  <2> QED BY <2>2, <2>3 DEF w
<1>3. t[1] = x
  <2>1. 1 \in 1..1
    OBVIOUS
  <2> QED BY <1>2, <2>1, OneMessage
<1> HIDE DEF t
<1>4. ASSUME NEW i \in DOMAIN t, i # 1
      PROVE  k + i - 1 \in DOMAIN s /\ k + i - 1 > k /\ t[i] = s[k + i - 1]
  <2>1. i - 1 \in 1..n /\ 1 + (i - 1) = i /\ k + (i - 1) = k + i - 1
    BY <1>1, <1>2, <1>4
  <2>2. t[1 + (i - 1)] = u[i - 1]
    BY <1>1, <1>2, <2>1
  <2> QED BY <1>1, <2>1, <2>2
<1>5. ASSUME NEW j \in DOMAIN s, j > k
      PROVE  j - k + 1 \in DOMAIN t /\ t[j - k + 1] = s[j]
  <2>1. j - k \in 1..n /\ 1 + (j - k) = j - k + 1 /\ k + (j - k) = j
    BY <1>1, <1>5
  <2>2. j - k + 1 \in 1..(1 + n)
    BY <1>1, <2>1
  <2>3. t[1 + (j - k)] = u[j - k]
    BY <1>1, <1>2, <2>1
  <2> QED BY <1>1, <1>2, <2>1, <2>2, <2>3
<1>6. Len(t) = Len(s) - k + 1 /\ DOMAIN t = 1..(Len(s) - k + 1)
  <2>1. 1 + n = Len(s) - k + 1
    BY <1>1
  <2> HIDE DEF n
  <2> QED BY <1>1, <1>2, <2>1
<1> QED BY <1>1, <1>2, <1>3, <1>4, <1>5, <1>6 DEF t, u, Front

\* The same of a sequence that has a name.
LEMMA FrontedAs ==
  ASSUME NEW s \in Seq(Message), NEW k \in 0..Len(s), NEW x \in Message,
         NEW t, t = Front(x, s, k)
  PROVE  Len(t) = Len(s) - k + 1 /\ t[1] = x /\ t \in Seq(Message)
  BY Fronted

LEMMA FrontedFrom ==
  ASSUME NEW s \in Seq(Message), NEW k \in 0..Len(s), NEW x \in Message,
         NEW t, t = Front(x, s, k), NEW i \in DOMAIN t, i # 1
  PROVE  k + i - 1 \in DOMAIN s /\ k + i - 1 > k
  BY Fronted

LEMMA FrontedKeeps ==
  ASSUME NEW s \in Seq(Message), NEW k \in 0..Len(s), NEW x \in Message,
         NEW t, t = Front(x, s, k), NEW j \in DOMAIN s, j > k
  PROVE  j - k + 1 \in DOMAIN t /\ t[j - k + 1] = s[j]
  BY Fronted

\* It begins with that message and ends as the history does.
LEMMA FrontedEnds ==
  ASSUME NEW s \in Seq(Message), NEW k \in 0..Len(s), k < Len(s), NEW x \in Message
  PROVE  /\ Front(x, s, k) \in Seq(Message) /\ Len(Front(x, s, k)) > 0
         /\ Front(x, s, k)[1] = x /\ Front(x, s, k)[Len(Front(x, s, k))] = s[Len(s)]
<1>1. Len(s) \in Nat /\ DOMAIN s = 1..Len(s)
  BY SeqParts
<1>2. Len(s) \in DOMAIN s /\ Len(s) - k + 1 > 0
  BY <1>1
<1>3. /\ Front(x, s, k) \in Seq(Message) /\ Len(Front(x, s, k)) = Len(s) - k + 1
      /\ Front(x, s, k)[1] = x
      /\ \A j \in DOMAIN s : j > k => Front(x, s, k)[j - k + 1] = s[j]
  BY Fronted
<1> QED BY <1>2, <1>3

LEMMA DistinctJoined ==
  ASSUME NEW s \in Seq(Message), NEW t \in Seq(Message), Distinct(s), Distinct(t),
         \A m \in Elements(t) : m \notin Elements(s)
  PROVE  Distinct(s \o t)
<1>1. /\ \A i \in DOMAIN s : (s \o t)[i] = s[i] /\ s[i] \in Elements(s)
      /\ \A j \in DOMAIN t : (s \o t)[Len(s) + j] = t[j] /\ t[j] \in Elements(t)
      /\ \A i \in DOMAIN (s \o t) : i \in DOMAIN s \/ (i - Len(s) \in DOMAIN t /\ i > Len(s))
      /\ Len(s) \in Nat /\ DOMAIN (s \o t) = 1..(Len(s) + Len(t)) /\ DOMAIN s = 1..Len(s)
      /\ Len(t) \in Nat
  BY Joined, SeqParts
<1>2. \A i \in DOMAIN (s \o t) : i \in Int /\ Len(s) + (i - Len(s)) = i
  BY <1>1
<1> SUFFICES ASSUME NEW i \in DOMAIN (s \o t), NEW j \in DOMAIN (s \o t), i # j
             PROVE  (s \o t)[i] # (s \o t)[j]
  BY DEF Distinct
<1>3. CASE i \in DOMAIN s /\ j \in DOMAIN s
  BY <1>1, <1>3 DEF Distinct
<1>4. CASE i \in DOMAIN s /\ j - Len(s) \in DOMAIN t
  <2>1. (s \o t)[j] = t[j - Len(s)] /\ (s \o t)[i] = s[i]
    BY <1>1, <1>2, <1>4
  <2> QED BY <1>1, <1>4, <2>1
<1>5. CASE i - Len(s) \in DOMAIN t /\ j \in DOMAIN s
  <2>1. (s \o t)[i] = t[i - Len(s)] /\ (s \o t)[j] = s[j]
    BY <1>1, <1>2, <1>5
  <2> QED BY <1>1, <1>5, <2>1
<1>6. CASE i - Len(s) \in DOMAIN t /\ j - Len(s) \in DOMAIN t
  <2>1. (s \o t)[i] = t[i - Len(s)] /\ (s \o t)[j] = t[j - Len(s)]
    BY <1>1, <1>2, <1>6
  <2>2. i - Len(s) # j - Len(s)
    BY <1>1, <1>2
  <2> QED BY <1>6, <2>1, <2>2 DEF Distinct
<1> QED BY <1>1, <1>3, <1>4, <1>5, <1>6

LEMMA OrderedJoined ==
  ASSUME NEW s \in Seq(Message), NEW t \in Seq(Message), Ordered(s), Ordered(t),
         \A x \in Elements(s), y \in Elements(t) : x.kind = y.kind /\ x.kind \in Sent => x.n < y.n
  PROVE  Ordered(s \o t)
<1>1. /\ \A i \in DOMAIN s : (s \o t)[i] = s[i] /\ s[i] \in Elements(s)
      /\ \A j \in DOMAIN t : (s \o t)[Len(s) + j] = t[j] /\ t[j] \in Elements(t)
      /\ \A i \in DOMAIN (s \o t) : i \in DOMAIN s \/ (i - Len(s) \in DOMAIN t /\ i > Len(s))
      /\ Len(s) \in Nat /\ DOMAIN (s \o t) = 1..(Len(s) + Len(t)) /\ DOMAIN s = 1..Len(s)
      /\ Len(t) \in Nat
  BY Joined, SeqParts
<1>2. \A i \in DOMAIN (s \o t) : i \in Int /\ Len(s) + (i - Len(s)) = i
  BY <1>1
<1> DEFINE u == s \o t
<1> SUFFICES ASSUME NEW i \in DOMAIN u, NEW j \in DOMAIN u, i < j,
                    u[i].kind = u[j].kind, u[i].kind \in Sent
             PROVE  u[i].n < u[j].n
  BY DEF Ordered
<1>3. CASE i \in DOMAIN s /\ j \in DOMAIN s
  <2>1. u[i] = s[i] /\ u[j] = s[j]
    BY <1>1, <1>3
  <2> QED BY <1>3, <2>1 DEF Ordered
<1>4. CASE i \in DOMAIN s /\ j - Len(s) \in DOMAIN t
  <2>1. u[j] = t[j - Len(s)] /\ u[i] = s[i]
    BY <1>1, <1>2, <1>4
  <2> QED BY <1>1, <1>4, <2>1
<1>5. CASE i - Len(s) \in DOMAIN t /\ j - Len(s) \in DOMAIN t
  <2>1. u[i] = t[i - Len(s)] /\ u[j] = t[j - Len(s)]
    BY <1>1, <1>2, <1>5
  <2>2. i - Len(s) < j - Len(s)
    BY <1>1, <1>2
  <2> QED BY <1>5, <2>1, <2>2 DEF Ordered
<1>6. ~(i > Len(s) /\ j \in DOMAIN s)
  BY <1>1, <1>2
<1> QED BY <1>1, <1>3, <1>4, <1>5, <1>6

LEMMA DistinctFronted ==
  ASSUME NEW s \in Seq(Message), NEW k \in 0..Len(s), NEW x \in Message, Distinct(s),
         \A j \in DOMAIN s : j > k => s[j] # x
  PROVE  Distinct(Front(x, s, k))
<1> DEFINE t == Front(x, s, k)
<1>0. t = Front(x, s, k)
  OBVIOUS
<1> HIDE DEF t
<1>1. /\ t[1] = x /\ k \in Int /\ DOMAIN t \subseteq Int
      /\ \A i \in DOMAIN t : i # 1 => /\ k + i - 1 \in DOMAIN s /\ k + i - 1 > k
                                      /\ t[i] = s[k + i - 1]
  <2>1. /\ t \in Seq(Message) /\ t[1] = x
        /\ \A i \in DOMAIN t : i # 1 => /\ k + i - 1 \in DOMAIN s /\ k + i - 1 > k
                                        /\ t[i] = s[k + i - 1]
    BY <1>0, Fronted
  <2>2. k \in Int /\ DOMAIN t = 1..Len(t)
    BY <2>1, SeqParts
  <2> QED BY <2>1, <2>2
<1>2. ASSUME NEW i \in DOMAIN t, NEW j \in DOMAIN t, i # 1, j # 1, i # j
      PROVE  t[i] # t[j]
  <2>1. k + i - 1 # k + j - 1
    BY <1>1, <1>2
  <2> QED BY <1>1, <1>2, <2>1 DEF Distinct
<1>3. \A i \in DOMAIN t : i # 1 => t[i] # t[1]
  BY <1>1
<1>4. Distinct(t)
  BY <1>2, <1>3 DEF Distinct
<1> QED BY <1>4 DEF t

LEMMA OrderedFronted ==
  ASSUME NEW s \in Seq(Message), NEW k \in 0..Len(s), NEW x \in Message, Ordered(s),
         \A j \in DOMAIN s : j > k /\ s[j].kind = x.kind /\ x.kind \in Sent => x.n < s[j].n
  PROVE  Ordered(Front(x, s, k))
<1> DEFINE t == Front(x, s, k)
<1>0. t = Front(x, s, k)
  OBVIOUS
<1> HIDE DEF t
<1>1. /\ t[1] = x /\ k \in Int /\ DOMAIN t \subseteq Int
      /\ \A i \in DOMAIN t : i # 1 => /\ k + i - 1 \in DOMAIN s /\ k + i - 1 > k
                                      /\ t[i] = s[k + i - 1]
      /\ \A i \in DOMAIN t : i >= 1
  <2>1. /\ t \in Seq(Message) /\ t[1] = x
        /\ \A i \in DOMAIN t : i # 1 => /\ k + i - 1 \in DOMAIN s /\ k + i - 1 > k
                                        /\ t[i] = s[k + i - 1]
    BY <1>0, Fronted
  <2>2. k \in Int /\ DOMAIN t = 1..Len(t)
    BY <2>1, SeqParts
  <2> QED BY <2>1, <2>2
<1>2. SUFFICES ASSUME NEW i \in DOMAIN t, NEW j \in DOMAIN t, i < j,
                      t[i].kind = t[j].kind, t[i].kind \in Sent
               PROVE  t[i].n < t[j].n
  BY DEF Ordered, t
<1>3. j # 1
  BY <1>1, <1>2
<1>4. CASE i = 1
  BY <1>1, <1>2, <1>3, <1>4
<1>5. CASE i # 1
  <2>1. k + i - 1 < k + j - 1
    BY <1>1, <1>2
  <2> QED BY <1>1, <1>2, <1>3, <1>5, <2>1 DEF Ordered
<1> QED BY <1>4, <1>5

-----------------------------------------------------------------------------
(* Types.                                                                   *)

LEMMA Given ==
  /\ MaxTurns \in Nat /\ MaxMessages \in Nat /\ MaxCalls \in Nat /\ MaxAsst \in Nat
  /\ MaxSteer \in Nat /\ MaxFollow \in Nat /\ MaxRuns \in Nat
  /\ MaxRetries \in Nat \ {0} /\ CompactMin \in Nat \ {0} /\ CapFloor \in Nat \ {0, 1}
BY AgentRunAssumption

LEMMA Typed ==
  ASSUME NEW kind \in Kinds, NEW n \in Nat, NEW call \in Nat
  PROVE  /\ Msg(kind, n, call) \in Message
         /\ Msg(kind, n, call).kind = kind /\ Msg(kind, n, call).n = n
         /\ Msg(kind, n, call).call = call
BY DEF Msg, Message

LEMMA TypeParts == TypeOK <=> Types /\ late \in 0..(MaxCalls * MaxAsst)
BY DEF TypeOK, Types, TypeHistory, TypeQueues, TypeRun, TypeCompact

\* What the steps make.
Results == [i \in 1..hadCalls |-> Msg("tool", nAsst, i)]
Summary == Msg("summary", nSum + 1, 0)

LEMMA Made ==
  ASSUME Types
  PROVE  /\ Msg("prompt", runs, 0) \in Message
         /\ \A calls \in 0..MaxCalls : /\ Msg("asst", nAsst + 1, calls) \in Message
                                       /\ Msg("failed", nAsst + 1, calls) \in Message
         /\ Results \in Seq(Message) /\ Len(Results) = hadCalls /\ DOMAIN Results = 1..hadCalls
         /\ \A k \in 1..hadCalls : /\ Msg("tool", nAsst, k) \in Message
                                   /\ Results[k] = Msg("tool", nAsst, k)
         /\ Summary \in Message
         /\ Msg("steer", sentS + 1, 0) \in Message
         /\ Msg("follow", sentF + 1, 0) \in Message
<1>1. /\ {"prompt", "asst", "failed", "tool", "summary", "steer", "follow"} \subseteq Kinds
      /\ runs \in Nat /\ nAsst \in Nat /\ nAsst + 1 \in Nat /\ nSum + 1 \in Nat
      /\ sentS + 1 \in Nat /\ sentF + 1 \in Nat /\ hadCalls \in Nat /\ 0 \in Nat
      /\ \A calls \in 0..MaxCalls : calls \in Nat
      /\ \A k \in 1..hadCalls : k \in Nat
  BY Given DEF Types, TypeRun, TypeCompact, Kinds
<1>2. \A k \in 1..hadCalls : Msg("tool", nAsst, k) \in Message
  BY <1>1, Typed
<1>3. Results \in [1..hadCalls -> Message] /\ \A k \in 1..hadCalls : Results[k] = Msg("tool", nAsst, k)
  BY <1>2 DEF Results
<1>4. Results \in Seq(Message)
  <2> HIDE DEF Message, Msg, Results
  <2> QED BY <1>1, <1>3
<1>5. Len(Results) = hadCalls /\ DOMAIN Results = 1..hadCalls
  <2> HIDE DEF Message, Msg, Results
  <2>1. DOMAIN Results = 1..hadCalls
    BY <1>3
  <2> QED BY <1>1, <1>4, <2>1, LenProperties
<1> QED BY <1>1, <1>2, <1>3, <1>4, <1>5, Typed DEF Summary

\* The steps of Next by what they concern.
Callers == Start \/ SetTurnContext \/ Steer \/ FollowUp \/ Cancel
Turns == AppendPrompt \/ BeginTurns \/ TurnStart \/ TurnCancelled \/ StreamOnce \/ StreamDone
Errors == StreamError \/ RetryWait
Batch == WorkerDequeues \/ ExecuteTools \/ LateWorker
TurnEnds == EnforceMessageCap \/ MaybeCompact \/ LaunchCompaction \/ NextTurn
RunEnd == DequeueFollow \/ EmitAgentEnd \/ Finish

LEMMA Steps ==
  ASSUME [Next]_vars
  PROVE  Callers \/ Turns \/ Errors \/ Batch \/ TurnEnds \/ RunEnd \/ Compaction \/ UNCHANGED vars
BY DEF Next, Run, Callers, Turns, Errors, Batch, TurnEnds, RunEnd

LEMMA TypeRunStep ==
  ASSUME Types, [Next]_vars
  PROVE  TypeRun'
<1>1. TypeRun /\ MaxRetries \in Nat /\ MaxRuns \in Nat /\ MaxSteer \in Nat /\ MaxFollow \in Nat
  BY Given DEF Types
<1>2. CASE Callers
  <2>1. CASE Start
    <3>1. /\ runs < MaxRuns /\ runs' = runs + 1 /\ pc' = "prompt" /\ ctxDone' = FALSE
          /\ UNCHANGED <<turnContext, runVars, sentS, sentF, nAsst>>
      BY <2>1 DEF Start
    <3>2. runs' \in 0..MaxRuns
      BY <1>1, <3>1 DEF TypeRun
    <3> QED BY <1>1, <3>1, <3>2 DEF TypeRun, RunSteps, runVars
  <2>2. CASE SetTurnContext
    BY <1>1, <2>2 DEF TypeRun, SetTurnContext, runVars
  <2>3. CASE Steer
    BY <1>1, <2>3 DEF TypeRun, Steer, runVars
  <2>4. CASE FollowUp
    BY <1>1, <2>4 DEF TypeRun, FollowUp, runVars
  <2>5. CASE Cancel
    BY <1>1, <2>5 DEF TypeRun, Cancel, runVars
  <2> QED BY <1>2, <2>1, <2>2, <2>3, <2>4, <2>5 DEF Callers
<1>3. CASE Turns
  <2>1. CASE AppendPrompt \/ BeginTurns \/ TurnCancelled
    BY <1>1, <2>1
       DEF TypeRun, AppendPrompt, BeginTurns, TurnCancelled, RunSteps, Goto, counters, runVars
  <2>2. CASE TurnStart \/ StreamOnce
    <3>1. 0 \in 0..(MaxRetries - 1) /\ 0 \in 0..MaxRuns
      BY Given
    <3> QED BY <1>1, <2>2, <3>1
       DEF TypeRun, TurnStart, StreamOnce, RunSteps, Goto, counters, runVars
  <2>3. CASE StreamDone
    BY <1>1, <2>3 DEF TypeRun, StreamDone, RunSteps, Goto, counters
  <2> QED BY <1>3, <2>1, <2>2, <2>3 DEF Turns
<1>4. CASE Errors
  BY <1>1, <1>4 DEF TypeRun, Errors, StreamError, RetryWait, RunSteps, Goto, counters, runVars
<1>5. CASE Batch
  BY <1>1, <1>5
     DEF TypeRun, Batch, WorkerDequeues, ExecuteTools, LateWorker, RunSteps, Goto, counters, runVars
<1>6. CASE TurnEnds
  <2>1. CASE EnforceMessageCap \/ MaybeCompact \/ LaunchCompaction
    BY <1>1, <2>1
       DEF TypeRun, EnforceMessageCap, MaybeCompact, LaunchCompaction, RunSteps, Goto, counters,
           runVars
  <2>2. CASE NextTurn
    BY <1>1, <2>2 DEF TypeRun, NextTurn, RunSteps, Goto, counters
  <2> QED BY <1>6, <2>1, <2>2 DEF TurnEnds
<1>7. CASE RunEnd
  BY <1>1, <1>7
     DEF TypeRun, RunEnd, DequeueFollow, EmitAgentEnd, Finish, RunSteps, Goto, counters, runVars
<1>8. CASE Compaction
  BY <1>1, <1>8
     DEF TypeRun, Compaction, CompactDone, CompactFailed, EmitCompact, counters, runVars
<1>9. CASE UNCHANGED vars
  BY <1>1, <1>9 DEF TypeRun, vars
<1> QED BY <1>2, <1>3, <1>4, <1>5, <1>6, <1>7, <1>8, <1>9, Steps

LEMMA GrabTypes ==
  ASSUME TypeQueues
  PROVE  /\ Len(grabs) \in Nat /\ DOMAIN grabs = 1..Len(grabs)
         /\ \A b \in DOMAIN grabs : grabs[b] \in Seq(Message)
         /\ Elements(grabs) \subseteq Seq(Message)
         /\ \A g \in Elements(grabs) : \E b \in DOMAIN grabs : g = grabs[b]
<1>1. grabs \in Seq(Seq(Message))
  BY DEF TypeQueues
<1>2. Len(grabs) \in Nat /\ DOMAIN grabs = 1..Len(grabs) /\ \A b \in 1..Len(grabs) : grabs[b] \in Seq(Message)
  BY <1>1, LenProperties, ElementOfSeq
<1> QED BY <1>2 DEF Elements

LEMMA TypeQueuesStep ==
  ASSUME Types, [Next]_vars
  PROVE  TypeQueues'
<1>1. /\ TypeQueues /\ <<>> \in Seq(Message) /\ <<>> \in Seq(Seq(Message))
      /\ Elements(grabs) \subseteq Seq(Message)
  BY NoMessages, EmptySeq, GrabTypes DEF Types
<1>2. CASE Callers
  <2>1. CASE Steer
    <3>1. steerQ' \in Seq(Message)
      BY <1>1, <2>1, Made, AppendedElements DEF Steer, TypeQueues
    <3> QED BY <1>1, <2>1, <3>1 DEF TypeQueues, Steer, runVars
  <2>2. CASE FollowUp
    <3>1. followQ' \in Seq(Message)
      BY <1>1, <2>2, Made, AppendedElements DEF FollowUp, TypeQueues
    <3> QED BY <1>1, <2>2, <3>1 DEF TypeQueues, FollowUp, runVars
  <2>3. CASE Start \/ SetTurnContext \/ Cancel
    BY <1>1, <2>3 DEF TypeQueues, Start, SetTurnContext, Cancel, runVars
  <2> QED BY <1>2, <2>1, <2>2, <2>3 DEF Callers
<1>3. CASE Turns
  BY <1>1, <1>3
     DEF TypeQueues, Turns, AppendPrompt, BeginTurns, TurnStart, TurnCancelled, StreamOnce,
         StreamDone, runVars
<1>4. CASE Errors
  BY <1>1, <1>4 DEF TypeQueues, Errors, StreamError, RetryWait, runVars
<1>5. CASE Batch
  <2>1. CASE WorkerDequeues
    <3>1. Append(grabs, steerQ) \in Seq(Seq(Message))
      <4> DEFINE S == Seq(Message)
      <4>1. grabs \in Seq(S) /\ steerQ \in S
        BY <1>1 DEF TypeQueues
      <4> HIDE DEF S
      <4>2. Append(grabs, steerQ) \in Seq(S)
        BY <4>1, AppendProperties
      <4> QED BY <4>2 DEF S
    <3> QED BY <1>1, <2>1, <3>1 DEF TypeQueues, WorkerDequeues, runVars
  <2>2. CASE ExecuteTools
    <3>1. fromTools' \in Seq(Message)
      BY <1>1, <2>2 DEF ExecuteTools
    <3> QED BY <1>1, <2>2, <3>1 DEF TypeQueues, ExecuteTools
  <2>3. CASE LateWorker
    BY <1>1, <2>3 DEF TypeQueues, LateWorker, runVars
  <2> QED BY <1>5, <2>1, <2>2, <2>3 DEF Batch
<1>6. CASE TurnEnds
  BY <1>1, <1>6
     DEF TypeQueues, TurnEnds, EnforceMessageCap, MaybeCompact, LaunchCompaction, NextTurn, runVars
<1>7. CASE RunEnd
  BY <1>1, <1>7 DEF TypeQueues, RunEnd, DequeueFollow, EmitAgentEnd, Finish, runVars
<1>8. CASE Compaction
  BY <1>1, <1>8
     DEF TypeQueues, Compaction, CompactDone, CompactFailed, EmitCompact, runVars
<1>9. CASE UNCHANGED vars
  BY <1>1, <1>9 DEF TypeQueues, vars
<1> QED BY <1>2, <1>3, <1>4, <1>5, <1>6, <1>7, <1>8, <1>9, Steps

\* What a job stands for.
Gist(s) == Elements(s) \union UNION {gist[m.n] : m \in {x \in Elements(s) : x.kind = "summary"}}

LEMMA GistTypes ==
  ASSUME Types, Gists
  PROVE  /\ \A n \in 1..nSum : gist[n] \subseteq Message
         /\ Gist(job) \subseteq Message
<1>1. gist \in Seq(SUBSET Message) /\ Len(gist) = nSum /\ Known(job) /\ job \in Seq(Message)
  BY DEF Types, TypeCompact, Gists
<1>2. \A n \in 1..nSum : gist[n] \in SUBSET Message
  BY <1>1, ElementOfSeq
<1>3. Elements(job) \subseteq Message /\ \A x \in Elements(job) : x.kind = "summary" => x.n \in 1..nSum
  BY <1>1, SeqParts DEF Known
<1> QED BY <1>2, <1>3 DEF Gist

LEMMA TypeCompactStep ==
  ASSUME Types, Gists, [Next]_vars
  PROVE  TypeCompact'
<1>1. TypeCompact /\ messages \in Seq(Message) /\ <<>> \in Seq(Message)
  BY NoMessages DEF Types, TypeHistory
<1>2. CASE Callers
  BY <1>1, <1>2
     DEF TypeCompact, Callers, Start, SetTurnContext, Steer, FollowUp, Cancel, compactVars
<1>3. CASE Turns
  BY <1>1, <1>3
     DEF TypeCompact, Turns, AppendPrompt, BeginTurns, TurnStart, TurnCancelled, StreamOnce,
         StreamDone, compactVars
<1>4. CASE Errors
  BY <1>1, <1>4 DEF TypeCompact, Errors, StreamError, RetryWait, compactVars
<1>5. CASE Batch
  BY <1>1, <1>5 DEF TypeCompact, Batch, WorkerDequeues, ExecuteTools, LateWorker, compactVars
<1>6. CASE TurnEnds
  BY <1>1, <1>6
     DEF TypeCompact, TurnEnds, EnforceMessageCap, MaybeCompact, LaunchCompaction, NextTurn,
         compactVars
<1>7. CASE RunEnd
  BY <1>1, <1>7 DEF TypeCompact, RunEnd, DequeueFollow, EmitAgentEnd, Finish, compactVars
<1>8. CASE Compaction
  <2>1. CASE CompactDone /\ ~(Len(job) > Len(messages))
    <3>1. /\ nSum' = nSum + 1 /\ gist' = Append(gist, Gist(job)) /\ compactor' = "exiting"
          /\ job' = <<>> /\ snapshot' = snapshot /\ stale' = stale
      BY <2>1 DEF CompactDone, Gist
    <3>2. gist' \in Seq(SUBSET Message)
      <4> DEFINE S == SUBSET Message
      <4>1. gist \in Seq(S) /\ Gist(job) \in S
        BY <1>1, GistTypes DEF TypeCompact
      <4> HIDE DEF S
      <4>2. Append(gist, Gist(job)) \in Seq(S)
        BY <4>1, AppendProperties
      <4> QED BY <3>1, <4>2 DEF S
    <3> QED BY <1>1, <3>1, <3>2 DEF TypeCompact
  <2>2. CASE CompactDone /\ Len(job) > Len(messages)
    BY <1>1, <2>2 DEF TypeCompact, CompactDone
  <2>3. CASE CompactFailed \/ EmitCompact
    BY <1>1, <2>3 DEF TypeCompact, CompactFailed, EmitCompact
  <2> QED BY <1>8, <2>1, <2>2, <2>3 DEF Compaction
<1>9. CASE UNCHANGED vars
  BY <1>1, <1>9 DEF TypeCompact, vars
<1> QED BY <1>2, <1>3, <1>4, <1>5, <1>6, <1>7, <1>8, <1>9, Steps

LEMMA Monotone ==
  ASSUME NEW a \in Nat, NEW b \in Nat, NEW c \in Nat, b <= c
  PROVE  a * b <= a * c /\ a * (b + 1) = a * b + a /\ a * b \in Nat
<1>1. a * c = a * b + a * (c - b) /\ a * (c - b) >= 0 /\ a * b \in Nat
  OBVIOUS
<1> QED BY <1>1

LEMMA LateStep ==
  ASSUME Types, LateInv, [Next]_vars
  PROVE  LateInv'
<1>1. /\ late \in Nat /\ MaxCalls \in Nat /\ MaxAsst \in Nat /\ nAsst \in Nat /\ hadCalls \in 0..MaxCalls
      /\ pc = "tools" => nAsst <= MaxAsst
  BY Given DEF LateInv, Types, TypeRun
<1>2. PICK b \in 0..MaxAsst : late <= MaxCalls * b /\ b <= nAsst /\ (pc = "tools" => b < nAsst)
  BY DEF LateInv
<1>3. CASE StreamDone
  <2>1. /\ late' = late /\ nAsst' = nAsst + 1
        /\ pc' = "tools" => nAsst + 1 <= MaxAsst
    BY <1>1, <1>3 DEF StreamDone, Goto
  <2> QED BY <1>1, <1>2, <2>1 DEF LateInv
<1>4. CASE ExecuteTools
  <2>1. pc = "tools" /\ pc' = "cap" /\ nAsst' = nAsst
    BY <1>4 DEF ExecuteTools, Goto
  <2>2. PICK left \in 0..(IF ctxDone THEN hadCalls - Len(grabs) ELSE 0) : late' = late + left
    BY <1>4 DEF ExecuteTools
  <2>3. Len(grabs) \in Nat
    BY GrabTypes DEF Types
  <2>4. left \in 0..MaxCalls
    BY <1>1, <2>2, <2>3
  <2>5. b + 1 \in 0..MaxAsst /\ b + 1 <= nAsst
    BY <1>1, <1>2, <2>1
  <2>6. MaxCalls * (b + 1) = MaxCalls * b + MaxCalls /\ MaxCalls * b \in Nat
    BY <1>1, Monotone
  <2>7. late' \in Nat /\ late' <= MaxCalls * (b + 1)
    BY <1>1, <1>2, <2>2, <2>4, <2>6
  <2> QED BY <2>1, <2>5, <2>7 DEF LateInv
<1>5. CASE LateWorker
  <2>1. late > 0 /\ late' = late - 1 /\ pc' = pc /\ nAsst' = nAsst
    BY <1>5 DEF LateWorker
  <2>2. MaxCalls * b \in Nat
    BY <1>1, Monotone
  <2>3. late' \in Nat /\ late' <= MaxCalls * b
    BY <1>1, <1>2, <2>1, <2>2
  <2> QED BY <1>1, <1>2, <2>1, <2>3 DEF LateInv
<1>6. ASSUME pc' = "tools" => pc = "tools", UNCHANGED <<late, nAsst>>
      PROVE  LateInv'
  BY <1>1, <1>2, <1>6 DEF LateInv
<1>7. CASE Callers
  BY <1>6, <1>7 DEF Callers, Start, SetTurnContext, Steer, FollowUp, Cancel
<1>8. CASE Turns
  BY <1>3, <1>6, <1>8
     DEF Turns, AppendPrompt, BeginTurns, TurnStart, TurnCancelled, StreamOnce, Goto
<1>9. CASE Errors
  BY <1>6, <1>9 DEF Errors, StreamError, RetryWait, Goto
<1>10. CASE Batch
  BY <1>4, <1>5, <1>6, <1>10 DEF Batch, WorkerDequeues
<1>11. CASE TurnEnds
  BY <1>6, <1>11 DEF TurnEnds, EnforceMessageCap, MaybeCompact, LaunchCompaction, NextTurn, Goto
<1>12. CASE RunEnd
  BY <1>6, <1>12 DEF RunEnd, DequeueFollow, EmitAgentEnd, Finish, Goto
<1>13. CASE Compaction
  BY <1>6, <1>13 DEF Compaction, CompactDone, CompactFailed, EmitCompact
<1>14. CASE UNCHANGED vars
  BY <1>6, <1>14 DEF vars
<1> QED BY <1>7, <1>8, <1>9, <1>10, <1>11, <1>12, <1>13, <1>14, Steps

LEMMA LateBound ==
  ASSUME LateInv
  PROVE  late \in 0..(MaxCalls * MaxAsst)
<1>1. late \in Nat /\ MaxCalls \in Nat /\ MaxAsst \in Nat
  BY Given DEF LateInv
<1>2. PICK b \in 0..MaxAsst : late <= MaxCalls * b
  BY DEF LateInv
<1>3. MaxCalls * b <= MaxCalls * MaxAsst /\ MaxCalls * b \in Nat /\ MaxCalls * MaxAsst \in Nat
  BY <1>1, Monotone
<1> QED BY <1>1, <1>2, <1>3

\* Where messages wait, and when there is a compaction.
LEMMA PlacesStep ==
  ASSUME Types, Places, Compacting, [Next]_vars
  PROVE  Places' /\ Compacting'
<1>1. /\ Places /\ Compacting /\ pc \in RunSteps /\ grabs # <<>> => pc = "tools"
      /\ \A g \in Elements(grabs) : grabs # <<>>
  <2>1. \A g \in Elements(grabs) : grabs # <<>>
    BY EmptySeq DEF Elements
  <2> QED BY <2>1 DEF Types, TypeRun, Places
<1>2. CASE Callers
  BY <1>1, <1>2
     DEF Places, Compacting, Callers, Start, SetTurnContext, Steer, FollowUp, Cancel, runVars,
         compactVars
<1>3. CASE Turns
  BY <1>1, <1>3
     DEF Places, Compacting, Turns, AppendPrompt, BeginTurns, TurnStart, TurnCancelled, StreamOnce,
         StreamDone, Goto, runVars, compactVars
<1>4. CASE Errors
  BY <1>1, <1>4 DEF Places, Compacting, Errors, StreamError, RetryWait, Goto, runVars, compactVars
<1>5. CASE Batch
  BY <1>1, <1>5
     DEF Places, Compacting, Batch, WorkerDequeues, ExecuteTools, LateWorker, Goto, runVars,
         compactVars
<1>6. CASE TurnEnds
  <2>1. CASE NextTurn
    BY <1>1, <2>1 DEF Places, Compacting, NextTurn, Goto, compactVars
  <2>2. CASE EnforceMessageCap \/ MaybeCompact \/ LaunchCompaction
    BY <1>1, <2>2
       DEF Places, Compacting, EnforceMessageCap, MaybeCompact, LaunchCompaction, Goto, runVars,
           compactVars
  <2> QED BY <1>6, <2>1, <2>2 DEF TurnEnds
<1>7. CASE RunEnd
  BY <1>1, <1>7
     DEF Places, Compacting, RunEnd, DequeueFollow, EmitAgentEnd, Finish, Goto, runVars, compactVars
<1>8. CASE Compaction
  BY <1>1, <1>8
     DEF Places, Compacting, Compaction, CompactDone, CompactFailed, EmitCompact, runVars
<1>9. CASE UNCHANGED vars
  BY <1>1, <1>9 DEF Places, Compacting, vars
<1> QED BY <1>2, <1>3, <1>4, <1>5, <1>6, <1>7, <1>8, <1>9, Steps

-----------------------------------------------------------------------------
(* What a step does to the history.                                         *)

\* The cap and the merge put one message before an end of the history.
Cut(k) == /\ EnforceMessageCap /\ MaxMessages > 0 /\ k \in 1..(Len(messages) - 1)
          /\ messages' = Front(messages[1], messages, k)
          /\ UNCHANGED <<log, compactVars>>
Merge == /\ CompactDone /\ compactor = "working" /\ Len(job) \in 0..Len(messages)
         /\ messages' = Front(Summary, messages, Len(job)) /\ log' = log \union {Summary}
         /\ nSum' = nSum + 1 /\ gist' = Append(gist, Gist(job))
         /\ compactor' = "exiting" /\ job' = <<>> /\ UNCHANGED <<snapshot, stale>>

LEMMA CapCuts ==
  ASSUME Types, EnforceMessageCap
  PROVE  UNCHANGED messages \/ \E k \in 1..(Len(messages) - 1) : Cut(k)
<1>1. messages \in Seq(Message) /\ Len(messages) \in Nat
  BY SeqParts DEF Types, TypeHistory
<1>2. CASE MaxMessages > 0
  <2> DEFINE cap == Larger(MaxMessages, CapFloor)
             k == Len(messages) - cap + 1
  <2>1. cap \in Nat /\ cap >= 2
    BY Given DEF Larger
  <2>2. messages' = IF Len(messages) <= cap THEN messages
                    ELSE <<Head(messages)>> \o Suffix(messages, k)
    BY <1>2 DEF EnforceMessageCap, Capped
  <2> HIDE DEF cap
  <2>3. CASE ~(Len(messages) <= cap)
    <3>1. k \in 1..(Len(messages) - 1) /\ Len(messages) > 0
      BY <1>1, <2>1, <2>3
    <3>2. Head(messages) = messages[1]
      BY <1>1, <3>1, HeadTailProperties, EmptySeq
    <3>3. messages' = Front(messages[1], messages, k)
      BY <2>2, <2>3, <3>2 DEF Front
    <3>4. Cut(k)
      BY <1>2, <3>1, <3>3 DEF Cut, EnforceMessageCap
    <3> QED BY <3>1, <3>4
  <2> QED BY <2>2, <2>3
<1> QED BY <1>2 DEF EnforceMessageCap

LEMMA MergeStep ==
  ASSUME Types, CompactDone
  PROVE  Merge \/ UNCHANGED <<messages, log, nSum, gist>>
<1>1. Len(job) \in Nat /\ Len(messages) \in Nat
  BY SeqParts DEF Types, TypeHistory, TypeCompact
<1>2. CASE ~(Len(job) > Len(messages))
  BY <1>1, <1>2 DEF CompactDone, Merge, Merged, Front, Summary, Gist
<1> QED BY <1>2 DEF CompactDone

\* The steps that write to the history.
LEMMA Writers ==
  ASSUME Types, [Next]_vars
  PROVE  \/ UNCHANGED <<messages, log, nSum, gist>>
         \/ AppendPrompt \/ TurnStart \/ StreamDone \/ ExecuteTools \/ DequeueFollow
         \/ \E k \in 1..(Len(messages) - 1) : Cut(k)
         \/ Merge
<1>1. CASE Callers
  BY <1>1 DEF Callers, Start, SetTurnContext, Steer, FollowUp, Cancel, compactVars
<1>2. CASE Turns
  BY <1>2 DEF Turns, BeginTurns, TurnCancelled, StreamOnce, compactVars
<1>3. CASE Errors
  BY <1>3 DEF Errors, StreamError, RetryWait, compactVars
<1>4. CASE Batch
  BY <1>4 DEF Batch, WorkerDequeues, LateWorker, compactVars
<1>5. CASE TurnEnds
  <2>1. CASE EnforceMessageCap
    BY <2>1, CapCuts DEF EnforceMessageCap, compactVars
  <2> QED BY <1>5, <2>1 DEF TurnEnds, MaybeCompact, LaunchCompaction, NextTurn, compactVars
<1>6. CASE RunEnd
  BY <1>6 DEF RunEnd, EmitAgentEnd, Finish, compactVars
<1>7. CASE Compaction
  BY <1>7, MergeStep DEF Compaction, CompactFailed, EmitCompact
<1>8. CASE UNCHANGED vars
  BY <1>8 DEF vars
<1> QED BY <1>1, <1>2, <1>3, <1>4, <1>5, <1>6, <1>7, <1>8, Steps

\* What the writers add.
Answer(m) == \E calls \in 0..MaxCalls : m \in {Msg("asst", nAsst + 1, calls), Msg("failed", nAsst + 1, calls)}

LEMMA Additions ==
  ASSUME Types
  PROVE  /\ AppendPrompt => Extend(<<Msg("prompt", runs, 0)>>)
         /\ TurnStart => Extend(pending)
         /\ StreamDone => \E m \in Message : Answer(m) /\ Extend(<<m>>)
         /\ ExecuteTools => Extend(Results)
         /\ DequeueFollow => Extend(followQ)
<1>1. ASSUME StreamDone
      PROVE  \E m \in Message : Answer(m) /\ Extend(<<m>>)
  <2>1. PICK calls \in 0..MaxCalls, failed \in BOOLEAN :
           Extend(<<Msg(IF failed THEN "failed" ELSE "asst", nAsst + 1, calls)>>)
    BY <1>1 DEF StreamDone
  <2>2. Msg(IF failed THEN "failed" ELSE "asst", nAsst + 1, calls)
           \in {Msg("asst", nAsst + 1, calls), Msg("failed", nAsst + 1, calls)}
    OBVIOUS
  <2> QED BY <2>1, <2>2, Made DEF Answer
<1> QED BY <1>1 DEF AppendPrompt, TurnStart, ExecuteTools, DequeueFollow, Results

\* Where a message of the history comes from.
Origin(m) ==
  \/ m \in Elements(messages)
  \/ AppendPrompt /\ m = Msg("prompt", runs, 0)
  \/ TurnStart /\ m \in Elements(pending)
  \/ StreamDone /\ Answer(m)
  \/ ExecuteTools /\ \E k \in 1..hadCalls : m = Msg("tool", nAsst, k)
  \/ DequeueFollow /\ m \in Elements(followQ)
  \/ Merge /\ m = Summary

LEMMA Origins ==
  ASSUME Types, [Next]_vars
  PROVE  TypeHistory' /\ \A m \in Elements(messages') : Origin(m)
<1>1. messages \in Seq(Message) /\ TypeHistory /\ pending \in Seq(Message) /\ followQ \in Seq(Message)
  BY DEF Types, TypeHistory, TypeQueues
<1>2. CASE UNCHANGED <<messages, log>>
  BY <1>1, <1>2 DEF TypeHistory, Origin
<1>3. ASSUME NEW new \in Seq(Message), Extend(new)
      PROVE  TypeHistory' /\ \A m \in Elements(messages') : m \in Elements(messages) \/ m \in Elements(new)
  <2>1. messages' = messages \o new /\ log' = log \union Elements(new)
    BY <1>3 DEF Extend
  <2>2. messages' \in Seq(Message) /\ Elements(messages') = Elements(messages) \union Elements(new)
    BY <1>1, <2>1, Joined, JoinedElements
  <2>3. Elements(new) \subseteq Message
    BY SeqParts
  <2> QED BY <1>1, <2>1, <2>2, <2>3 DEF TypeHistory
<1>4. CASE AppendPrompt
  <2>1. /\ Msg("prompt", runs, 0) \in Message /\ Extend(<<Msg("prompt", runs, 0)>>)
    BY <1>4, Made, Additions
  <2>2. /\ <<Msg("prompt", runs, 0)>> \in Seq(Message)
        /\ Elements(<<Msg("prompt", runs, 0)>>) = {Msg("prompt", runs, 0)}
    BY <2>1, OneMessage
  <2> QED BY <1>3, <1>4, <2>1, <2>2 DEF Origin
<1>5. CASE TurnStart
  BY <1>1, <1>3, <1>5, Additions DEF Origin
<1>6. CASE StreamDone
  <2>1. PICK m \in Message : Answer(m) /\ Extend(<<m>>)
    BY <1>6, Additions
  <2>2. <<m>> \in Seq(Message) /\ Elements(<<m>>) = {m}
    BY <2>1, OneMessage
  <2> QED BY <1>3, <1>6, <2>1, <2>2 DEF Origin
<1>7. CASE ExecuteTools
  <2>1. /\ Results \in Seq(Message) /\ Extend(Results)
        /\ DOMAIN Results = 1..hadCalls /\ \A k \in 1..hadCalls : Results[k] = Msg("tool", nAsst, k)
    BY <1>7, Made, Additions
  <2>2. \A m \in Elements(Results) : \E k \in 1..hadCalls : m = Msg("tool", nAsst, k)
    BY <2>1 DEF Elements
  <2> QED BY <1>3, <1>7, <2>1, <2>2 DEF Origin
<1>8. CASE DequeueFollow
  BY <1>1, <1>3, <1>8, Additions DEF Origin
<1>9. ASSUME NEW k \in 1..(Len(messages) - 1), Cut(k)
      PROVE  TypeHistory' /\ \A m \in Elements(messages') : m \in Elements(messages)
  <2>1. messages[1] \in Message /\ messages[1] \in Elements(messages) /\ k \in 0..Len(messages)
    <3>1. Len(messages) \in Nat /\ 1 \in DOMAIN messages
      BY <1>1, SeqParts
    <3> QED BY <1>1, <3>1, SeqParts
  <2>2. messages' = Front(messages[1], messages, k) /\ log' = log
    BY <1>9 DEF Cut
  <2>3. messages' \in Seq(Message) /\ Elements(messages') \subseteq {messages[1]} \union Elements(messages)
    BY <1>1, <2>1, <2>2, Fronted
  <2> QED BY <1>1, <2>1, <2>2, <2>3 DEF TypeHistory
<1>10. CASE Merge
  <2>1. /\ messages' = Front(Summary, messages, Len(job)) /\ log' = log \union {Summary}
        /\ Len(job) \in 0..Len(messages) /\ Summary \in Message
    BY <1>10, Made DEF Merge
  <2>2. messages' \in Seq(Message) /\ Elements(messages') \subseteq {Summary} \union Elements(messages)
    BY <1>1, <2>1, Fronted
  <2> QED BY <1>1, <1>10, <2>1, <2>2 DEF TypeHistory, Origin
<1> QED
  <2>1. CASE \E k \in 1..(Len(messages) - 1) : Cut(k)
    BY <1>9, <2>1 DEF Origin
  <2> QED BY <1>2, <1>4, <1>5, <1>6, <1>7, <1>8, <1>10, <2>1, Writers

LEMMA TypesStep ==
  ASSUME Types, Gists, [Next]_vars
  PROVE  Types'
BY Origins, TypeQueuesStep, TypeRunStep, TypeCompactStep DEF Types

-----------------------------------------------------------------------------
(* Numbers.                                                                 *)

LEMMA StillNumbered ==
  ASSUME Types, [Next]_vars, NEW m \in Message, Numbered(m)
  PROVE  Numbered(m)'
<1>1. /\ m.n \in Nat /\ runs \in Nat /\ sentS \in Nat /\ sentF \in Nat /\ nAsst \in Nat
      /\ Numbered(m)
  BY DEF Message, Types, TypeRun
<1> HIDE DEF Message
<1>2. CASE Callers
  <2>1. CASE Start
    <3>1. runs' = runs + 1 /\ pc' = "prompt" /\ UNCHANGED <<sentS, sentF, nAsst>>
      BY <2>1 DEF Start
    <3> QED BY <1>1, <3>1 DEF Numbered
  <2>2. CASE Steer
    <3>1. sentS' = sentS + 1 /\ UNCHANGED <<runs, pc, sentF, nAsst>>
      BY <2>2 DEF Steer
    <3> QED BY <1>1, <3>1 DEF Numbered
  <2>3. CASE FollowUp
    <3>1. sentF' = sentF + 1 /\ UNCHANGED <<runs, pc, sentS, nAsst>>
      BY <2>3 DEF FollowUp
    <3> QED BY <1>1, <3>1 DEF Numbered
  <2>4. CASE SetTurnContext \/ Cancel
    <3>1. UNCHANGED <<runs, pc, sentS, sentF, nAsst>>
      BY <2>4 DEF SetTurnContext, Cancel
    <3> QED BY <1>1, <3>1 DEF Numbered
  <2> QED BY <1>2, <2>1, <2>2, <2>3, <2>4 DEF Callers
<1>3. CASE StreamDone
  <2>1. nAsst' = nAsst + 1 /\ pc' # "prompt" /\ UNCHANGED <<sentS, sentF, runs>>
    BY <1>3 DEF StreamDone, Goto, counters
  <2> QED BY <1>1, <2>1 DEF Numbered
<1>4. ASSUME pc' = pc \/ pc' \notin {"prompt", "tools"}, UNCHANGED <<sentS, sentF, runs, nAsst>>
      PROVE  Numbered(m)'
  BY <1>1, <1>4 DEF Numbered
<1>5. CASE Turns
  BY <1>3, <1>4, <1>5
     DEF Turns, AppendPrompt, BeginTurns, TurnStart, TurnCancelled, StreamOnce, Goto, counters
<1>6. CASE Errors
  BY <1>4, <1>6 DEF Errors, StreamError, RetryWait, Goto, counters
<1>7. CASE Batch
  BY <1>4, <1>7 DEF Batch, WorkerDequeues, ExecuteTools, LateWorker, Goto, counters
<1>8. CASE TurnEnds
  BY <1>4, <1>8
     DEF TurnEnds, EnforceMessageCap, MaybeCompact, LaunchCompaction, NextTurn, Goto, counters
<1>9. CASE RunEnd
  BY <1>4, <1>9 DEF RunEnd, DequeueFollow, EmitAgentEnd, Finish, Goto, counters
<1>10. CASE Compaction
  BY <1>4, <1>10 DEF Compaction, CompactDone, CompactFailed, EmitCompact, counters
<1>11. CASE UNCHANGED vars
  BY <1>4, <1>11 DEF vars
<1> QED BY <1>2, <1>5, <1>6, <1>7, <1>8, <1>9, <1>10, <1>11, Steps

\* The kinds and numbers of what is added.
LEMMA MadeNumbers ==
  ASSUME Types
  PROVE  /\ LET p == Msg("prompt", runs, 0) IN p.kind = "prompt" /\ p.n = runs
         /\ \A m \in Message : Answer(m) => m.kind \in {"asst", "failed"} /\ m.n = nAsst + 1
         /\ \A k \in 1..hadCalls : LET r == Msg("tool", nAsst, k)
                                   IN  r.kind = "tool" /\ r.n = nAsst /\ r.call = k
         /\ Summary.kind = "summary" /\ Summary.n = nSum + 1
BY DEF Msg, Answer, Summary

LEMMA NumbersStep ==
  ASSUME Types, Numbers, Follows, Steers, [Next]_vars
  PROVE  Numbers'
<1>1. /\ Elements(messages) \subseteq Message /\ Elements(pending) \subseteq Message
      /\ Elements(followQ) \subseteq Message /\ nAsst \in Nat /\ runs \in Nat
      /\ \A m \in Elements(messages') : Origin(m)
      /\ Elements(messages') \subseteq Message
  <2>1. Elements(messages') \subseteq Message
    BY Origins, SeqParts DEF TypeHistory
  <2> QED BY <2>1, Origins, SeqParts DEF Types, TypeHistory, TypeQueues, TypeRun
<1>2. ASSUME NEW m \in Elements(messages')
      PROVE  Numbered(m)'
  <2>1. m \in Message /\ Origin(m)
    BY <1>1
  <2>2. CASE m \in Elements(messages)
    BY <2>1, <2>2, StillNumbered DEF Numbers
  <2>3. CASE AppendPrompt /\ m = Msg("prompt", runs, 0)
    <3>1. m.kind = "prompt" /\ m.n = runs
      BY <2>3 DEF Msg
    <3>2. pc' = "begin" /\ runs' = runs
      BY <2>3 DEF AppendPrompt, Goto, counters
    <3> QED BY <1>1, <3>1, <3>2 DEF Numbered
  <2>4. CASE TurnStart /\ m \in Elements(pending)
    <3>1. m.kind = "steer" /\ m.n <= sentS
      BY <2>4 DEF Steers, SteerLine, Line
    <3>2. sentS' = sentS
      BY <2>4 DEF TurnStart, counters
    <3> QED BY <3>1, <3>2 DEF Numbered
  <2>5. CASE StreamDone /\ Answer(m)
    <3>1. m.kind \in {"asst", "failed"} /\ m.n = nAsst + 1
      BY <2>1, <2>5, MadeNumbers
    <3>2. nAsst' = nAsst + 1
      BY <2>5 DEF StreamDone
    <3> QED BY <1>1, <3>1, <3>2 DEF Numbered
  <2>6. CASE ExecuteTools /\ \E k \in 1..hadCalls : m = Msg("tool", nAsst, k)
    <3>1. m.kind = "tool" /\ m.n = nAsst
      BY <2>6 DEF Msg
    <3>2. pc' = "cap" /\ nAsst' = nAsst
      BY <2>6 DEF ExecuteTools, Goto
    <3> QED BY <1>1, <3>1, <3>2 DEF Numbered
  <2>7. CASE DequeueFollow /\ m \in Elements(followQ)
    <3>1. m.kind = "follow" /\ m.n <= sentF
      BY <2>7 DEF Follows, Line
    <3>2. sentF' = sentF
      BY <2>7 DEF DequeueFollow, counters
    <3> QED BY <3>1, <3>2 DEF Numbered
  <2>8. CASE Merge /\ m = Summary
    <3>1. m.kind = "summary"
      BY <2>8 DEF Summary, Msg
    <3> QED BY <3>1 DEF Numbered
  <2> QED BY <2>1, <2>2, <2>3, <2>4, <2>5, <2>6, <2>7, <2>8 DEF Origin
<1> QED BY <1>2 DEF Numbers

LEMMA GistsStep ==
  ASSUME Types, Gists, Follows, Steers, [Next]_vars
  PROVE  Gists'
<1>1. /\ nSum \in Nat /\ Len(gist) = nSum /\ gist \in Seq(SUBSET Message)
      /\ messages \in Seq(Message) /\ pending \in Seq(Message) /\ followQ \in Seq(Message)
      /\ snapshot \in Seq(Message) /\ job \in Seq(Message)
      /\ Known(messages) /\ Known(snapshot) /\ Known(job) /\ Known(<<>>)
      /\ Elements(messages) \subseteq Message
  BY NoMessages, SeqParts DEF Types, TypeHistory, TypeQueues, TypeCompact, Gists, Known
<1>2. Merge \/ UNCHANGED <<nSum, gist>>
  <2>1. CASE Turns
    BY <2>1 DEF Turns, AppendPrompt, BeginTurns, TurnStart, TurnCancelled, StreamOnce, StreamDone, compactVars
  <2>2. CASE Callers
    BY <2>2 DEF Callers, Start, SetTurnContext, Steer, FollowUp, Cancel, compactVars
  <2>3. CASE Errors \/ Batch
    BY <2>3 DEF Errors, StreamError, RetryWait, Batch, WorkerDequeues, ExecuteTools, LateWorker, compactVars
  <2>4. CASE TurnEnds \/ RunEnd
    BY <2>4 DEF TurnEnds, EnforceMessageCap, MaybeCompact, LaunchCompaction, NextTurn, RunEnd,
                DequeueFollow, EmitAgentEnd, Finish, compactVars
  <2>5. CASE Compaction
    BY <2>5, MergeStep DEF Compaction, CompactFailed, EmitCompact
  <2> QED BY <2>1, <2>2, <2>3, <2>4, <2>5, Steps DEF vars
<1>3. nSum' \in Nat /\ nSum' >= nSum
  BY <1>1, <1>2 DEF Merge
<1>4. Len(gist') = nSum'
  <2>1. CASE Merge
    <3>1. gist' = Append(gist, Gist(job)) /\ nSum' = nSum + 1
      BY <2>1 DEF Merge
    <3>2. Gist(job) \in SUBSET Message
      BY GistTypes
    <3> DEFINE S == SUBSET Message
    <3>3. gist \in Seq(S) /\ Gist(job) \in S
      BY <1>1, <3>2
    <3> HIDE DEF S
    <3>4. Len(Append(gist, Gist(job))) = Len(gist) + 1
      BY <3>3, AppendProperties
    <3> QED BY <1>1, <3>1, <3>4
  <2> QED BY <1>1, <1>2, <2>1
<1>5. ASSUME NEW s, Known(s)
      PROVE  \A m \in Elements(s) : m.kind = "summary" => m.n \in 1..nSum'
  <2>1. \A m \in Elements(s) : m.kind = "summary" => m.n \in 1..nSum
    BY <1>5 DEF Known
  <2> QED BY <1>1, <1>3, <2>1
<1>6. \A m \in Elements(messages') : m.kind = "summary" => m.n \in 1..nSum'
  <2> SUFFICES ASSUME NEW m \in Elements(messages'), m.kind = "summary"
               PROVE  m.n \in 1..nSum'
    OBVIOUS
  <2>1. Origin(m) /\ m \in Message
    BY Origins, SeqParts DEF TypeHistory
  <2>2. ~(m \in Elements(pending)) /\ ~(m \in Elements(followQ))
    BY DEF Follows, Steers, SteerLine, Line
  <2>3. ~Answer(m)
    BY <2>1, MadeNumbers
  <2>4. m # Msg("prompt", runs, 0) /\ \A k \in 1..hadCalls : m # Msg("tool", nAsst, k)
    BY DEF Msg
  <2>5. CASE Merge /\ m = Summary
    <3>1. m.n = nSum + 1 /\ nSum' = nSum + 1
      BY <2>5, MadeNumbers DEF Merge
    <3> QED BY <1>1, <3>1
  <2>6. CASE m \in Elements(messages)
    BY <1>1, <1>5, <2>6
  <2> QED BY <2>1, <2>2, <2>3, <2>4, <2>5, <2>6 DEF Origin
<1>7. /\ snapshot' \in {snapshot, messages, <<>>} /\ job' \in {job, snapshot, <<>>}
  <2>1. CASE Turns
    BY <2>1 DEF Turns, AppendPrompt, BeginTurns, TurnStart, TurnCancelled, StreamOnce, StreamDone, compactVars
  <2>2. CASE Callers
    BY <2>2 DEF Callers, Start, SetTurnContext, Steer, FollowUp, Cancel, compactVars
  <2>3. CASE Errors \/ Batch
    BY <2>3 DEF Errors, StreamError, RetryWait, Batch, WorkerDequeues, ExecuteTools, LateWorker, compactVars
  <2>4. CASE TurnEnds \/ RunEnd
    BY <2>4 DEF TurnEnds, EnforceMessageCap, MaybeCompact, LaunchCompaction, NextTurn, RunEnd,
                DequeueFollow, EmitAgentEnd, Finish, compactVars
  <2>5. CASE Compaction
    BY <2>5 DEF Compaction, CompactDone, CompactFailed, EmitCompact
  <2> QED BY <2>1, <2>2, <2>3, <2>4, <2>5, Steps DEF vars
<1>8. /\ \A m \in Elements(snapshot') : m.kind = "summary" => m.n \in 1..nSum'
      /\ \A m \in Elements(job') : m.kind = "summary" => m.n \in 1..nSum'
  BY <1>1, <1>5, <1>7
<1> QED BY <1>4, <1>6, <1>8 DEF Gists, Known

-----------------------------------------------------------------------------
(* Queues.                                                                  *)

LEMMA Queueing ==
  ASSUME NEW s \in Seq(Message), NEW q \in Seq(Message), NEW kind \in Kinds, NEW n \in Nat
  PROVE  /\ Line(<<>>, kind, n) /\ Older(s, <<>>, kind) /\ Older(<<>>, q, kind)
         /\ \A m \in Nat : Line(q, kind, n) /\ n <= m => Line(q, kind, m)
<1>1. Elements(<<>>) = {} /\ DOMAIN <<>> = {}
  BY NoMessages
<1>2. \A x \in Elements(q) : x.n \in Nat
  BY SeqParts DEF Message
<1> QED BY <1>1, <1>2 DEF Line, Older

LEMMA QueueUp ==
  ASSUME NEW q \in Seq(Message), NEW kind \in Kinds, NEW n \in Nat, Line(q, kind, n)
  PROVE  Line(Append(q, Msg(kind, n + 1, 0)), kind, n + 1)
<1> DEFINE x == Msg(kind, n + 1, 0)
           r == Append(q, x)
<1>1. x \in Message /\ x.kind = kind /\ x.n = n + 1
  BY Typed
<1> HIDE DEF x
<1>2. /\ Elements(r) = Elements(q) \union {x} /\ Len(q) \in Nat /\ DOMAIN q = 1..Len(q)
      /\ DOMAIN r = 1..(Len(q) + 1)
      /\ \A i \in DOMAIN q : r[i] = q[i]
      /\ r[Len(q) + 1] = x
  BY <1>1, AppendedElements
<1> HIDE DEF r
<1>3. \A m \in Elements(q) : m.kind = kind /\ m.n <= n /\ m.n \in Nat
  BY SeqParts DEF Line, Message
<1>4. \A m \in Elements(r) : m.kind = kind /\ m.n <= n + 1
  BY <1>1, <1>2, <1>3
<1>5. ASSUME NEW i \in DOMAIN r, NEW j \in DOMAIN r, i < j
      PROVE  r[i].n < r[j].n
  <2>1. i \in DOMAIN q
    BY <1>2, <1>5
  <2>2. CASE j \in DOMAIN q
    BY <1>2, <1>5, <2>1, <2>2 DEF Line
  <2>3. CASE j = Len(q) + 1
    <3>1. q[i] \in Elements(q)
      BY <2>1, SeqParts
    <3>2. r[i] = q[i] /\ r[j] = x
      BY <1>2, <2>1, <2>3
    <3> QED BY <1>1, <1>3, <3>1, <3>2
  <2> QED BY <1>2, <2>2, <2>3
<1>6. Line(r, kind, n + 1)
  BY <1>4, <1>5 DEF Line
<1> QED BY <1>6 DEF r, x

LEMMA QueueBehind ==
  ASSUME NEW s \in Seq(Message), NEW q \in Seq(Message), NEW kind \in Kinds, NEW n \in Nat,
         Older(s, q, kind), \A x \in Elements(s) : x.kind = kind => x.n <= n
  PROVE  Older(s, Append(q, Msg(kind, n + 1, 0)), kind)
<1>1. Msg(kind, n + 1, 0) \in Message /\ Msg(kind, n + 1, 0).n = n + 1
  BY Typed
<1>2. Elements(Append(q, Msg(kind, n + 1, 0))) = Elements(q) \union {Msg(kind, n + 1, 0)}
  BY <1>1, AppendedElements
<1>3. \A x \in Elements(s) : x.n \in Nat
  BY SeqParts DEF Message
<1> QED BY <1>1, <1>2, <1>3 DEF Older

\* The messages of a queue are distinct and in order.
LEMMA InLine ==
  ASSUME NEW q \in Seq(Message), NEW kind, NEW n, Line(q, kind, n)
  PROVE  Distinct(q) /\ Ordered(q)
<1>1. DOMAIN q \subseteq Int /\ \A i \in DOMAIN q : q[i].n \in Int
  <2>1. Len(q) \in Nat /\ DOMAIN q = 1..Len(q) /\ \A i \in DOMAIN q : q[i] \in Message
    BY SeqParts
  <2>2. \A m \in Message : m.n \in Int
    BY DEF Message
  <2> HIDE DEF Message
  <2> QED BY <2>1, <2>2
<1>2. ASSUME NEW i \in DOMAIN q, NEW j \in DOMAIN q, i # j
      PROVE  q[i] # q[j]
  <2>1. i < j \/ j < i
    BY <1>1, <1>2
  <2> QED BY <1>1, <2>1 DEF Line
<1> QED BY <1>2 DEF Line, Distinct, Ordered

LEMMA FollowsStep ==
  ASSUME Types, Numbers, Follows, Steers, [Next]_vars
  PROVE  Follows'
<1>1. /\ messages \in Seq(Message) /\ followQ \in Seq(Message) /\ "follow" \in Kinds
      /\ sentF \in Nat /\ messages' \in Seq(Message)
      /\ \A x \in Elements(messages') : Origin(x)
      /\ Line(followQ, "follow", sentF) /\ Older(messages, followQ, "follow")
  BY Given, Origins DEF Types, TypeHistory, TypeQueues, TypeRun, Follows, Kinds
<1>2. CASE DequeueFollow
  <2>1. followQ' = <<>> /\ sentF' = sentF
    BY <1>2 DEF DequeueFollow, counters
  <2> QED BY <1>1, <2>1, Queueing DEF Follows
<1>3. ASSUME ~DequeueFollow, NEW x \in Elements(messages'), x.kind = "follow"
      PROVE  x \in Elements(messages)
  <2>1. Origin(x) /\ x \in Message
    BY <1>1, SeqParts
  <2>2. ~(x \in Elements(pending))
    BY <1>3 DEF Steers, SteerLine, Line
  <2>3. ~Answer(x) /\ x # Summary
    BY <1>3, <2>1, MadeNumbers
  <2>4. x # Msg("prompt", runs, 0) /\ \A k \in 1..hadCalls : x # Msg("tool", nAsst, k)
    BY <1>3 DEF Msg
  <2> QED BY <1>3, <2>1, <2>2, <2>3, <2>4 DEF Origin
<1>4. ~DequeueFollow => Older(messages', followQ, "follow")
  BY <1>1, <1>3 DEF Older
<1>5. CASE FollowUp
  <2>1. followQ' = Append(followQ, Msg("follow", sentF + 1, 0)) /\ sentF' = sentF + 1 /\ messages' = messages
    BY <1>5 DEF FollowUp
  <2>2. \A x \in Elements(messages) : x.kind = "follow" => x.n <= sentF
    BY DEF Numbers, Numbered
  <2> QED BY <1>1, <2>1, <2>2, QueueUp, QueueBehind DEF Follows
<1>6. CASE UNCHANGED <<followQ, sentF>>
  <2>1. CASE ~DequeueFollow
    BY <1>1, <1>4, <1>6, <2>1 DEF Follows
  <2> QED BY <1>2, <2>1
<1>7. DequeueFollow \/ FollowUp \/ UNCHANGED <<followQ, sentF>>
  <2>1. CASE Callers
    BY <2>1 DEF Callers, Start, SetTurnContext, Steer, Cancel
  <2>2. CASE Turns
    BY <2>2 DEF Turns, AppendPrompt, BeginTurns, TurnStart, TurnCancelled, StreamOnce, StreamDone, counters
  <2>3. CASE Errors \/ Batch
    BY <2>3 DEF Errors, StreamError, RetryWait, Batch, WorkerDequeues, ExecuteTools, LateWorker, counters
  <2>4. CASE TurnEnds \/ RunEnd
    BY <2>4 DEF TurnEnds, EnforceMessageCap, MaybeCompact, LaunchCompaction, NextTurn, RunEnd,
                EmitAgentEnd, Finish, counters
  <2>5. CASE Compaction
    BY <2>5 DEF Compaction, CompactDone, CompactFailed, EmitCompact, counters
  <2> QED BY <2>1, <2>2, <2>3, <2>4, <2>5, Steps DEF vars
<1> QED BY <1>2, <1>5, <1>6, <1>7

-----------------------------------------------------------------------------
(* Steering messages.                                                       *)

\* The messages of s come before those that wait, and are older.
Before(s) ==
  /\ Older(s, steerQ, "steer") /\ Older(s, pending, "steer") /\ Older(s, fromTools, "steer")
  /\ \A b \in DOMAIN grabs : Older(s, grabs[b], "steer")

LEMMA BeforeHistory ==
  ASSUME Types, Steers, Places, Follows, [Next]_vars
  PROVE  \A q \in Seq(Message) :
            Older(messages, q, "steer") /\ (TurnStart => Older(pending, q, "steer"))
            => Older(messages', q, "steer")
<1>1. ASSUME NEW x \in Elements(messages'), x.kind = "steer"
      PROVE  x \in Elements(messages) \/ (TurnStart /\ x \in Elements(pending))
  <2>1. Origin(x) /\ x \in Message
    BY Origins, SeqParts DEF TypeHistory
  <2>2. ~(x \in Elements(followQ))
    BY <1>1 DEF Follows, Line
  <2>3. ~Answer(x) /\ x # Summary
    BY <1>1, <2>1, MadeNumbers
  <2>4. x # Msg("prompt", runs, 0) /\ \A k \in 1..hadCalls : x # Msg("tool", nAsst, k)
    BY <1>1 DEF Msg
  <2> QED BY <2>1, <2>2, <2>3, <2>4 DEF Origin
<1> QED BY <1>1 DEF Older

LEMMA SteersStep ==
  ASSUME Types, Numbers, Places, Steers, Follows, [Next]_vars
  PROVE  Steers'
<1>1. /\ messages \in Seq(Message) /\ steerQ \in Seq(Message) /\ pending \in Seq(Message)
      /\ fromTools \in Seq(Message) /\ "steer" \in Kinds
      /\ sentS \in Nat /\ messages' \in Seq(Message) /\ <<>> \in Seq(Message)
      /\ \A b \in DOMAIN grabs : grabs[b] \in Seq(Message)
  BY Given, Origins, NoMessages, GrabTypes
     DEF Types, TypeHistory, TypeQueues, TypeRun, Kinds
<1>2. /\ \A q \in Seq(Message) : Older(messages, q, "steer") /\ ~TurnStart => Older(messages', q, "steer")
      /\ \A q \in Seq(Message) : Older(messages, q, "steer") /\ Older(pending, q, "steer")
                                    => Older(messages', q, "steer")
  BY BeforeHistory
<1>3. /\ \A s \in Seq(Message) : Older(s, <<>>, "steer") /\ Older(<<>>, s, "steer")
      /\ \A n \in Nat : Line(<<>>, "steer", n)
      /\ DOMAIN <<>> = {}
  BY <1>1, Queueing, NoMessages
<1>4. /\ Line(steerQ, "steer", sentS) /\ Line(pending, "steer", sentS) /\ Line(fromTools, "steer", sentS)
      /\ \A b \in DOMAIN grabs : Line(grabs[b], "steer", sentS)
      /\ Older(messages, steerQ, "steer") /\ Older(messages, pending, "steer")
      /\ Older(messages, fromTools, "steer")
      /\ \A b \in DOMAIN grabs : Older(messages, grabs[b], "steer")
      /\ Older(pending, steerQ, "steer") /\ Older(fromTools, steerQ, "steer")
      /\ \A b \in DOMAIN grabs : Older(grabs[b], steerQ, "steer")
      /\ \A b, c \in DOMAIN grabs : b < c => Older(grabs[b], grabs[c], "steer")
  BY DEF Steers, SteerLine
<1>5. ASSUME ~TurnStart, UNCHANGED <<steerQ, pending, fromTools, grabs, sentS>>
      PROVE  Steers'
  BY <1>1, <1>2, <1>4, <1>5 DEF Steers, SteerLine
<1>6. CASE Steer
  <2>1. /\ steerQ' = Append(steerQ, Msg("steer", sentS + 1, 0)) /\ sentS' = sentS + 1
        /\ UNCHANGED <<messages, pending, fromTools, grabs>>
    BY <1>6 DEF Steer, runVars
  <2>2. Line(steerQ', "steer", sentS')
    BY <1>1, <1>4, <2>1, QueueUp
  <2>3. ASSUME NEW q \in Seq(Message), Line(q, "steer", sentS)
        PROVE  /\ Line(q, "steer", sentS')
               /\ Older(q, steerQ, "steer") => Older(q, steerQ', "steer")
    <3>1. Line(q, "steer", sentS + 1)
      <4>1. sentS + 1 \in Nat /\ sentS <= sentS + 1
        BY <1>1
      <4> QED BY <1>1, <2>3, <4>1, Queueing
    <3>2. \A x \in Elements(q) : x.kind = "steer" => x.n <= sentS
      BY <2>3 DEF Line
    <3> QED BY <1>1, <2>1, <3>1, <3>2, QueueBehind
  <2>4. Older(messages, steerQ', "steer")
    <3>1. \A x \in Elements(messages) : x.kind = "steer" => x.n <= sentS
      BY DEF Numbers, Numbered
    <3> QED BY <1>1, <1>4, <2>1, <3>1, QueueBehind
  <2>5. /\ Line(pending, "steer", sentS') /\ Line(fromTools, "steer", sentS')
        /\ \A b \in DOMAIN grabs : Line(grabs[b], "steer", sentS')
        /\ Older(pending, steerQ', "steer") /\ Older(fromTools, steerQ', "steer")
        /\ \A b \in DOMAIN grabs : Older(grabs[b], steerQ', "steer")
    BY <1>1, <1>4, <2>3
  <2> QED BY <1>4, <2>1, <2>2, <2>4, <2>5 DEF Steers, SteerLine
<1>7. CASE BeginTurns
  <2>1. pending' = steerQ /\ steerQ' = <<>> /\ UNCHANGED <<messages, fromTools, grabs, sentS>>
    BY <1>7 DEF BeginTurns, counters
  <2> QED BY <1>1, <1>3, <1>4, <2>1 DEF Steers, SteerLine
<1>8. CASE TurnStart
  <2>1. /\ pending' = <<>> /\ UNCHANGED <<steerQ, fromTools, grabs, sentS>> /\ fromTools = <<>>
        /\ grabs = <<>>
    BY <1>8 DEF TurnStart, Places, counters
  <2> QED BY <1>1, <1>2, <1>3, <1>4, <2>1 DEF Steers, SteerLine
<1>9. CASE TurnCancelled
  <2>1. pending' = <<>> /\ UNCHANGED <<messages, steerQ, fromTools, grabs, sentS>>
    BY <1>9 DEF TurnCancelled, counters
  <2> QED BY <1>1, <1>3, <1>4, <2>1 DEF Steers, SteerLine
<1>10. CASE StreamDone
  <2>1. fromTools' = <<>> /\ ~TurnStart /\ UNCHANGED <<steerQ, pending, grabs, sentS>>
    BY <1>10 DEF StreamDone, TurnStart, counters
  <2> QED BY <1>1, <1>2, <1>3, <1>4, <2>1 DEF Steers, SteerLine
<1>11. CASE WorkerDequeues
  <2>1. /\ grabs' = Append(grabs, steerQ) /\ steerQ' = <<>>
        /\ UNCHANGED <<messages, pending, fromTools, sentS>>
    BY <1>11 DEF WorkerDequeues, runVars, counters
  <2>2. /\ Len(grabs) \in Nat /\ DOMAIN grabs = 1..Len(grabs) /\ DOMAIN grabs' = 1..(Len(grabs) + 1)
        /\ \A b \in DOMAIN grabs : grabs'[b] = grabs[b]
        /\ grabs'[Len(grabs) + 1] = steerQ
    <3> DEFINE S == Seq(Message)
    <3>1. grabs \in Seq(S) /\ steerQ \in S
      BY <1>1 DEF Types, TypeQueues
    <3> HIDE DEF S
    <3>2. /\ Append(grabs, steerQ) \in Seq(S) /\ Len(Append(grabs, steerQ)) = Len(grabs) + 1
          /\ \A b \in 1..Len(grabs) : Append(grabs, steerQ)[b] = grabs[b]
          /\ Append(grabs, steerQ)[Len(grabs) + 1] = steerQ
      BY <3>1, AppendProperties
    <3>3. Len(grabs) \in Nat /\ DOMAIN grabs = 1..Len(grabs)
      BY <3>1, LenProperties
    <3>4. DOMAIN Append(grabs, steerQ) = 1..(Len(grabs) + 1)
      BY <3>2, LenProperties
    <3> QED BY <2>1, <3>2, <3>3, <3>4
  <2>3. \A b \in DOMAIN grabs' : b \in DOMAIN grabs \/ b = Len(grabs) + 1
    BY <2>2
  <2>4. \A b \in DOMAIN grabs' : Line(grabs'[b], "steer", sentS) /\ Older(messages, grabs'[b], "steer")
    BY <1>4, <2>2, <2>3
  <2>5. \A b \in DOMAIN grabs' : Older(grabs'[b], <<>>, "steer")
    BY <1>1, <1>3, <2>2, <2>3
  <2>6. ASSUME NEW b \in DOMAIN grabs', NEW c \in DOMAIN grabs', b < c
        PROVE  Older(grabs'[b], grabs'[c], "steer")
    <3>1. b \in DOMAIN grabs
      BY <2>2, <2>6
    <3> QED BY <1>4, <2>2, <2>3, <2>6, <3>1
  <2> QED BY <1>1, <1>3, <1>4, <2>1, <2>4, <2>5, <2>6 DEF Steers, SteerLine
<1>12. CASE ExecuteTools
  <2>1. /\ grabs' = <<>> /\ fromTools' \in Elements(grabs) \union {<<>>} /\ ~TurnStart
        /\ UNCHANGED <<steerQ, pending, sentS>>
    BY <1>12 DEF ExecuteTools, TurnStart, counters
  <2>2. /\ Line(fromTools', "steer", sentS) /\ Older(fromTools', steerQ, "steer")
        /\ Older(messages, fromTools', "steer") /\ fromTools' \in Seq(Message)
    BY <1>1, <1>3, <1>4, <2>1 DEF Elements
  <2> QED BY <1>1, <1>2, <1>3, <1>4, <2>1, <2>2 DEF Steers, SteerLine
<1>13. CASE LateWorker
  <2>1. steerQ' \in {steerQ, <<>>} /\ UNCHANGED <<messages, pending, fromTools, grabs, sentS>>
    BY <1>13 DEF LateWorker, runVars, counters
  <2> QED BY <1>1, <1>3, <1>4, <2>1 DEF Steers, SteerLine
<1>14. CASE NextTurn
  <2>1. /\ fromTools' = <<>> /\ UNCHANGED <<messages, grabs, sentS>>
        /\ \/ UNCHANGED <<pending, steerQ>>
           \/ pending' = fromTools /\ steerQ' = steerQ
           \/ pending' = steerQ /\ steerQ' = <<>>
    BY <1>14 DEF NextTurn, counters
  <2>2. CASE UNCHANGED <<pending, steerQ>>
    BY <1>1, <1>3, <1>4, <2>1, <2>2 DEF Steers, SteerLine
  <2>3. CASE pending' = fromTools /\ steerQ' = steerQ
    BY <1>1, <1>3, <1>4, <2>1, <2>3 DEF Steers, SteerLine
  <2>4. CASE pending' = steerQ /\ steerQ' = <<>>
    BY <1>1, <1>3, <1>4, <2>1, <2>4 DEF Steers, SteerLine
  <2> QED BY <2>1, <2>2, <2>3, <2>4
<1>15. CASE Callers
  <2>1. CASE Start \/ SetTurnContext \/ FollowUp \/ Cancel
    <3>1. ~TurnStart /\ UNCHANGED <<steerQ, pending, fromTools, grabs, sentS>>
      BY <2>1 DEF Start, SetTurnContext, FollowUp, Cancel, TurnStart, runVars
    <3> QED BY <1>5, <3>1
  <2> QED BY <1>6, <1>15, <2>1 DEF Callers
<1>16. CASE AppendPrompt \/ StreamOnce \/ Errors
  <2>1. ~TurnStart /\ UNCHANGED <<steerQ, pending, fromTools, grabs, sentS>>
    BY <1>16 DEF AppendPrompt, StreamOnce, Errors, StreamError, RetryWait, TurnStart, runVars, counters
  <2> QED BY <1>5, <2>1
<1>17. CASE EnforceMessageCap \/ MaybeCompact \/ LaunchCompaction \/ RunEnd
  <2>1. ~TurnStart /\ UNCHANGED <<steerQ, pending, fromTools, grabs, sentS>>
    BY <1>17 DEF EnforceMessageCap, MaybeCompact, LaunchCompaction, RunEnd, DequeueFollow,
                 EmitAgentEnd, Finish, TurnStart, runVars, counters
  <2> QED BY <1>5, <2>1
<1>18. CASE Compaction
  <2>1. UNCHANGED <<steerQ, pending, fromTools, grabs, sentS, pc>>
    BY <1>18 DEF Compaction, CompactDone, CompactFailed, EmitCompact, runVars, counters
  <2>2. ~TurnStart
    BY <2>1 DEF TurnStart, Goto
  <2> QED BY <1>5, <2>1, <2>2
<1>19. CASE UNCHANGED vars
  <2>1. UNCHANGED <<steerQ, pending, fromTools, grabs, sentS, pc>>
    BY <1>19 DEF vars
  <2>2. ~TurnStart
    BY <2>1 DEF TurnStart, Goto
  <2> QED BY <1>5, <2>1, <2>2
<1> QED BY <1>7, <1>8, <1>9, <1>10, <1>11, <1>12, <1>13, <1>14, <1>15, <1>16, <1>17, <1>18, <1>19,
           Steps DEF Turns, Batch, TurnEnds

-----------------------------------------------------------------------------
(* The history: nothing twice, everything in order.                         *)

Fresh(new) ==
  /\ Distinct(new) /\ Ordered(new)
  /\ \A x \in Elements(messages), y \in Elements(new) :
        x # y /\ (x.kind = y.kind /\ x.kind \in Sent => x.n < y.n)

LEMMA FreshHistory ==
  ASSUME Types, History, NEW new \in Seq(Message), Extend(new), Fresh(new)
  PROVE  History'
<1>1. messages \in Seq(Message) /\ messages' = messages \o new
  BY DEF Types, TypeHistory, Extend
<1>2. Distinct(messages') /\ Ordered(messages')
  BY <1>1, DistinctJoined, OrderedJoined DEF History, Fresh
<1> QED BY <1>2 DEF History

LEMMA FreshMessage ==
  ASSUME NEW m \in Message,
         \A x \in Elements(messages) : x # m /\ (x.kind = m.kind /\ x.kind \in Sent => x.n < m.n)
  PROVE  <<m>> \in Seq(Message) /\ Fresh(<<m>>)
<1>1. <<m>> \in Seq(Message) /\ DOMAIN <<m>> = 1..1 /\ Elements(<<m>>) = {m}
  BY OneMessage
<1>2. Distinct(<<m>>) /\ Ordered(<<m>>)
  BY <1>1 DEF Distinct, Ordered
<1> QED BY <1>1, <1>2 DEF Fresh

LEMMA FreshLine ==
  ASSUME Types, NEW q \in Seq(Message), NEW kind, NEW n, Line(q, kind, n), Older(messages, q, kind)
  PROVE  Fresh(q)
<1>1. \A x \in Elements(messages) : x.n \in Nat
  BY SeqParts DEF Types, TypeHistory, Message
<1>2. \A x \in Elements(messages), y \in Elements(q) : x.kind = y.kind => x.n < y.n
  BY DEF Line, Older
<1>3. \A x \in Elements(messages), y \in Elements(q) : x # y
  BY <1>1, <1>2
<1> QED BY <1>2, <1>3, InLine DEF Fresh

LEMMA HistoryStep ==
  ASSUME Types, Numbers, Gists, Follows, Steers, History, [Next]_vars
  PROVE  History'
<1>1. /\ messages \in Seq(Message) /\ pending \in Seq(Message) /\ followQ \in Seq(Message)
      /\ runs \in Nat /\ nAsst \in Nat /\ nSum \in Nat
      /\ Len(messages) \in Nat /\ DOMAIN messages = 1..Len(messages)
      /\ Distinct(messages) /\ Ordered(messages)
      /\ \A x \in Elements(messages) : Numbered(x) /\ x \in Message
      /\ \A i \in DOMAIN messages : messages[i] \in Elements(messages)
  BY SeqParts DEF Types, TypeHistory, TypeQueues, TypeRun, TypeCompact, History, Numbers
<1>2. CASE UNCHANGED messages
  BY <1>2 DEF History
<1>3. CASE AppendPrompt
  <2> DEFINE m == Msg("prompt", runs, 0)
  <2>1. m \in Message /\ Extend(<<m>>) /\ m.kind = "prompt" /\ m.n = runs
    BY <1>3, Made, Additions DEF Msg
  <2>2. pc = "prompt"
    BY <1>3 DEF AppendPrompt
  <2> HIDE DEF m
  <2>3. \A x \in Elements(messages) : x.kind = "prompt" => x.n < runs
    BY <1>1, <2>2 DEF Numbered
  <2>4. \A x \in Elements(messages) : x # m /\ (x.kind = m.kind /\ x.kind \in Sent => x.n < m.n)
    BY <1>1, <2>1, <2>3
  <2> QED BY <2>1, <2>4, FreshMessage, FreshHistory
<1>4. CASE TurnStart
  <2>1. Extend(pending) /\ Line(pending, "steer", sentS) /\ Older(messages, pending, "steer")
    BY <1>4, Additions DEF Steers, SteerLine
  <2> QED BY <1>1, <2>1, FreshLine, FreshHistory
<1>5. CASE StreamDone
  <2>1. PICK m \in Message : Answer(m) /\ Extend(<<m>>)
    BY <1>5, Additions
  <2>2. m.kind \in {"asst", "failed"} /\ m.n = nAsst + 1
    BY <2>1, MadeNumbers
  <2>3. \A x \in Elements(messages) : x.kind \in {"asst", "failed"} => x.n <= nAsst
    BY <1>1 DEF Numbered
  <2>4. \A x \in Elements(messages) : x # m /\ (x.kind = m.kind /\ x.kind \in Sent => x.n < m.n)
    BY <1>1, <2>2, <2>3 DEF Sent
  <2> QED BY <2>1, <2>4, FreshMessage, FreshHistory
<1>6. CASE ExecuteTools
  <2>1. /\ Results \in Seq(Message) /\ Extend(Results)
        /\ DOMAIN Results = 1..hadCalls /\ \A k \in 1..hadCalls : Results[k] = Msg("tool", nAsst, k)
    BY <1>6, Made, Additions
  <2>2. \A k \in 1..hadCalls : Results[k].kind = "tool" /\ Results[k].n = nAsst /\ Results[k].call = k
    BY <2>1 DEF Msg
  <2>3. \A y \in Elements(Results) : y.kind = "tool" /\ y.n = nAsst
    BY <2>1, <2>2 DEF Elements
  <2>4. pc = "tools"
    BY <1>6 DEF ExecuteTools
  <2>5. \A x \in Elements(messages) : x.kind = "tool" => x.n < nAsst
    BY <1>1, <2>4 DEF Numbered
  <2>6. Distinct(Results) /\ Ordered(Results)
    BY <2>1, <2>2 DEF Distinct, Ordered, Sent
  <2>7. \A x \in Elements(messages), y \in Elements(Results) :
           x # y /\ (x.kind = y.kind /\ x.kind \in Sent => x.n < y.n)
    BY <1>1, <2>3, <2>5 DEF Sent
  <2> QED BY <2>1, <2>6, <2>7, FreshHistory DEF Fresh
<1>7. CASE DequeueFollow
  <2>1. Extend(followQ) /\ Line(followQ, "follow", sentF) /\ Older(messages, followQ, "follow")
    BY <1>7, Additions DEF Follows
  <2> QED BY <1>1, <2>1, FreshLine, FreshHistory
<1>8. ASSUME NEW k \in 1..(Len(messages) - 1), Cut(k)
      PROVE  History'
  <2>1. /\ messages' = Front(messages[1], messages, k) /\ k \in 0..Len(messages) /\ k >= 1
        /\ 1 \in DOMAIN messages
    BY <1>1, <1>8 DEF Cut
  <2>2. messages[1] \in Message
    BY <1>1, <2>1
  <2>3. \A j \in DOMAIN messages : j > k => j # 1 /\ 1 < j
    BY <1>1, <2>1
  <2>4. \A j \in DOMAIN messages : j > k => messages[j] # messages[1]
    BY <1>1, <2>1, <2>3 DEF Distinct
  <2>5. \A j \in DOMAIN messages :
           j > k /\ messages[j].kind = messages[1].kind /\ messages[1].kind \in Sent
           => messages[1].n < messages[j].n
    BY <1>1, <2>1, <2>3 DEF Ordered
  <2>6. Distinct(messages')
    BY <1>1, <2>1, <2>2, <2>4, DistinctFronted
  <2>7. Ordered(messages')
    BY <1>1, <2>1, <2>2, <2>5, OrderedFronted
  <2> QED BY <2>6, <2>7 DEF History
<1>9. CASE Merge
  <2>1. /\ messages' = Front(Summary, messages, Len(job)) /\ Len(job) \in 0..Len(messages)
        /\ Summary \in Message /\ Summary.kind = "summary" /\ Summary.n = nSum + 1
    BY <1>9, Made, MadeNumbers DEF Merge
  <2>2. \A x \in Elements(messages) : x.kind = "summary" => x.n \in 1..nSum
    BY DEF Gists, Known
  <2>3. \A x \in Elements(messages) : x # Summary
    BY <1>1, <2>1, <2>2
  <2>4. Distinct(messages')
    BY <1>1, <2>1, <2>3, DistinctFronted
  <2>5. \A j \in DOMAIN messages :
           j > Len(job) /\ messages[j].kind = Summary.kind /\ Summary.kind \in Sent
           => Summary.n < messages[j].n
    BY <2>1 DEF Sent
  <2>6. Ordered(messages')
    BY <1>1, <2>1, <2>5, OrderedFronted
  <2> QED BY <2>4, <2>6 DEF History
<1> QED BY <1>2, <1>3, <1>4, <1>5, <1>6, <1>7, <1>8, <1>9, Writers

-----------------------------------------------------------------------------
(* Calls and results.                                                       *)

\* A message keeps its place when the history is extended.
LEMMA InPlace ==
  ASSUME NEW s \in Seq(Message), NEW t \in Seq(Message), Len(s) <= Len(t),
         \A j \in DOMAIN s : t[j] = s[j], NEW i \in DOMAIN s
  PROVE  /\ i \in DOMAIN t
         /\ BehindAt(s, i) => BehindAt(t, i)
         /\ Answered(s, i) => Answered(t, i)
<1>1. /\ Len(s) \in Nat /\ Len(t) \in Nat /\ DOMAIN s = 1..Len(s) /\ DOMAIN t = 1..Len(t)
      /\ s[i] \in Message
  BY SeqParts
<1>2. s[i].call \in Nat
  BY <1>1 DEF Message
<1>3. i \in DOMAIN t /\ t[i] = s[i] /\ i \in 1..Len(s)
  BY <1>1
<1>4. ASSUME s[i].kind = "tool", BehindAt(s, i)
      PROVE  BehindAt(t, i)
  <2>1. s[i].call \in 1..(i - 1)
    BY <1>4 DEF BehindAt
  <2>2. i - s[i].call \in 1..Len(s)
    BY <1>1, <1>3, <2>1
  <2>3. t[i - s[i].call] = s[i - s[i].call]
    BY <1>1, <2>2
  <2> QED BY <1>3, <1>4, <2>3 DEF BehindAt
<1>5. ASSUME s[i].kind = "asst", Answered(s, i)
      PROVE  Answered(t, i)
  <2>1. i + s[i].call <= Len(s) /\ \A k \in 1..s[i].call : s[i + k] = Msg("tool", s[i].n, k)
    BY <1>5 DEF Answered
  <2>2. \A k \in 1..s[i].call : i + k \in 1..Len(s)
    BY <1>1, <1>2, <1>3, <2>1
  <2>3. \A k \in 1..s[i].call : t[i + k] = Msg("tool", s[i].n, k)
    BY <1>1, <2>1, <2>2
  <2>4. i + s[i].call <= Len(t)
    BY <1>1, <1>2, <1>3, <2>1
  <2> QED BY <1>3, <2>3, <2>4 DEF Answered
<1>6. s[i].kind # "tool" => BehindAt(t, i)
  BY <1>3 DEF BehindAt
<1>7. s[i].kind # "asst" => Answered(t, i)
  BY <1>3 DEF Answered
<1> QED BY <1>3, <1>4, <1>5, <1>6, <1>7

\* A message keeps its company when the history before it is merged.
LEMMA Shifted ==
  ASSUME NEW s \in Seq(Message), NEW t \in Seq(Message), NEW k \in 0..Len(s),
         Len(t) = Len(s) - k + 1,
         \A j \in DOMAIN s : j > k => j - k + 1 \in DOMAIN t /\ t[j - k + 1] = s[j],
         NEW p \in DOMAIN s, p > k
  PROVE  /\ Answered(s, p) => Answered(t, p - k + 1)
         /\ BehindAt(s, p) /\ (s[p].kind = "tool" => p - s[p].call > k) => BehindAt(t, p - k + 1)
<1> DEFINE i == p - k + 1
<1>1. /\ Len(s) \in Nat /\ DOMAIN s = 1..Len(s) /\ s[p] \in Message /\ t[i] = s[p]
  BY SeqParts
<1>2. i \in Int /\ k \in Int /\ p \in Int /\ p \in 1..Len(s) /\ i = p - k + 1
  BY <1>1
<1>3. s[p].call \in Nat
  BY <1>1 DEF Message
<1> HIDE DEF i
<1>4. ASSUME s[p].kind = "asst", Answered(s, p)
      PROVE  Answered(t, i)
  <2>1. p + s[p].call <= Len(s) /\ \A c \in 1..s[p].call : s[p + c] = Msg("tool", s[p].n, c)
    BY <1>4 DEF Answered
  <2>2. ASSUME NEW c \in 1..s[p].call
        PROVE  t[i + c] = Msg("tool", s[p].n, c)
    <3>1. p + c \in 1..Len(s) /\ p + c > k /\ p + c - k + 1 = i + c
      <4>1. \A a, l, d \in Nat : \A b \in 1..d :
               a + d <= l /\ a > k => a + b \in Nat /\ a + b >= 1 /\ a + b <= l /\ a + b > k
                                     /\ a + b - k + 1 = a - k + 1 + b
        BY <1>2
      <4> DEFINE d == s[p].call
                 l == Len(s)
      <4>2. d \in Nat /\ l \in Nat /\ p \in Nat /\ c \in 1..d /\ p + d <= l /\ p > k /\ i = p - k + 1
        BY <1>1, <1>2, <1>3, <2>1
      <4> HIDE DEF d, l
      <4>3. p + c \in Nat /\ p + c >= 1 /\ p + c <= l /\ p + c > k /\ p + c - k + 1 = p - k + 1 + c
        BY <4>1, <4>2
      <4> QED BY <4>2, <4>3 DEF l
    <3>2. t[p + c - k + 1] = s[p + c]
      <4> DEFINE j == p + c
      <4>1. j \in DOMAIN s /\ j > k
        BY <1>1, <3>1
      <4> HIDE DEF j
      <4>2. t[j - k + 1] = s[j]
        BY <4>1
      <4> QED BY <4>2 DEF j
    <3> QED BY <2>1, <3>1, <3>2
  <2>3. i + s[p].call <= Len(t)
    BY <1>1, <1>2, <1>3, <2>1
  <2> QED BY <1>1, <2>2, <2>3 DEF Answered
<1>5. ASSUME s[p].kind = "tool", BehindAt(s, p), p - s[p].call > k
      PROVE  BehindAt(t, i)
  <2>1. s[p].call \in 1..(p - 1)
    BY <1>5 DEF BehindAt
  <2>2. /\ p - s[p].call \in 1..Len(s) /\ p - s[p].call - k + 1 = i - s[p].call
        /\ s[p].call \in 1..(i - 1)
    BY <1>1, <1>2, <1>3, <1>5, <2>1
  <2>3. t[i - s[p].call] = s[p - s[p].call]
    BY <1>1, <1>5, <2>2
  <2> QED BY <1>1, <1>5, <2>2, <2>3 DEF BehindAt
<1>6. s[p].kind # "asst" => Answered(t, i)
  BY <1>1 DEF Answered
<1>7. s[p].kind # "tool" => BehindAt(t, i)
  BY <1>1 DEF BehindAt
<1> QED BY <1>1, <1>4, <1>5, <1>6, <1>7 DEF i

LEMMA StaleStays ==
  ASSUME [Next]_vars, Types
  PROVE  stale => stale'
<1>1. CASE Turns
  BY <1>1 DEF Turns, AppendPrompt, BeginTurns, TurnStart, TurnCancelled, StreamOnce, StreamDone, compactVars
<1>2. CASE Callers
  BY <1>2 DEF Callers, Start, SetTurnContext, Steer, FollowUp, Cancel, compactVars
<1>3. CASE Errors \/ Batch
  BY <1>3 DEF Errors, StreamError, RetryWait, Batch, WorkerDequeues, ExecuteTools, LateWorker, compactVars
<1>4. CASE TurnEnds \/ RunEnd
  BY <1>4 DEF TurnEnds, EnforceMessageCap, MaybeCompact, LaunchCompaction, NextTurn, RunEnd,
              DequeueFollow, EmitAgentEnd, Finish, compactVars
<1>5. CASE Compaction
  BY <1>5 DEF Compaction, CompactDone, CompactFailed, EmitCompact
<1> QED BY <1>1, <1>2, <1>3, <1>4, <1>5, Steps DEF vars

\* The parts of Pairs, in a state and for a history of which they hold.
AllAnswered == \A i \in DOMAIN messages : (pc = "tools" /\ i = Len(messages)) \/ Answered(messages, i)
CallOpen == pc = "tools" => /\ Len(messages) > 0 /\ hadCalls > 0
                            /\ messages[Len(messages)] = Msg("asst", nAsst, hadCalls)
Good == Behind(messages) /\ JobInv /\ AllAnswered /\ CallOpen

LEMMA PairsParts == Pairs <=> (MaxMessages = 0 /\ ~stale => Good)
BY DEF Pairs, Good, AllAnswered, CallOpen

\* Extending the history, outside of a batch, by messages that ask and answer nothing.
LEMMA GoodExtended ==
  ASSUME Types, NEW new \in Seq(Message), Extend(new), UNCHANGED <<job, compactor>>, Good
  PROVE  /\ JobInv'
         /\ \A i \in DOMAIN messages : /\ i \in DOMAIN messages' /\ messages'[i] = messages[i]
                                       /\ BehindAt(messages', i)
                                       /\ Answered(messages, i) => Answered(messages', i)
         /\ \A j \in DOMAIN new : Len(messages) + j \in DOMAIN messages' /\ messages'[Len(messages) + j] = new[j]
         /\ \A i \in DOMAIN messages' : i \in DOMAIN messages \/ \E j \in DOMAIN new : i = Len(messages) + j
         /\ Len(messages') = Len(messages) + Len(new) /\ messages' \in Seq(Message)
<1>1. /\ messages \in Seq(Message) /\ messages' = messages \o new /\ job \in Seq(Message)
      /\ Behind(messages) /\ JobInv
  BY DEF Types, TypeHistory, TypeCompact, Extend, Good
<1>2. /\ Len(messages) \in Nat /\ Len(new) \in Nat /\ Len(job) \in Nat
      /\ DOMAIN messages = 1..Len(messages) /\ DOMAIN job = 1..Len(job)
  BY <1>1, SeqParts
<1>3. /\ messages' \in Seq(Message) /\ Len(messages') = Len(messages) + Len(new)
      /\ \A i \in DOMAIN messages : i \in DOMAIN messages' /\ messages'[i] = messages[i]
      /\ \A j \in DOMAIN new : Len(messages) + j \in DOMAIN messages' /\ messages'[Len(messages) + j] = new[j]
      /\ \A i \in DOMAIN messages' : i \in DOMAIN messages \/ i - Len(messages) \in DOMAIN new
      /\ DOMAIN messages' = 1..(Len(messages) + Len(new))
  BY <1>1, Joined
<1>4. \A i \in DOMAIN messages' : i = Len(messages) + (i - Len(messages))
  BY <1>2, <1>3
<1>5. Len(messages) <= Len(messages')
  BY <1>2, <1>3
<1>6. \A i \in DOMAIN messages : /\ BehindAt(messages', i)
                                 /\ Answered(messages, i) => Answered(messages', i)
  BY <1>1, <1>3, <1>5, InPlace DEF Behind
<1>7. JobInv'
  <2> SUFFICES ASSUME compactor = "working"
               PROVE  /\ Len(job) <= Len(messages')
                      /\ \A i \in 1..Len(job) : /\ messages'[i] = job[i]
                                                /\ job[i].kind = "asst" => i + job[i].call <= Len(job)
    BY DEF JobInv
  <2>1. Len(job) <= Len(messages) /\ \A i \in 1..Len(job) : /\ messages[i] = job[i]
                                                            /\ job[i].kind = "asst" => i + job[i].call <= Len(job)
    BY <1>1 DEF JobInv
  <2>2. \A i \in 1..Len(job) : i \in DOMAIN messages
    BY <1>2, <2>1
  <2>3. Len(job) <= Len(messages')
    BY <1>2, <1>3, <2>1
  <2> QED BY <1>3, <2>1, <2>2, <2>3
<1>8. \A i \in DOMAIN messages' : i \in DOMAIN messages \/ \E j \in DOMAIN new : i = Len(messages) + j
  BY <1>3, <1>4
<1>9. \A i \in DOMAIN messages : /\ i \in DOMAIN messages' /\ messages'[i] = messages[i]
                                 /\ BehindAt(messages', i)
                                 /\ Answered(messages, i) => Answered(messages', i)
  <2> TAKE i \in DOMAIN messages
  <2>1. i \in DOMAIN messages' /\ messages'[i] = messages[i]
    BY <1>3
  <2>2. BehindAt(messages', i) /\ (Answered(messages, i) => Answered(messages', i))
    BY <1>6
  <2> QED BY ONLY <2>1, <2>2
<1>10. \A j \in DOMAIN new : Len(messages) + j \in DOMAIN messages' /\ messages'[Len(messages) + j] = new[j]
  BY ONLY <1>3
<1>11. Len(messages') = Len(messages) + Len(new) /\ messages' \in Seq(Message)
  BY ONLY <1>3
<1> QED BY ONLY <1>7, <1>8, <1>9, <1>10, <1>11

LEMMA GoodWithPlain ==
  ASSUME Types, NEW new \in Seq(Message), Extend(new), UNCHANGED <<job, compactor>>, Good,
         pc # "tools", pc' # "tools", \A m \in Elements(new) : m.kind \notin {"asst", "tool"}
  PROVE  Good'
<1>1. /\ JobInv'
      /\ \A i \in DOMAIN messages : /\ BehindAt(messages', i)
                                    /\ Answered(messages, i) => Answered(messages', i)
      /\ \A j \in DOMAIN new : messages'[Len(messages) + j] = new[j]
      /\ \A i \in DOMAIN messages' : i \in DOMAIN messages \/ \E j \in DOMAIN new : i = Len(messages) + j
  BY GoodExtended
<1>2. \A i \in DOMAIN messages : Answered(messages, i)
  BY DEF Good, AllAnswered
<1>3. \A i \in DOMAIN messages' :
         i \in DOMAIN messages \/ messages'[i].kind \notin {"asst", "tool"}
  BY <1>1 DEF Elements
<1>4. \A i \in DOMAIN messages' : BehindAt(messages', i) /\ Answered(messages', i)
  BY <1>1, <1>2, <1>3 DEF BehindAt, Answered
<1> QED BY <1>1, <1>4 DEF Good, Behind, AllAnswered, CallOpen

LEMMA GoodStream ==
  ASSUME Types, StreamDone, Good
  PROVE  Good'
<1>1. PICK calls \in 0..MaxCalls, failed \in BOOLEAN :
         /\ nAsst' = nAsst + 1 /\ hadCalls' = calls
         /\ Extend(<<Msg(IF failed THEN "failed" ELSE "asst", nAsst + 1, calls)>>)
         /\ pc' = IF failed THEN "end" ELSE IF calls > 0 THEN "tools" ELSE "cap"
  BY DEF StreamDone, Goto
<1>2. pc = "streaming" /\ UNCHANGED <<job, compactor>>
  BY DEF StreamDone, compactVars
<1>3. CASE failed
  <2> DEFINE m == Msg("failed", nAsst + 1, calls)
  <2>1. m \in Message /\ m.kind = "failed" /\ Extend(<<m>>) /\ pc' = "end"
    BY <1>1, <1>3, Made DEF Msg
  <2> HIDE DEF m
  <2>2. <<m>> \in Seq(Message) /\ Elements(<<m>>) = {m}
    BY <2>1, OneMessage
  <2> QED BY <1>2, <2>1, <2>2, GoodWithPlain
<1>4. CASE ~failed
  <2> DEFINE m == Msg("asst", nAsst + 1, calls)
  <2>0. /\ Extend(<<m>>) /\ pc' = IF calls > 0 THEN "tools" ELSE "cap"
        /\ m = Msg("asst", nAsst', hadCalls') /\ hadCalls' = calls
    <3>1. (IF failed THEN "failed" ELSE "asst") = "asst"
      BY <1>4
    <3>2. Extend(<<m>>)
      BY <1>1, <3>1
    <3> QED BY <1>1, <1>4, <3>2
  <2>1. /\ m \in Message /\ m.kind = "asst" /\ m.n = nAsst + 1 /\ m.call = calls /\ calls \in Nat
    <3>1. m \in Message
      BY Made
    <3>2. m.kind = "asst" /\ m.n = nAsst + 1 /\ m.call = calls
      BY DEF Msg
    <3>3. calls \in Nat
      BY Given
    <3> QED BY <3>1, <3>2, <3>3
  <2> HIDE DEF m
  <2>2. /\ <<m>> \in Seq(Message) /\ Len(<<m>>) = 1 /\ DOMAIN <<m>> = 1..1 /\ <<m>>[1] = m
    BY <2>1, OneMessage
  <2> DEFINE new == <<m>>
  <2>3. new \in Seq(Message) /\ Extend(new) /\ Len(new) = 1 /\ DOMAIN new = 1..1 /\ new[1] = m
    BY <2>0, <2>2
  <2> HIDE DEF new
  <2>4. /\ JobInv'
        /\ \A i \in DOMAIN messages : /\ BehindAt(messages', i)
                                      /\ Answered(messages, i) => Answered(messages', i)
        /\ \A j \in DOMAIN new : messages'[Len(messages) + j] = new[j]
        /\ \A i \in DOMAIN messages' : i \in DOMAIN messages \/ \E j \in DOMAIN new : i = Len(messages) + j
        /\ Len(messages') = Len(messages) + Len(new)
    BY <1>2, <2>3, GoodExtended
  <2>5. /\ Len(messages) \in Nat /\ Len(messages') = Len(messages) + 1
        /\ messages'[Len(messages) + 1] = m
        /\ \A i \in DOMAIN messages' : i \in DOMAIN messages \/ i = Len(messages) + 1
    <3>1. Len(messages) \in Nat
      BY SeqParts DEF Types, TypeHistory
    <3> QED BY <2>3, <2>4, <3>1
  <2>6. \A i \in DOMAIN messages : Answered(messages, i)
    BY <1>2 DEF Good, AllAnswered
  <2>7. Behind(messages')
    BY <2>1, <2>4, <2>5 DEF Behind, BehindAt
  <2>8. calls = 0 => Answered(messages', Len(messages) + 1)
    BY <2>1, <2>5 DEF Answered
  <2>9. AllAnswered'
    <3>1. CASE calls > 0
      <4>1. pc' = "tools"
        BY <2>0, <3>1
      <4> QED BY <2>4, <2>5, <2>6, <4>1 DEF AllAnswered
    <3>2. CASE calls = 0
      BY <2>4, <2>5, <2>6, <2>8, <3>2 DEF AllAnswered
    <3> QED BY <2>1, <3>1, <3>2
  <2>10. CallOpen'
    BY <2>0, <2>1, <2>5 DEF CallOpen
  <2> QED BY <2>4, <2>7, <2>9, <2>10 DEF Good
<1> QED BY <1>3, <1>4

LEMMA GoodTools ==
  ASSUME Types, ExecuteTools, Good
  PROVE  Good'
<1>1. /\ pc = "tools" /\ pc' = "cap" /\ Extend(Results) /\ UNCHANGED <<job, compactor>>
  BY DEF ExecuteTools, Goto, Results, compactVars
<1>2. /\ Results \in Seq(Message) /\ DOMAIN Results = 1..hadCalls
      /\ \A k \in 1..hadCalls : Results[k] = Msg("tool", nAsst, k)
      /\ hadCalls \in Nat /\ Len(Results) = hadCalls
  BY Made, Given DEF Types, TypeRun
<1> DEFINE n == Len(messages)
           a == Msg("asst", nAsst, hadCalls)
<1>3. /\ n \in Nat /\ n > 0 /\ DOMAIN messages = 1..n /\ messages[n] = a
      /\ a.kind = "asst" /\ a.n = nAsst /\ a.call = hadCalls
      /\ \A i \in DOMAIN messages : i = n \/ Answered(messages, i)
  <2>1. Len(messages) \in Nat /\ DOMAIN messages = 1..Len(messages)
    BY SeqParts DEF Types, TypeHistory
  <2> QED BY <1>1, <2>1 DEF Good, CallOpen, AllAnswered, Msg
<1> HIDE DEF a
<1>4. /\ JobInv'
      /\ \A i \in DOMAIN messages : /\ i \in DOMAIN messages' /\ messages'[i] = messages[i]
                                    /\ BehindAt(messages', i)
                                    /\ Answered(messages, i) => Answered(messages', i)
      /\ \A k \in DOMAIN Results : messages'[n + k] = Results[k]
      /\ \A i \in DOMAIN messages' : i \in DOMAIN messages \/ \E k \in DOMAIN Results : i = n + k
      /\ Len(messages') = n + Len(Results)
  BY <1>1, <1>2, GoodExtended
<1> HIDE DEF n
<1>5. n \in DOMAIN messages /\ messages'[n] = a
  BY <1>3, <1>4
<1>6. \A k \in 1..hadCalls : /\ messages'[n + k] = Msg("tool", nAsst, k)
                             /\ messages'[n + k].kind = "tool" /\ messages'[n + k].n = nAsst
                             /\ messages'[n + k].call = k
  BY <1>2, <1>4 DEF Msg
<1>7. Answered(messages', n)
  <2>1. n + a.call <= Len(messages')
    BY <1>2, <1>3, <1>4
  <2>2. \A k \in 1..a.call : messages'[n + k] = Msg("tool", a.n, k)
    BY <1>3, <1>6
  <2> QED BY <1>5, <2>1, <2>2 DEF Answered
<1>8. ASSUME NEW k \in 1..hadCalls
      PROVE  BehindAt(messages', n + k) /\ Answered(messages', n + k)
  <2>1. n + k - k = n /\ k \in 1..(n + k - 1) /\ k <= hadCalls
    BY <1>2, <1>3
  <2>2. messages'[n + k - k] = a
    BY <1>5, <2>1
  <2> QED BY <1>3, <1>6, <2>1, <2>2 DEF BehindAt, Answered
<1>9. \A i \in DOMAIN messages' : BehindAt(messages', i) /\ Answered(messages', i)
  BY <1>2, <1>3, <1>4, <1>7, <1>8
<1> QED BY <1>1, <1>4, <1>9 DEF Good, Behind, AllAnswered, CallOpen

LEMMA GoodMerge ==
  ASSUME Types, Merge, Good, UNCHANGED <<pc, nAsst, hadCalls>>
  PROVE  Good'
<1> DEFINE n == Len(messages)
           J == Len(job)
           t == Front(Summary, messages, J)
<1>1. /\ compactor = "working" /\ J \in 0..n /\ messages' = t /\ compactor' = "exiting"
      /\ Summary \in Message /\ Summary.kind = "summary"
      /\ messages \in Seq(Message) /\ n \in Nat /\ DOMAIN messages = 1..n /\ hadCalls \in Nat
      /\ \A i \in DOMAIN messages : messages[i].call \in Nat
  <2>1. messages \in Seq(Message) /\ hadCalls \in Nat
    BY Given DEF Types, TypeHistory, TypeRun
  <2>2. n \in Nat /\ DOMAIN messages = 1..n /\ \A i \in DOMAIN messages : messages[i] \in Message
    BY <2>1, SeqParts
  <2>3. \A i \in DOMAIN messages : messages[i].call \in Nat
    BY <2>2 DEF Message
  <2> QED BY <2>1, <2>2, <2>3, Made, MadeNumbers DEF Merge
<1>2. /\ Behind(messages) /\ AllAnswered /\ CallOpen
      /\ \A i \in 1..J : messages[i].kind = "asst" => i + messages[i].call <= J
  BY <1>1 DEF Good, JobInv, J
<1>0. t = Front(Summary, messages, J) /\ n = Len(messages)
  OBVIOUS
<1> HIDE DEF n, J, t
<1>3. /\ Len(t) = n - J + 1 /\ DOMAIN t = 1..(n - J + 1) /\ t[1] = Summary /\ t \in Seq(Message)
      /\ \A i \in DOMAIN t : i # 1 => J + i - 1 \in DOMAIN messages /\ J + i - 1 > J
      /\ \A j \in DOMAIN messages : j > J => j - J + 1 \in DOMAIN t /\ t[j - J + 1] = messages[j]
  <2> DEFINE x == Summary
             m == messages
  <2>1. /\ m \in Seq(Message) /\ J \in 0..Len(m) /\ x \in Message
        /\ t = Front(x, m, J) /\ n = Len(m) /\ m = messages /\ x = Summary
    BY <1>0, <1>1
  <2> HIDE DEF x, m
  <2>2. Len(t) = Len(m) - J + 1 /\ t[1] = x /\ t \in Seq(Message)
    BY ONLY <2>1, FrontedAs
  <2>5. DOMAIN t = 1..Len(t)
    BY ONLY <2>2, SeqParts
  <2>3. \A i \in DOMAIN t : i # 1 => J + i - 1 \in DOMAIN m /\ J + i - 1 > J
    <3> SUFFICES ASSUME NEW i \in DOMAIN t, i # 1
                 PROVE  J + i - 1 \in DOMAIN m /\ J + i - 1 > J
      OBVIOUS
    <3> QED BY <2>1, FrontedFrom
  <2>4. \A j \in DOMAIN m : j > J => j - J + 1 \in DOMAIN t /\ t[j - J + 1] = m[j]
    <3> SUFFICES ASSUME NEW j \in DOMAIN m, j > J
                 PROVE  j - J + 1 \in DOMAIN t /\ t[j - J + 1] = m[j]
      OBVIOUS
    <3> QED BY <2>1, FrontedKeeps
  <2> QED BY ONLY <2>1, <2>2, <2>3, <2>4, <2>5
\* A batch that is open is beyond the job.
<1>4. pc = "tools" => n > J /\ n > 0 /\ messages[n] = Msg("asst", nAsst, hadCalls)
  <2> SUFFICES ASSUME pc = "tools"
               PROVE  n > J /\ n > 0 /\ messages[n] = Msg("asst", nAsst, hadCalls)
    OBVIOUS
  <2>1. n > 0 /\ hadCalls > 0 /\ messages[n] = Msg("asst", nAsst, hadCalls)
    BY <1>2 DEF CallOpen, n
  <2>2. messages[n].kind = "asst" /\ messages[n].call = hadCalls
    BY <2>1 DEF Msg
  <2>3. n \in 1..J => n + hadCalls <= J
    BY <1>2, <2>2
  <2> QED BY <1>1, <2>1, <2>3
<1>5. ASSUME NEW i \in DOMAIN t, i # 1
      PROVE  BehindAt(t, i) /\ ((pc = "tools" /\ i = Len(t)) \/ Answered(t, i))
  <2> DEFINE p == J + i - 1
  <2>1. /\ p \in DOMAIN messages /\ p > J
        /\ Answered(messages, p) => Answered(t, i)
        /\ BehindAt(messages, p) /\ (messages[p].kind = "tool" => p - messages[p].call > J)
              => BehindAt(t, i)
    <3>1. p \in DOMAIN messages /\ p > J /\ p - J + 1 = i
      BY <1>1, <1>3, <1>5
    <3> HIDE DEF p
    <3>2. /\ Answered(messages, p) => Answered(t, p - J + 1)
          /\ BehindAt(messages, p) /\ (messages[p].kind = "tool" => p - messages[p].call > J)
                => BehindAt(t, p - J + 1)
      BY <1>0, <1>1, <1>3, <3>1, Shifted
    <3> QED BY <3>1, <3>2
  <2>2. BehindAt(messages, p)
    BY <1>2, <2>1 DEF Behind
  <2> HIDE DEF p
  <2>3. messages[p].kind = "tool" => p - messages[p].call > J
    <3> SUFFICES ASSUME messages[p].kind = "tool", ~(p - messages[p].call > J)
                 PROVE  FALSE
      OBVIOUS
    <3> DEFINE q == p - messages[p].call
    <3>1. messages[p].call \in 1..(p - 1) /\ messages[q].kind = "asst" /\ messages[p].call <= messages[q].call
      BY <2>2 DEF BehindAt
    <3>2. q \in 1..J /\ q \in DOMAIN messages
      BY <1>1, <2>1, <3>1
    <3>3. q + messages[q].call <= J /\ messages[q].call \in Nat /\ messages[p].call \in Nat
      BY <1>1, <1>2, <2>1, <3>1, <3>2
    <3> QED BY <1>1, <2>1, <3>1, <3>3
  <2>4. (pc = "tools" /\ p = n) \/ Answered(messages, p)
    BY <1>2, <2>1 DEF AllAnswered, n
  <2>5. p = n => i = Len(t)
    BY <1>1, <1>3, <1>5 DEF p
  <2> QED BY <2>1, <2>2, <2>3, <2>4, <2>5
<1>6. BehindAt(t, 1) /\ Answered(t, 1)
  BY <1>1, <1>3 DEF BehindAt, Answered
<1>7. Behind(messages') /\ AllAnswered'
  <2>1. \A i \in DOMAIN t : BehindAt(t, i) /\ ((pc = "tools" /\ i = Len(t)) \/ Answered(t, i))
    BY <1>5, <1>6
  <2> QED BY <1>1, <2>1 DEF Behind, AllAnswered
<1>8. CallOpen'
  <2> SUFFICES ASSUME pc = "tools"
               PROVE  Len(t) > 0 /\ hadCalls > 0 /\ t[Len(t)] = Msg("asst", nAsst, hadCalls)
    BY <1>1 DEF CallOpen
  <2>1. n \in DOMAIN messages /\ n > J /\ n - J + 1 > 0
    BY <1>1, <1>4
  <2>2. t[n - J + 1] = messages[n]
    BY <1>3, <2>1
  <2> QED BY <1>2, <1>3, <1>4, <2>1, <2>2 DEF CallOpen
<1>9. JobInv'
  BY <1>1 DEF JobInv
<1> QED BY <1>7, <1>8, <1>9 DEF Good

LEMMA GoodUnchanged ==
  ASSUME Good, UNCHANGED messages, JobInv',
         (pc # "tools" /\ pc' # "tools") \/ UNCHANGED <<pc, hadCalls, nAsst>>
  PROVE  Good'
<1>1. Behind(messages) /\ AllAnswered /\ CallOpen
  BY DEF Good
<1>2. CASE pc # "tools" /\ pc' # "tools"
  BY <1>1, <1>2 DEF Good, AllAnswered, CallOpen
<1>3. CASE UNCHANGED <<pc, hadCalls, nAsst>>
  BY <1>1, <1>3 DEF Good, AllAnswered, CallOpen
<1> QED BY <1>2, <1>3

LEMMA PairsStep ==
  ASSUME Types, Steers, Follows, Pairs, [Next]_vars
  PROVE  Pairs'
<1> SUFFICES ASSUME MaxMessages = 0, ~stale'
             PROVE  Good'
  BY DEF Pairs, Good, AllAnswered, CallOpen
<1>1. Good
  BY StaleStays, PairsParts DEF Types, TypeCompact
<1>2. /\ messages \in Seq(Message) /\ pending \in Seq(Message) /\ followQ \in Seq(Message)
      /\ JobInv
  BY <1>1 DEF Types, TypeHistory, TypeQueues, Good
<1>3. ASSUME UNCHANGED <<messages, job, compactor>>
      PROVE  JobInv'
  BY <1>2, <1>3 DEF JobInv
<1>4. ASSUME UNCHANGED messages, compactor' # "working"
      PROVE  JobInv'
  BY <1>4 DEF JobInv
<1>5. CASE AppendPrompt
  <2> DEFINE m == Msg("prompt", runs, 0)
  <2>1. m \in Message /\ m.kind = "prompt" /\ Extend(<<m>>)
    <3>1. m.kind = "prompt"
      BY DEF Msg
    <3> QED BY <1>5, <3>1, Made, Additions
  <2> HIDE DEF m
  <2>2. <<m>> \in Seq(Message) /\ Elements(<<m>>) = {m}
    BY <2>1, OneMessage
  <2>3. pc = "prompt" /\ pc' = "begin" /\ UNCHANGED <<job, compactor>>
    BY <1>5 DEF AppendPrompt, Goto, compactVars
  <2> QED BY <1>1, <2>1, <2>2, <2>3, GoodWithPlain
<1>6. CASE TurnStart
  <2>1. /\ Extend(pending) /\ \A m \in Elements(pending) : m.kind = "steer"
        /\ pc = "turn" /\ pc' = "stream" /\ UNCHANGED <<job, compactor>>
    BY <1>6, Additions DEF Steers, SteerLine, Line, TurnStart, Goto, compactVars
  <2> QED BY <1>1, <1>2, <2>1, GoodWithPlain
<1>7. CASE DequeueFollow
  <2>1. /\ Extend(followQ) /\ \A m \in Elements(followQ) : m.kind = "follow"
        /\ pc = "follow" /\ pc' \in {"end", "begin"} /\ UNCHANGED <<job, compactor>>
    BY <1>7, Additions DEF Follows, Line, DequeueFollow, Goto, compactVars
  <2> QED BY <1>1, <1>2, <2>1, GoodWithPlain
<1>8. CASE StreamDone \/ ExecuteTools
  BY <1>1, <1>8, GoodStream, GoodTools
<1>9. CASE Callers
  <2>1. /\ UNCHANGED <<messages, job, compactor, hadCalls, nAsst>>
        /\ pc' = pc \/ (pc = "idle" /\ pc' = "prompt")
    BY <1>9 DEF Callers, Start, SetTurnContext, Steer, FollowUp, Cancel, compactVars, runVars
  <2> QED BY <1>1, <1>3, <2>1, GoodUnchanged
<1>10. CASE BeginTurns \/ TurnCancelled \/ StreamOnce \/ Errors
  <2>1. UNCHANGED <<messages, job, compactor>> /\ pc # "tools" /\ pc' # "tools"
    BY <1>10 DEF BeginTurns, TurnCancelled, StreamOnce, Errors, StreamError, RetryWait, Goto, compactVars
  <2> QED BY <1>1, <1>3, <2>1, GoodUnchanged
<1>11. CASE WorkerDequeues \/ LateWorker
  <2>1. UNCHANGED <<messages, job, compactor, pc, hadCalls, nAsst>>
    BY <1>11 DEF WorkerDequeues, LateWorker, compactVars, runVars
  <2> QED BY <1>1, <1>3, <2>1, GoodUnchanged
<1>12. CASE EnforceMessageCap \/ MaybeCompact \/ NextTurn
  <2>1. UNCHANGED <<messages, job, compactor>> /\ pc # "tools" /\ pc' # "tools"
    BY <1>12 DEF EnforceMessageCap, MaybeCompact, NextTurn, Goto, compactVars
  <2> QED BY <1>1, <1>3, <2>1, GoodUnchanged
<1>13. CASE LaunchCompaction
  <2>1. /\ pc = "launch" /\ pc' = "next" /\ UNCHANGED messages
        /\ \/ UNCHANGED <<job, compactor>>
           \/ job' = snapshot /\ stale' = (stale \/ snapshot # messages)
    BY <1>13 DEF LaunchCompaction, Goto
  <2>2. CASE job' = snapshot /\ stale' = (stale \/ snapshot # messages)
    <3>1. job' = messages
      BY <2>2
    <3>2. \A i \in DOMAIN messages : Answered(messages, i)
      BY <1>1, <2>1 DEF Good, AllAnswered
    <3>3. Len(messages) \in Nat /\ DOMAIN messages = 1..Len(messages)
      BY <1>2, SeqParts
    <3>4. \A i \in 1..Len(messages) : messages[i].kind = "asst" => i + messages[i].call <= Len(messages)
      BY <3>2, <3>3 DEF Answered
    <3>5. JobInv'
      BY <2>1, <3>1, <3>3, <3>4 DEF JobInv
    <3> QED BY <1>1, <2>1, <3>5, GoodUnchanged
  <2> QED BY <1>1, <1>3, <2>1, <2>2, GoodUnchanged
<1>14. CASE EmitAgentEnd \/ Finish
  <2>1. UNCHANGED <<messages, job, compactor>> /\ pc # "tools" /\ pc' # "tools"
    BY <1>14 DEF EmitAgentEnd, Finish, Goto, compactVars
  <2> QED BY <1>1, <1>3, <2>1, GoodUnchanged
<1>15. CASE Compaction
  <2>1. UNCHANGED <<pc, nAsst, hadCalls>>
    BY <1>15 DEF Compaction, CompactDone, CompactFailed, EmitCompact, runVars
  <2>2. Merge \/ (UNCHANGED messages /\ compactor' # "working")
    <3>1. CASE CompactDone /\ Len(job) > Len(messages)
      BY <3>1 DEF CompactDone
    <3>2. CASE CompactDone /\ ~(Len(job) > Len(messages))
      <4>1. Len(job) \in Nat /\ Len(messages) \in Nat
        BY SeqParts DEF Types, TypeHistory, TypeCompact
      <4> QED BY <3>2, <4>1 DEF CompactDone, Merge, Merged, Front, Summary, Gist
    <3>3. CASE CompactFailed \/ EmitCompact
      BY <3>3 DEF CompactFailed, EmitCompact
    <3> QED BY <1>15, <3>1, <3>2, <3>3 DEF Compaction
  <2> QED BY <1>1, <1>4, <2>1, <2>2, GoodMerge, GoodUnchanged
<1>16. CASE UNCHANGED vars
  BY <1>1, <1>3, <1>16, GoodUnchanged DEF vars
<1> QED BY <1>5, <1>6, <1>7, <1>8, <1>9, <1>10, <1>11, <1>12, <1>13, <1>14, <1>15, <1>16, Steps
        DEF Turns, Batch, TurnEnds, RunEnd

-----------------------------------------------------------------------------
(* Nothing is forgotten.                                                    *)

LEMMA PreservedStep ==
  ASSUME Types, Gists, Pairs, HistoryPreserved, [Next]_vars
  PROVE  HistoryPreserved'
<1> SUFFICES ASSUME MaxMessages = 0, ~stale'
             PROVE  \A m \in log' : Remembered(m)'
  BY DEF HistoryPreserved
<1>1. Good /\ \A m \in log : Remembered(m)
  BY StaleStays, PairsParts DEF Types, TypeCompact, HistoryPreserved
<1>2. /\ messages \in Seq(Message) /\ pending \in Seq(Message) /\ followQ \in Seq(Message)
      /\ job \in Seq(Message)
  BY DEF Types, TypeHistory, TypeQueues, TypeCompact
<1>3. CASE UNCHANGED <<messages, log, nSum, gist>>
  BY <1>1, <1>3 DEF Remembered
<1>4. ASSUME NEW new \in Seq(Message), Extend(new), UNCHANGED gist
      PROVE  \A m \in log' : Remembered(m)'
  <2>1. log' = log \union Elements(new) /\ Elements(messages') = Elements(messages) \union Elements(new)
    BY <1>2, <1>4, JoinedElements DEF Extend
  <2> QED BY <1>1, <1>4, <2>1 DEF Remembered
<1>5. CASE AppendPrompt
  <2> DEFINE m == Msg("prompt", runs, 0)
  <2>1. m \in Message /\ Extend(<<m>>) /\ UNCHANGED gist
    BY <1>5, Made, Additions DEF AppendPrompt, compactVars
  <2> HIDE DEF m
  <2>2. <<m>> \in Seq(Message)
    BY <2>1, OneMessage
  <2> QED BY <1>4, <2>1, <2>2
<1>6. CASE TurnStart
  BY <1>2, <1>4, <1>6, Additions DEF TurnStart, compactVars
<1>7. CASE StreamDone
  <2>1. PICK m \in Message : Extend(<<m>>)
    BY <1>7, Additions
  <2>2. <<m>> \in Seq(Message) /\ UNCHANGED gist
    BY <1>7, OneMessage DEF StreamDone, compactVars
  <2> QED BY <1>4, <2>1, <2>2
<1>8. CASE ExecuteTools
  BY <1>4, <1>8, Made, Additions DEF ExecuteTools, compactVars
<1>9. CASE DequeueFollow
  BY <1>2, <1>4, <1>9, Additions DEF DequeueFollow, compactVars
<1>10. ~(\E k \in 1..(Len(messages) - 1) : Cut(k))
  BY Given DEF Cut
<1>11. CASE Merge
  <2> DEFINE J == Len(job)
             t == Front(Summary, messages, J)
  <2>1. /\ compactor = "working" /\ J \in 0..Len(messages) /\ messages' = t
        /\ log' = log \union {Summary} /\ nSum' = nSum + 1 /\ gist' = Append(gist, Gist(job))
    BY <1>11 DEF Merge
  <2>2. /\ Summary \in Message /\ Summary.kind = "summary" /\ Summary.n = nSum + 1
        /\ nSum \in Nat /\ Len(gist) = nSum /\ Known(messages)
    BY Made, MadeNumbers DEF Types, TypeCompact, Gists
  <2>3. gist'[nSum + 1] = Gist(job) /\ \A n \in 1..nSum : gist'[n] = gist[n]
    <3> DEFINE S == SUBSET Message
    <3>1. gist \in Seq(S) /\ Gist(job) \in S
      BY GistTypes DEF Types, TypeCompact
    <3> HIDE DEF S
    <3>2. /\ \A n \in 1..Len(gist) : Append(gist, Gist(job))[n] = gist[n]
          /\ Append(gist, Gist(job))[Len(gist) + 1] = Gist(job)
      BY <3>1, AppendProperties
    <3> QED BY <2>1, <2>2, <3>2
  <2>4. /\ t[1] = Summary /\ 1 \in DOMAIN t
        /\ \A j \in DOMAIN messages : j > J => j - J + 1 \in DOMAIN t /\ t[j - J + 1] = messages[j]
    <3> HIDE DEF J
    <3>2. /\ DOMAIN t = 1..(Len(messages) - J + 1) /\ t[1] = Summary
          /\ \A j \in DOMAIN messages : j > J => j - J + 1 \in DOMAIN t /\ t[j - J + 1] = messages[j]
      <4>1. messages \in Seq(Message) /\ J \in 0..Len(messages) /\ Summary \in Message
        BY <1>2, <2>1, <2>2
      <4> QED BY <4>1, Fronted
    <3>3. Len(messages) \in Nat
      BY <1>2, SeqParts
    <3>4. 1 \in DOMAIN t
      BY <2>1, <3>2, <3>3
    <3> QED BY <3>2, <3>4
  <2>5. /\ Summary \in Elements(messages')
        /\ \A j \in DOMAIN messages : j > J => messages[j] \in Elements(messages')
    <3> HIDE DEF t, J
    <3> QED BY <2>1, <2>4 DEF Elements
  <2>6. \A j \in 1..J : messages[j] = job[j] /\ job[j] \in Elements(job)
    <3>1. \A j \in 1..J : messages[j] = job[j]
      BY <1>1, <2>1 DEF Good, JobInv
    <3>2. \A j \in 1..J : job[j] \in Elements(job)
      BY <1>2, SeqParts
    <3> QED BY <3>1, <3>2
  <2> HIDE DEF t, J
\* A message of the history stays, or is one of the job.
  <2>7. \A x \in Elements(messages) : x \in Elements(messages') \/ x \in Elements(job)
    <3>1. \A j \in DOMAIN messages : j > J \/ j \in 1..J
      <4>1. Len(messages) \in Nat /\ DOMAIN messages = 1..Len(messages)
        BY <1>2, SeqParts
      <4> QED BY <2>1, <4>1
    <3> QED BY <2>5, <2>6, <3>1 DEF Elements
  <2>8. \A m \in Gist(job) : Remembered(m)'
    BY <2>2, <2>3, <2>5 DEF Remembered
  <2>9. ASSUME NEW m \in log
        PROVE  Remembered(m)'
    <3>1. Remembered(m)
      BY <1>1
    <3>2. CASE m \in Elements(messages)
      BY <2>7, <2>8, <3>2 DEF Gist, Remembered
    <3>3. CASE \E s \in Elements(messages) : s.kind = "summary" /\ m \in gist[s.n]
      <4>1. PICK s \in Elements(messages) : s.kind = "summary" /\ m \in gist[s.n]
        BY <3>3
      <4>2. s.n \in 1..nSum
        BY <2>2, <4>1 DEF Known
      <4>3. CASE s \in Elements(messages')
        BY <2>3, <4>1, <4>2, <4>3 DEF Remembered
      <4>4. CASE s \in Elements(job)
        <5>1. m \in Gist(job)
          BY <4>1, <4>4 DEF Gist
        <5> QED BY <2>8, <5>1
      <4> QED BY <2>7, <4>3, <4>4
    <3> QED BY <3>1, <3>2, <3>3 DEF Remembered
  <2>10. ASSUME NEW m, m = Summary
         PROVE  Remembered(m)'
    BY <2>5, <2>10 DEF Remembered
  <2> QED BY <2>1, <2>9, <2>10
<1> QED BY <1>3, <1>5, <1>6, <1>7, <1>8, <1>9, <1>10, <1>11, Writers

-----------------------------------------------------------------------------
(* The theorems.                                                            *)

LEMMA Initially == Init => IInv
<1> SUFFICES ASSUME Init
             PROVE  IInv
  OBVIOUS
<1>1. /\ <<>> \in Seq(Message) /\ Len(<<>>) = 0 /\ DOMAIN <<>> = {} /\ Elements(<<>>) = {}
      /\ <<>> \in Seq(Seq(Message)) /\ <<>> \in Seq(SUBSET Message)
  BY NoMessages, EmptySeq
<1>2. Types
  <2>1. /\ 0 \in 0..(MaxRetries - 1) /\ 0 \in 0..MaxRuns /\ 0 \in 0..MaxCalls
        /\ 0 \in 0..MaxSteer /\ 0 \in 0..MaxFollow
    BY Given
  <2>2. TypeHistory /\ TypeQueues /\ TypeCompact
    BY <1>1 DEF Init, TypeHistory, TypeQueues, TypeCompact
  <2>3. TypeRun
    BY <2>1 DEF Init, TypeRun, RunSteps
  <2> QED BY <2>2, <2>3 DEF Types
<1>3. Places /\ Compacting
  BY DEF Init, Places, Compacting
<1>4. LateInv
  <2>1. 0 \in 0..MaxAsst /\ 0 <= MaxCalls * 0
    BY Given
  <2> QED BY <2>1 DEF Init, LateInv
<1>5. Gists /\ Numbers /\ History
  BY <1>1 DEF Init, Gists, Known, Numbers, History, Distinct, Ordered
<1>6. Follows /\ Steers
  BY <1>1 DEF Init, Follows, Steers, SteerLine, Line, Older
<1>7. Pairs
  BY <1>1 DEF Init, Pairs, Behind, JobInv
<1>8. HistoryPreserved
  BY DEF Init, HistoryPreserved
<1> QED BY <1>2, <1>3, <1>4, <1>5, <1>6, <1>7, <1>8 DEF IInv

LEMMA Invariant == IInv /\ [Next]_vars => IInv'
BY TypesStep, PlacesStep, LateStep, GistsStep, NumbersStep, HistoryStep, FollowsStep, SteersStep,
   PairsStep, PreservedStep DEF IInv

\* Every reachable state satisfies the invariant.
THEOREM Invariance == Spec => []IInv
BY Initially, Invariant, PTL DEF Spec

\* Every reachable state is well typed, and no more workers of abandoned
\* batches run than there were calls.
THEOREM TypeCorrect == Spec => []TypeOK
<1>1. IInv => TypeOK
  BY TypeParts, LateBound DEF IInv
<1> QED BY <1>1, Invariance, PTL

LEMMA AtMostOne ==
  ASSUME NEW S, \A x, y \in S : x = y
  PROVE  Cardinality(S) \in {0, 1} /\ (Cardinality(S) = 1 => S # {})
<1>1. CASE S = {}
  BY <1>1, FS_EmptySet
<1>2. CASE S # {}
  <2>1. PICK x \in S : TRUE
    BY <1>2
  <2>2. S = {x}
    BY <2>1
  <2> QED BY <2>2, FS_Singleton
<1> QED BY <1>1, <1>2

LEMMA OnePlace ==
  ASSUME IInv, NEW m \in Message, m.kind = "steer"
  PROVE  Times(messages, m) + Times(Queued, m) + Cardinality(InGrabs(m)) <= 1
<1> DEFINE A == {i \in DOMAIN messages : messages[i] = m}
           B == {i \in DOMAIN Queued : Queued[i] = m}
           C == InGrabs(m)
<1>1. /\ messages \in Seq(Message) /\ steerQ \in Seq(Message) /\ pending \in Seq(Message)
      /\ fromTools \in Seq(Message) /\ m.n \in Nat
  BY DEF IInv, Types, TypeHistory, TypeQueues, Message
<1>2. /\ SteerLine(steerQ) /\ SteerLine(pending) /\ SteerLine(fromTools)
      /\ Older(messages, steerQ, "steer") /\ Older(messages, pending, "steer")
      /\ Older(messages, fromTools, "steer")
      /\ \A b \in DOMAIN grabs : Older(messages, grabs[b], "steer")
      /\ Older(pending, steerQ, "steer") /\ Older(fromTools, steerQ, "steer")
      /\ \A b \in DOMAIN grabs : Older(grabs[b], steerQ, "steer")
      /\ \A b, c \in DOMAIN grabs : b < c => Older(grabs[b], grabs[c], "steer")
  BY DEF IInv, Steers
<1>3. /\ pending = <<>> \/ fromTools = <<>>
      /\ grabs # <<>> => pending = <<>> /\ fromTools = <<>>
      /\ Elements(<<>>) = {} /\ DOMAIN <<>> = {}
  BY NoMessages DEF IInv, Places
<1>4. /\ Distinct(steerQ) /\ Distinct(pending) /\ Distinct(fromTools)
  BY <1>1, <1>2, InLine DEF SteerLine
\* A message of one kind is not older than itself.
<1>5. ASSUME NEW s, NEW q, NEW x, Older(s, q, "steer"), x \in Elements(s), x \in Elements(q),
             x.kind = "steer", x.n \in Nat
      PROVE  FALSE
  <2>1. x.n < x.n
    BY <1>5 DEF Older
  <2> QED BY <1>5, <2>1
<1>6. \A q \in {steerQ, pending, fromTools} : \A x \in Elements(q) : x.kind = "steer" /\ x.n \in Nat
  <2>1. \A q \in {steerQ, pending, fromTools} : \A x \in Elements(q) : x \in Message
    BY <1>1, SeqParts
  <2> QED BY <1>2, <2>1 DEF SteerLine, Line, Message
<1>7. /\ Queued \in Seq(Message)
      /\ Elements(Queued) = Elements(steerQ) \union Elements(pending) \union Elements(fromTools)
      /\ Distinct(Queued)
  <2> DEFINE u == steerQ \o pending
  <2>1. u \in Seq(Message) /\ Elements(u) = Elements(steerQ) \union Elements(pending)
    BY <1>1, Joined, JoinedElements
  <2>2. \A x \in Elements(pending) : x \notin Elements(steerQ)
    BY <1>2, <1>5, <1>6
  <2>3. Distinct(u)
    BY <1>1, <1>4, <2>2, DistinctJoined
  <2>4. \A x \in Elements(fromTools) : x \notin Elements(u)
    <3>1. \A x \in Elements(fromTools) : x \notin Elements(steerQ)
      BY <1>2, <1>5, <1>6
    <3> QED BY <1>3, <2>1, <3>1
  <2> HIDE DEF u
  <2>5. Distinct(u \o fromTools)
    BY <1>1, <1>4, <2>1, <2>3, <2>4, DistinctJoined
  <2>6. u \o fromTools \in Seq(Message) /\ Elements(u \o fromTools) = Elements(u) \union Elements(fromTools)
    BY <1>1, <2>1, Joined, JoinedElements
  <2> QED BY <2>1, <2>5, <2>6 DEF Queued, u
<1>8. \A i, j \in A : i = j
  BY DEF IInv, History, Distinct
<1>9. \A i, j \in B : i = j
  BY <1>7 DEF Distinct
<1>10. \A b, c \in C : b = c
  <2>1. \A b \in C : b \in DOMAIN grabs /\ b \in Int /\ m \in Elements(grabs[b])
    <3>1. DOMAIN grabs \subseteq Int
      BY GrabTypes DEF IInv, Types
    <3> QED BY <3>1 DEF InGrabs
  <2> SUFFICES ASSUME NEW b \in C, NEW c \in C, b # c
               PROVE  FALSE
    OBVIOUS
  <2>2. CASE b < c
    <3>1. Older(grabs[b], grabs[c], "steer")
      BY <1>2, <2>1, <2>2
    <3> QED BY <1>1, <1>5, <2>1, <3>1
  <2>3. CASE c < b
    <3>1. Older(grabs[c], grabs[b], "steer")
      BY <1>2, <2>1, <2>3
    <3> QED BY <1>1, <1>5, <2>1, <3>1
  <2> QED BY <2>1, <2>2, <2>3
<1>11. A # {} => m \in Elements(messages)
  BY DEF Elements
<1>12. B # {} => m \in Elements(Queued)
  BY DEF Elements
<1>13. C # {} => grabs # <<>> /\ \E b \in DOMAIN grabs : m \in Elements(grabs[b])
  BY <1>3 DEF InGrabs
<1>14. A = {} \/ (B = {} /\ C = {})
  <2>1. m \in Elements(messages) => ~(m \in Elements(Queued))
    BY <1>1, <1>2, <1>5, <1>7
  <2>2. m \in Elements(messages) => ~(\E b \in DOMAIN grabs : m \in Elements(grabs[b]))
    BY <1>1, <1>2, <1>5
  <2> QED BY <1>11, <1>12, <1>13, <2>1, <2>2
<1>15. B = {} \/ C = {}
  <2> SUFFICES ASSUME B # {}, C # {}
               PROVE  FALSE
    OBVIOUS
  <2>1. m \in Elements(steerQ)
    BY <1>3, <1>7, <1>12, <1>13
  <2> QED BY <1>1, <1>2, <1>5, <1>13, <2>1
<1> HIDE DEF A, B, C
<1>16. /\ Cardinality(A) \in {0, 1} /\ (Cardinality(A) = 1 => A # {})
       /\ Cardinality(B) \in {0, 1} /\ (Cardinality(B) = 1 => B # {})
       /\ Cardinality(C) \in {0, 1} /\ (Cardinality(C) = 1 => C # {})
  BY <1>8, <1>9, <1>10, AtMostOne
<1>17. Cardinality(A) + Cardinality(B) + Cardinality(C) <= 1
  BY <1>14, <1>15, <1>16
<1> QED BY <1>17 DEF A, B, C, Times

\* No message is in the history twice, and a steering message is in one place at
\* most, for any number of runs, batches, late workers and compactions.
THEOREM NothingTwice == Spec => []NoMessageTwice
<1>1. IInv => NoMessageTwice
  <2> SUFFICES ASSUME IInv
               PROVE  NoMessageTwice
    OBVIOUS
  <2>1. \A i, j \in DOMAIN messages : i # j => messages[i] # messages[j]
    BY DEF IInv, History, Distinct
  <2>2. ASSUME NEW n \in 1..sentS
        PROVE  LET m == Msg("steer", n, 0)
               IN  Times(messages, m) + Times(Queued, m) + Cardinality(InGrabs(m)) <= 1
    <3>1. n \in Nat /\ "steer" \in Kinds
      BY DEF IInv, Types, TypeRun, Kinds
    <3>2. Msg("steer", n, 0) \in Message /\ Msg("steer", n, 0).kind = "steer"
      BY <3>1, Typed
    <3> QED BY <3>2, OnePlace
  <2> QED BY <2>1, <2>2 DEF NoMessageTwice
<1> QED BY <1>1, Invariance, PTL

\* Steering messages, follow-ups and prompts are in the history in the order
\* they were sent, however turns, rounds and runs took them.
THEOREM InOrder == Spec => []SentInOrder
<1>1. IInv => SentInOrder
  BY DEF IInv, History, Ordered, Sent, SentInOrder
<1> QED BY <1>1, Invariance, PTL

\* Without a cap, and from current snapshots only: every result is behind its
\* message and every executed call has its result.
THEOREM ResultsFollow == Spec => []Paired
<1>1. IInv => Paired
  <2> SUFFICES ASSUME IInv, MaxMessages = 0, ~stale, NEW i \in DOMAIN messages
               PROVE  LET m == messages[i]
                      IN  /\ m.kind = "tool" =>
                                /\ m.call < i
                                /\ messages[i - m.call].kind = "asst"
                                /\ messages[i - m.call].n = m.n
                          /\ m.kind = "asst" /\ ~(pc = "tools" /\ m.n = nAsst) =>
                                \A k \in 1..m.call :
                                    /\ i + k \in DOMAIN messages
                                    /\ messages[i + k] = Msg("tool", m.n, k)
    BY DEF Paired
  <2>1. /\ Len(messages) \in Nat /\ DOMAIN messages = 1..Len(messages) /\ i \in 1..Len(messages)
        /\ messages[i].call \in Nat
    <3>1. messages \in Seq(Message)
      BY DEF IInv, Types, TypeHistory
    <3>2. messages[i] \in Message /\ Len(messages) \in Nat /\ DOMAIN messages = 1..Len(messages)
      BY <3>1, SeqParts
    <3> QED BY <3>2 DEF Message
  <2>2. BehindAt(messages, i) /\ AllAnswered /\ CallOpen
    BY PairsParts DEF IInv, Good, Behind
  <2>3. messages[i].kind = "tool" => /\ messages[i].call < i
                                     /\ messages[i - messages[i].call].kind = "asst"
                                     /\ messages[i - messages[i].call].n = messages[i].n
    BY <2>1, <2>2 DEF BehindAt
  <2>4. ASSUME messages[i].kind = "asst", ~(pc = "tools" /\ messages[i].n = nAsst),
               NEW k \in 1..messages[i].call
        PROVE  i + k \in DOMAIN messages /\ messages[i + k] = Msg("tool", messages[i].n, k)
    <3>1. pc = "tools" /\ i = Len(messages) => messages[i].n = nAsst
      BY <2>2 DEF CallOpen, Msg
    <3>2. Answered(messages, i)
      BY <2>2, <2>4, <3>1 DEF AllAnswered
    <3>3. i + messages[i].call <= Len(messages) /\ messages[i + k] = Msg("tool", messages[i].n, k)
      BY <2>4, <3>2 DEF Answered
    <3>4. i + k \in 1..Len(messages)
      BY <2>1, <2>4, <3>3
    <3> QED BY <2>1, <3>3, <3>4
  <2> QED BY <2>3, <2>4
<1> QED BY <1>1, Invariance, PTL

\* Under the same conditions every message that was ever in the history is, or
\* a summary in it stands for it, however often the history was compacted.
THEOREM NothingForgotten == Spec => []HistoryPreserved
<1>1. IInv => HistoryPreserved
  BY DEF IInv
<1> QED BY <1>1, Invariance, PTL

\* No compaction works on the history of an agent that is not running.
THEOREM IdleIsIdle == Spec => []CompactionWithinRun
<1>1. IInv => CompactionWithinRun
  BY DEF IInv, Compacting, CompactionWithinRun
<1> QED BY <1>1, Invariance, PTL

\* The cap keeps the first message and the last, for every limit.
THEOREM EndsAreKept == Spec => CapKeepsEnds
<1> DEFINE A == pc = "cap" /\ pc' # "cap" =>
                   /\ Head(messages') = Head(messages)
                   /\ messages'[Len(messages')] = messages[Len(messages)]
<1>1. IInv /\ [Next]_vars => A
  <2> SUFFICES ASSUME IInv, [Next]_vars, pc = "cap", pc' # "cap"
               PROVE  /\ Head(messages') = Head(messages)
                      /\ messages'[Len(messages')] = messages[Len(messages)]
    OBVIOUS
  <2>1. EnforceMessageCap
    <3>1. ~Callers
      BY DEF Callers, Start, SetTurnContext, Steer, FollowUp, Cancel
    <3>2. ~Turns /\ ~Errors
      BY DEF Turns, AppendPrompt, BeginTurns, TurnStart, TurnCancelled, StreamOnce, StreamDone,
             Errors, StreamError, RetryWait
    <3>3. ~Batch /\ ~RunEnd
      BY DEF Batch, WorkerDequeues, ExecuteTools, LateWorker, RunEnd, DequeueFollow, EmitAgentEnd, Finish
    <3>4. ~Compaction /\ ~(UNCHANGED vars)
      BY DEF Compaction, CompactDone, CompactFailed, EmitCompact, vars
    <3>5. TurnEnds => EnforceMessageCap
      BY DEF TurnEnds, MaybeCompact, LaunchCompaction, NextTurn
    <3> QED BY <3>1, <3>2, <3>3, <3>4, <3>5, Steps
  <2>2. messages \in Seq(Message) /\ Len(messages) \in Nat /\ DOMAIN messages = 1..Len(messages)
    BY SeqParts DEF IInv, Types, TypeHistory
  <2>3. ASSUME NEW k \in 1..(Len(messages) - 1), Cut(k)
        PROVE  /\ Head(messages') = Head(messages)
               /\ messages'[Len(messages')] = messages[Len(messages)]
    <3> DEFINE t == Front(messages[1], messages, k)
               n == Len(messages)
    <3>1. messages' = t /\ k \in 0..n /\ n > k /\ n \in DOMAIN messages /\ 1 \in DOMAIN messages
      BY <2>2, <2>3 DEF Cut
    <3>2. messages[1] \in Message
      BY <2>2, <3>1, SeqParts
    <3>3. /\ t \in Seq(Message) /\ Len(t) > 0 /\ t[1] = messages[1]
          /\ t[Len(t)] = messages[n]
      <4> DEFINE x == messages[1]
      <4>1. x \in Message
        BY <3>2
      <4> HIDE DEF x
      <4>2. /\ Front(x, messages, k) \in Seq(Message) /\ Len(Front(x, messages, k)) > 0
            /\ Front(x, messages, k)[1] = x
            /\ Front(x, messages, k)[Len(Front(x, messages, k))] = messages[Len(messages)]
        BY <2>2, <3>1, <4>1, FrontedEnds
      <4> QED BY <4>2 DEF x
    <3> HIDE DEF t
    <3>4. Head(t) = t[1] /\ Head(messages) = messages[1]
      <4>1. t # <<>> /\ messages # <<>>
        BY <2>2, <3>1, <3>3, EmptySeq
      <4> QED BY <2>2, <3>3, <4>1, HeadTailProperties
    <3> QED BY <3>1, <3>3, <3>4
  <2> QED BY <2>1, <2>3, CapCuts DEF IInv
<1>2. [Next]_vars /\ IInv => [A]_vars
  BY <1>1
<1> QED BY <1>2, Invariance, PTL DEF Spec, CapKeepsEnds

-----------------------------------------------------------------------------
(* What Shell takes for granted of steering.                                *)

\* Messages that tool workers took, and all that are sent and not in the history.
WithTools == Elements(fromTools) \union UNION {Elements(grabs[b]) : b \in DOMAIN grabs}
OnTheWay == Elements(steerQ) \union Elements(pending) \union WithTools

\* A steering message goes into the history, unless tool workers took it (the second
\* case of RunTakesSteering in Shell), the run that took it was cancelled, or a worker
\* that a cancelled run left behind finds it in the queue (CancelledTakesSteering
\* there); and what goes into the history was on the way there.  Between two runs only
\* the queue holds messages: no local variable of runTurns or executeTools
\* (core/agent.go, core/tool_executor.go) carries any over.
SteeringStep ==
    /\ \A m \in OnTheWay : m \notin OnTheWay' =>
          \/ m \in log'
          \/ m \in WithTools
          \/ m \in Elements(pending) /\ ctxDone
          \/ m \in Elements(steerQ) /\ late' < late
    /\ \A m \in log' : m \in log \/ m.kind # "steer" \/ m \in OnTheWay
SteeringFate == [][SteeringStep]_vars
NothingInHand == pc = "idle" => OnTheWay = Elements(steerQ)

LEMMA EmptyHands == IInv /\ pc \notin {"turn", "cap", "snapshot", "launch", "next", "tools"} =>
                      pending = <<>> /\ WithTools = {}
  BY NoMessages DEF IInv, Places, WithTools

LEMMA FateStep == IInv /\ [Next]_vars => SteeringStep
<1> SUFFICES ASSUME IInv, [Next]_vars PROVE SteeringStep
  OBVIOUS
<1> USE NoMessages DEF OnTheWay, WithTools, SteeringStep, runVars, compactVars, counters, Goto
<1>0. /\ pending # <<>> => pc = "turn"
      /\ fromTools # <<>> => pc \in {"cap", "snapshot", "launch", "next"}
      /\ grabs # <<>> => pc = "tools"
      /\ Types /\ sentS \in Nat /\ late \in Nat /\ steerQ \in Seq(Message)
      /\ grabs \in Seq(Seq(Message))
  BY Given DEF IInv, Places, LateInv, Types, TypeQueues, TypeRun
<1>1. CASE Start \/ SetTurnContext \/ FollowUp \/ Cancel
  BY <1>1 DEF Start, SetTurnContext, FollowUp, Cancel
<1>2. CASE Steer
  <2>1. Elements(steerQ) \subseteq Elements(steerQ')
    <3>1. Msg("steer", sentS + 1, 0) \in Message
      BY <1>0, Typed DEF Kinds
    <3> QED BY <1>0, <1>2, <3>1, AppendedElements DEF Steer
  <2> QED BY <1>2, <2>1 DEF Steer
<1>3. CASE AppendPrompt
  <2>1. log' = log \union {Msg("prompt", runs, 0)} /\ Msg("prompt", runs, 0).kind # "steer"
    BY <1>0, <1>3, Made, OneMessage DEF AppendPrompt, Extend, Msg
  <2>2. UNCHANGED <<steerQ, pending, fromTools, grabs>>
    BY <1>3 DEF AppendPrompt
  <2> QED BY <2>1, <2>2
<1>4. CASE BeginTurns
  BY <1>0, <1>4 DEF BeginTurns
<1>5. CASE TurnStart \/ TurnCancelled
  BY <1>0, <1>5 DEF TurnStart, TurnCancelled, Extend
<1>6. CASE StreamOnce \/ StreamError \/ RetryWait
  BY <1>6 DEF StreamOnce, StreamError, RetryWait
<1>7. CASE StreamDone
  <2>1. PICK m \in Message : Answer(m) /\ Extend(<<m>>)
    BY <1>0, <1>7, Additions
  <2>2. log' = log \union {m} /\ m.kind # "steer"
    BY <2>1, OneMessage DEF Extend, Answer, Msg
  <2>3. pc = "streaming" /\ fromTools' = <<>> /\ UNCHANGED <<steerQ, pending, grabs>>
    BY <1>7 DEF StreamDone
  <2> QED BY <1>0, <2>2, <2>3
<1>8. CASE WorkerDequeues
  BY <1>0, <1>8 DEF WorkerDequeues
<1>9. CASE ExecuteTools
  <2>1. log' = log \union Elements(Results)
    BY <1>0, <1>9, Additions DEF Extend
  <2>2. \A m \in Elements(Results) : m.kind # "steer"
    <3>1. \A i \in DOMAIN Results : Results[i].kind = "tool"
      BY <1>0, Made DEF Results, Msg
    <3> QED BY <3>1 DEF Elements
  <2>3. UNCHANGED <<steerQ, pending>>
    BY <1>9 DEF ExecuteTools
  <2> QED BY <2>1, <2>2, <2>3
<1>10. CASE LateWorker
  BY <1>0, <1>10 DEF LateWorker
<1>11. CASE EnforceMessageCap \/ MaybeCompact \/ LaunchCompaction
  BY <1>11 DEF EnforceMessageCap, MaybeCompact, LaunchCompaction
<1>12. CASE NextTurn
  BY <1>0, <1>12 DEF NextTurn
<1>13. CASE DequeueFollow
  BY <1>13 DEF DequeueFollow, Extend, IInv, Follows, Line
<1>14. CASE EmitAgentEnd \/ Finish
  BY <1>14 DEF EmitAgentEnd, Finish
<1>15. CASE Compaction
  BY <1>15 DEF Compaction, CompactDone, CompactFailed, EmitCompact, Msg
<1>16. CASE UNCHANGED vars
  BY <1>16 DEF vars
<1> QED BY <1>1, <1>2, <1>3, <1>4, <1>5, <1>6, <1>7, <1>8, <1>9, <1>10, <1>11, <1>12, <1>13,
           <1>14, <1>15, <1>16 DEF Next, Run

\* Agent.run and its tool workers treat steering messages as Shell has it.
THEOREM SteeringAsInShell == Spec => SteeringFate /\ []NothingInHand
<1>1. IInv => NothingInHand
  BY EmptyHands, NoMessages DEF NothingInHand, OnTheWay
<1>2. IInv /\ [Next]_vars => [SteeringStep]_vars
  BY FateStep
<1> QED BY <1>1, <1>2, Invariance, PTL DEF Spec, SteeringFate

=============================================================================
