--------------------------- MODULE HostRpc_proofs ---------------------------
(***************************************************************************)
(* Proofs about HostRpc, for any set of requests, streams and callbacks,   *)
(* any size of the pipes and of the delta channels, and any number of      *)
(* deltas.                                                                 *)
(***************************************************************************)
EXTENDS HostRpc, SequenceTheorems, TLAPS

\* The request of c has gone out, or was about to when its handler ran.
Sent(c) == cpc[c] \in {"wait", "cancel", "returned"}

\* Only a shutdown message and an idle reader have no id.
Named ==
    /\ \A i \in 1..Len(toExt) : toExt[i].type # "shutdown" => toExt[i].id \in Callers
    /\ \A i \in 1..Len(toHost) : toHost[i].id \in Callers
    /\ rpc = "respond" => rid \in Callers

\* A request is in the pipe once, before its handler starts.
RequestsOnce ==
    /\ \A c \in Callers : hpc[c] # "none" => Sent(c)
    /\ \A i \in 1..Len(toExt) : toExt[i].type = "request" =>
         /\ Sent(toExt[i].id) /\ hpc[toExt[i].id] = "none"
         /\ \A j \in 1..Len(toExt) :
              toExt[j].type = "request" /\ toExt[j].id = toExt[i].id => j = i

\* An entry of a table belongs to a caller that is still there.
TablesCurrent ==
    /\ \A c \in Callers :
         /\ c \in pending => cpc[c] \in {"send", "wait"}
         /\ c \in answered => /\ Sent(c) /\ c \notin pending
                              /\ cpc[c] = "returned" => result[c] \in {"ctx", "closed"}
    /\ \A c \in Streams :
         /\ c \in deltaChans <=> spc[c] = "open"
         /\ spc[c] = "idle" => cpc[c] = "idle"

IsDelta(m, c) == m.type = "delta" /\ m.id = c

\* Once a response exists its handler has ended, and no delta is behind it.
ResponsesLast ==
    /\ \A i \in 1..Len(toHost) : toHost[i].type = "response" =>
         /\ hpc[toHost[i].id] = "ended"
         /\ \A j \in i..Len(toHost) : ~IsDelta(toHost[j], toHost[i].id)
    /\ \A c \in Callers : c \in answered \/ result[c] = "response" =>
         hpc[c] = "ended" /\ \A j \in 1..Len(toHost) : ~IsDelta(toHost[j], c)

Elements(s) == {s[i] : i \in 1..Len(s)}
Increasing(s) == \A i, j \in 1..Len(s) : i < j => s[i] < s[j]

\* What the host has of a stream: forwarded, in its channel, or dropped.
Got(c) == Elements(out[c]) \cup Elements(deltaBuf[c]) \cup dropped[c]

\* What it has is in the order it was sent, ...
DeltasInOrder(c) ==
    /\ hpc[c] = "none" => sent[c] = 0
    /\ Increasing(out[c]) /\ Increasing(deltaBuf[c])
    /\ \A m \in Elements(out[c]), n \in Elements(deltaBuf[c]) : m < n
    /\ (Elements(out[c]) \cup Elements(deltaBuf[c])) \cap dropped[c] = {}
    /\ \A n \in Got(c) : n <= sent[c]

\* ... and precedes what the pipe still holds, ...
PipeInOrder(c) == \A i \in 1..Len(toHost) : IsDelta(toHost[i], c) =>
    /\ toHost[i].n <= sent[c]
    /\ \A n \in Got(c) : n < toHost[i].n
    /\ \A j \in 1..Len(toHost) : IsDelta(toHost[j], c) /\ i < j => toHost[i].n < toHost[j].n

\* ... and while the stream is open nothing is missing.
NothingMissing(c) ==
    spc[c] = "open" => \A n \in 1..sent[c] :
        n \in Got(c) \/ \E i \in 1..Len(toHost) : IsDelta(toHost[i], c) /\ toHost[i].n = n

\* A stream that ended with its message has it all.
DoneIsAll(c) ==
    final[c] = "done" => /\ spc[c] = "finished"
                         /\ cpc[c] = "returned" /\ result[c] = "response"
                         /\ Elements(out[c]) = (1..sent[c]) \ dropped[c]

StreamInv(c) == DeltasInOrder(c) /\ PipeInOrder(c) /\ NothingMissing(c) /\ DoneIsAll(c)

IInv ==
    /\ TypeOK /\ Named /\ RequestsOnce /\ TablesCurrent /\ ResponsesLast
    /\ \A c \in Streams : StreamInv(c)

-----------------------------------------------------------------------------
\* A whole message at a time goes into a pipe and comes out of it.
LEMMA PipeGets ==
  ASSUME NEW s \in Seq(Message), NEW m \in Message
  PROVE  /\ Append(s, m) \in Seq(Message) /\ Len(Append(s, m)) = Len(s) + 1
         /\ Len(s) \in Nat
         /\ \A i \in 1..Len(s) : Append(s, m)[i] = s[i]
         /\ Append(s, m)[Len(s) + 1] = m
BY AppendProperties, LenProperties

LEMMA PipeGives ==
  ASSUME NEW s \in Seq(Message), s # <<>>
  PROVE  /\ Tail(s) \in Seq(Message) /\ Len(Tail(s)) = Len(s) - 1
         /\ Len(s) \in Nat \ {0} /\ Head(s) = s[1] /\ Head(s) \in Message
         /\ \A i \in 1..Len(Tail(s)) : Tail(s)[i] = s[i + 1] /\ i + 1 \in 2..Len(s)
BY HeadTailProperties, EmptySeq, LenProperties

LEMMA MessageTypes ==
  /\ \A t \in {"request", "cancel", "shutdown", "answer", "response", "ask"},
        c \in Callers \cup {None} :
       Msg(t, c) \in Message /\ Msg(t, c).type = t /\ Msg(t, c).id = c
  /\ \A m \in Message : m.id \in Callers \cup {None}
  /\ \A m \in Message : m.type = "delta" => m.id \in Callers /\ m.n \in 1..MaxDeltas
BY DEF Message, Msg

-----------------------------------------------------------------------------
(* Types.                                                                   *)

\* The sets the parts of the state are in, one name each.
CpcType == [Callers -> {"idle", "register", "send", "wait", "cancel", "returned"}]
ResultType == [Callers -> {None, "response", "ctx", "closed", "write"}]
FinalType == [Streams -> {None, "done", "error"}]
SpcType == [Streams -> {"idle", "open", "finished"}]
HpcType == [Callers -> {"none", "spawned", "asks", "asked", "woken", "aborts", "running", "ended"}]
PipeType(s) == s \in Seq(Message) /\ Len(s) <= PipeCap
BufferType(b) == /\ b \in [Streams -> Seq(1..MaxDeltas)]
                 /\ \A c \in Streams : Len(b[c]) <= DeltaCap

LEMMA TypeParts ==
  /\ TypeOK => /\ cpc \in CpcType /\ result \in ResultType
               /\ ctxDone \in [Callers -> BOOLEAN]
               /\ pending \subseteq Callers /\ answered \subseteq Callers
  /\ TypeOK => /\ spc \in SpcType /\ deltaChans \subseteq Streams
               /\ BufferType(deltaBuf) /\ out \in [Streams -> Seq(1..MaxDeltas)]
               /\ final \in FinalType /\ dropped \in [Streams -> SUBSET (1..MaxDeltas)]
  /\ TypeOK => /\ PipeType(toExt) /\ PipeType(toHost)
               /\ hpc \in HpcType /\ sent \in [Callers -> 0..MaxDeltas]
BY DEF TypeOK, CpcType, ResultType, FinalType, SpcType, HpcType, PipeType, BufferType

LEMMA PipeWritten ==
  ASSUME NEW s, PipeType(s), NEW m \in Message, Len(s) # PipeCap
  PROVE  PipeType(Append(s, m))
<1>1. PipeCap \in Nat /\ Len(s) \in Nat
  BY LenProperties, HostRpcAssumption DEF PipeType
<1> QED
  BY <1>1, PipeGets DEF PipeType

LEMMA WriteTypes ==
  ASSUME PipeType(toExt), NEW c \in Callers \cup {None},
         NEW t \in {"request", "cancel", "shutdown", "answer"}, Write(Msg(t, c))
  PROVE  PipeType(toExt')
BY PipeWritten, MessageTypes DEF Write, Full

LEMMA ExtWriteTypes ==
  ASSUME PipeType(toHost), NEW m \in Message, ExtWrites(m)
  PROVE  PipeType(toHost')
<1>1. Len(toHost) # PipeCap
  BY LenProperties, HostRpcAssumption DEF ExtWrites, PipeType
<1> QED
  BY <1>1, PipeWritten DEF ExtWrites

LEMMA ReadTypes ==
  ASSUME NEW s, PipeType(s), s # <<>>
  PROVE  PipeType(Tail(s))
<1>1. PipeCap \in Nat
  BY HostRpcAssumption
<1> QED
  BY <1>1, PipeGives DEF PipeType

LEMMA CallerTypes ==
  ASSUME TypeOK, NEW c \in Callers, Call(c) \/ ContextEnds(c) \/ Request(c)
  PROVE  TypeOK'
<1> USE DEF Call, ContextEnds, Request, Register, SendRequest, GetResponse, SeeContext,
            SendCancel, SeeClosed, CallGoes, Returns
<1>1. cpc' \in CpcType
  BY TypeParts DEF CpcType
<1>2. result' \in ResultType
  BY TypeParts DEF ResultType
<1>3. /\ ctxDone' \in [Callers -> BOOLEAN]
      /\ pending' \subseteq Callers /\ answered' \subseteq Callers
  BY TypeParts
<1>4. PipeType(toExt')
  BY TypeParts, WriteTypes DEF WriteFails
<1>5. UNCHANGED <<spc, deltaBuf, out, final, dropped, deltaChans, toHost, rpc, rid,
                  later, readDone, stdinClosed, closed, once, stopPc, alive, hung, hpc,
                  cancels, cancelled, sent>>
  BY DEF streamVars, readVars, stopVars, extVars
<1> QED
  BY <1>1, <1>2, <1>3, <1>4, <1>5 DEF TypeOK, CpcType, ResultType, PipeType

LEMMA StreamTypes ==
  ASSUME TypeOK, NEW c \in Streams, StreamStart(c) \/ Stream(c)
  PROVE  TypeOK'
<1> USE DEF StreamStart, Stream, Forward, StreamEnds, StreamAborts
<1>1. cpc' \in CpcType
  BY TypeParts DEF CpcType, callVars, CallGoes
<1>2. spc' \in SpcType /\ deltaChans' \subseteq Streams
  BY TypeParts DEF SpcType
<1>3. final' \in FinalType
  BY TypeParts DEF FinalType
<1>4. BufferType(deltaBuf') /\ out' \in [Streams -> Seq(1..MaxDeltas)]
  <2>1. /\ deltaBuf[c] \in Seq(1..MaxDeltas) /\ out[c] \in Seq(1..MaxDeltas)
        /\ Len(deltaBuf[c]) \in Nat /\ Len(deltaBuf[c]) <= DeltaCap
        /\ DeltaCap \in Nat /\ BufferType(deltaBuf)
        /\ out \in [Streams -> Seq(1..MaxDeltas)]
    BY TypeParts, LenProperties, HostRpcAssumption DEF BufferType
  <2>2. CASE UNCHANGED <<deltaBuf, out>>
    BY <2>1, <2>2
  <2>3. CASE Forward(c)
    <3>1. /\ Tail(deltaBuf[c]) \in Seq(1..MaxDeltas)
          /\ Len(Tail(deltaBuf[c])) = Len(deltaBuf[c]) - 1
          /\ Head(deltaBuf[c]) \in 1..MaxDeltas
      BY <2>1, <2>3, HeadTailProperties
    <3>2. Append(out[c], Head(deltaBuf[c])) \in Seq(1..MaxDeltas)
      BY <2>1, <3>1, AppendProperties
    <3>3. deltaBuf' = [deltaBuf EXCEPT ![c] = Tail(deltaBuf[c])]
      BY <2>3
    <3>4. Len(Tail(deltaBuf[c])) <= DeltaCap
      BY <2>1, <3>1
    <3>5. BufferType(deltaBuf')
      BY <2>1, <3>1, <3>3, <3>4 DEF BufferType
    <3>6. out' \in [Streams -> Seq(1..MaxDeltas)]
      BY <2>1, <2>3, <3>2
    <3> QED
      BY <3>5, <3>6
  <2>4. CASE StreamEnds(c)
    <3>1. /\ <<>> \in Seq(1..MaxDeltas) /\ Len(<<>>) = 0
          /\ out[c] \o deltaBuf[c] \in Seq(1..MaxDeltas)
      BY <2>1, EmptySeq, ConcatProperties
    <3> QED
      BY <2>1, <2>4, <3>1 DEF BufferType
  <2> QED
    BY <2>2, <2>3, <2>4
<1>5. UNCHANGED <<result, ctxDone, answered, pending, dropped, toExt, toHost, rpc, rid,
                  later, readDone, stdinClosed, closed, once, stopPc, alive, hung, hpc,
                  cancels, cancelled, sent>>
  BY DEF callVars, readVars, stopVars, extVars
<1> HIDE DEF StreamStart, Stream, Forward, StreamEnds, StreamAborts
<1> QED
  BY <1>1, <1>2, <1>3, <1>4, <1>5 DEF TypeOK, CpcType, SpcType, FinalType, BufferType

LEMMA ReaderTypes ==
  ASSUME TypeOK, Named, ReadLoop \/ ReadEnds \/ LateAnswers
  PROVE  TypeOK'
<1> USE DEF ReadLoop, ReadResponse, ReadDelta, ReadAsk, ReadCancel, Respond, ReadEnds,
            ReaderCloses, LateAnswers, AnswerLater, ReadsNext
<1>1. PipeType(toHost')
  BY TypeParts, ReadTypes
<1>2. PipeType(toExt')
  <2>1. rid \in Callers \cup {None}
    BY DEF TypeOK
  <2> QED
    BY <2>1, TypeParts, WriteTypes DEF WriteFails
<1>3. pending' \subseteq Callers /\ answered' \subseteq Callers
  BY TypeParts DEF callVars
<1>4. /\ BufferType(deltaBuf')
      /\ dropped' \in [Streams -> SUBSET (1..MaxDeltas)]
  <2>1. BufferType(deltaBuf) /\ dropped \in [Streams -> SUBSET (1..MaxDeltas)]
    BY TypeParts
  <2>2. CASE ReadDelta
    <3>1. Head(toHost) \in Message
      BY <2>2, PipeGives, TypeParts DEF PipeType
    <3>2. Head(toHost).id \in Callers /\ Head(toHost).n \in 1..MaxDeltas
      BY <2>2, <3>1, MessageTypes
    <3> DEFINE c == Head(toHost).id
               n == Head(toHost).n
    <3>3. CASE c \in deltaChans /\ Len(deltaBuf[c]) < DeltaCap
      <4>1. c \in Streams
        BY <3>3, TypeParts
      <4>2. /\ Append(deltaBuf[c], n) \in Seq(1..MaxDeltas)
            /\ Len(Append(deltaBuf[c], n)) = Len(deltaBuf[c]) + 1
            /\ Len(deltaBuf[c]) \in Nat /\ DeltaCap \in Nat
        BY <2>1, <3>2, <4>1, AppendProperties, LenProperties, HostRpcAssumption
        DEF BufferType
      <4>3. deltaBuf' = [deltaBuf EXCEPT ![c] = Append(@, n)] /\ UNCHANGED dropped
        BY <2>2, <3>3
      <4> QED
        BY <2>1, <3>3, <4>1, <4>2, <4>3 DEF BufferType
    <3>4. CASE c \in deltaChans /\ ~(Len(deltaBuf[c]) < DeltaCap)
      BY <2>1, <2>2, <3>2, <3>4
    <3>5. CASE c \notin deltaChans
      BY <2>1, <2>2, <3>5
    <3> QED
      BY <3>3, <3>4, <3>5
  <2>3. CASE UNCHANGED <<deltaBuf, dropped>>
    BY <2>1, <2>3
  <2> QED
    BY <2>2, <2>3 DEF streamVars
<1>5. /\ rpc' \in {"read", "respond", "exit", "ended"} /\ readDone' \in BOOLEAN
      /\ rid' \in Callers \cup {None} /\ later' \subseteq Callers
  <2>1. /\ rpc \in {"read", "respond", "exit", "ended"} /\ readDone \in BOOLEAN
        /\ rid \in Callers \cup {None} /\ later \subseteq Callers
    BY DEF TypeOK
  <2>2. toHost # <<>> => Head(toHost).id \in Callers \cup {None}
    BY PipeGives, MessageTypes, TypeParts DEF PipeType
  <2>3. toHost # <<>> => Head(toHost).id \in Callers
    BY PipeGives, TypeParts DEF PipeType, Named
  <2> QED
    BY <2>1, <2>2, <2>3 DEF readVars
<1>6. once' \in {None, "stop", "reader"} /\ closed' \in BOOLEAN
  <2>1. once \in {None, "stop", "reader"} /\ closed \in BOOLEAN
    BY DEF TypeOK
  <2> QED
    BY <2>1 DEF stopVars
<1>7. UNCHANGED <<cpc, result, ctxDone, spc, out, final, deltaChans, stdinClosed, stopPc,
                  alive, hung, hpc, cancels, cancelled, sent>>
  BY DEF callVars, streamVars, readVars, stopVars, extVars
<1> HIDE DEF ReadLoop, ReadResponse, ReadDelta, ReadAsk, ReadCancel, Respond, ReadEnds,
             ReaderCloses, LateAnswers, AnswerLater, ReadsNext
<1> QED
  BY <1>1, <1>2, <1>3, <1>4, <1>5, <1>6, <1>7 DEF TypeOK, PipeType, BufferType

LEMMA StopTypes ==
  ASSUME TypeOK, StopBegins \/ Stopper
  PROVE  TypeOK'
<1> USE DEF StopBegins, Stopper, StopSends, StopClosesStdin, StopSeesExit, StopKills,
            StopCloses, StopGoes
<1>1. PipeType(toExt')
  BY TypeParts, WriteTypes DEF WriteFails
<1>2. /\ stdinClosed' \in BOOLEAN /\ closed' \in BOOLEAN /\ alive' \in BOOLEAN
      /\ once' \in {None, "stop", "reader"}
  <2>1. /\ stdinClosed \in BOOLEAN /\ closed \in BOOLEAN /\ alive \in BOOLEAN
        /\ once \in {None, "stop", "reader"}
    BY DEF TypeOK
  <2> QED
    BY <2>1
<1>3. stopPc' \in {"idle", "shutdown", "stdin", "wait", "kill", "read", "done"}
  OBVIOUS
<1>4. StopUnchanged
  OBVIOUS
<1>5. UNCHANGED <<cpc, result, ctxDone, answered, pending, spc, deltaBuf, out, final,
                  dropped, deltaChans, toHost, rpc, rid, later, readDone, hung, hpc, cancels,
                  cancelled, sent>>
  BY <1>4 DEF StopUnchanged, callVars, streamVars, readVars, extVars
<1> HIDE DEF StopBegins, Stopper, StopSends, StopClosesStdin, StopSeesExit, StopKills,
             StopCloses, StopGoes
<1> QED
  BY <1>1, <1>2, <1>3, <1>5 DEF TypeOK, PipeType

\* A line of the extension is a message; what it does apart from writing it.
LEMMA ExtTypes ==
  ASSUME TypeOK,
         \/ Extension \/ ExtDies \/ ExtHangs
         \/ \E c \in Streams : SendDelta(c)
  PROVE  TypeOK'
<1> USE DEF Extension, ExtReads, ExtLeaves, Handle, Ask, TakeAnswer, AskAborts, AskCancels,
            Answer,
            SendDelta, ExtDies, ExtHangs, HandlerGoes
<1>0. Streams \subseteq Callers /\ MaxDeltas \in Nat
  BY HostRpcAssumption
<1>1. PipeType(toExt')
  BY TypeParts, ReadTypes
<1>2. PipeType(toHost')
  <2>1. ASSUME NEW c \in Callers, NEW t \in {"ask", "cancel", "response"},
               ExtWrites(Msg(t, c))
        PROVE  PipeType(toHost')
    BY <2>1, TypeParts, ExtWriteTypes, MessageTypes
  <2>2. ASSUME NEW c \in Streams, SendDelta(c)
        PROVE  PipeType(toHost')
    <3>1. sent[c] \in 0..MaxDeltas
      BY <1>0, TypeParts
    <3>2. [type |-> "delta", id |-> c, n |-> sent[c] + 1] \in Message
      BY <1>0, <2>2, <3>1 DEF Message
    <3> QED
      BY <2>2, <3>2, TypeParts, ExtWriteTypes
  <2> QED
    BY <2>1, <2>2, TypeParts
<1>3. hpc' \in HpcType
  <2>1. hpc \in HpcType
    BY TypeParts
  <2>2. CASE ExtReads
    <3>1. UNCHANGED hpc \/ \E c, l : l \in {"spawned", "woken"} /\ HandlerGoes(c, l)
      BY <2>2
    <3> QED
      BY <2>1, <3>1 DEF HpcType
  <2>3. CASE \E c \in Callers : \/ Handle(c) \/ Ask(c) \/ TakeAnswer(c)
                               \/ AskAborts(c) \/ AskCancels(c) \/ Answer(c)
    BY <2>1, <2>3 DEF HpcType
  <2>4. CASE ExtLeaves \/ ExtDies \/ ExtHangs \/ \E c \in Streams : SendDelta(c)
    BY <2>1, <2>4 DEF extVars
  <2> QED
    BY <2>2, <2>3, <2>4
<1>4. cancels' \subseteq Callers /\ cancelled' \subseteq Callers
  <2>1. cancels \subseteq Callers /\ cancelled \subseteq Callers
    BY DEF TypeOK
  <2> QED
    BY <2>1 DEF extVars
<1>5. sent' \in [Callers -> 0..MaxDeltas]
  <2>1. sent \in [Callers -> 0..MaxDeltas]
    BY TypeParts
  <2>2. CASE \E c \in Streams : SendDelta(c)
    BY <1>0, <2>1, <2>2
  <2>3. CASE UNCHANGED sent
    BY <2>1, <2>3
  <2> QED
    BY <2>2, <2>3 DEF extVars
<1>6. alive' \in BOOLEAN /\ hung' \in BOOLEAN
  <2>1. alive \in BOOLEAN /\ hung \in BOOLEAN
    BY DEF TypeOK
  <2> QED
    BY <2>1
<1>7. HostUnchanged
  OBVIOUS
<1>8. UNCHANGED <<cpc, result, ctxDone, answered, pending, spc, deltaBuf, out, final,
                  dropped, deltaChans, rpc, rid, later, readDone, stdinClosed, closed, once,
                  stopPc>>
  BY <1>7 DEF HostUnchanged, callVars, streamVars, readVars, stopVars
<1> HIDE DEF Extension, ExtReads, ExtLeaves, Handle, Ask, TakeAnswer, AskAborts, AskCancels,
             Answer,
             SendDelta, ExtDies, ExtHangs, HandlerGoes
<1> QED
  BY <1>1, <1>2, <1>3, <1>4, <1>5, <1>6, <1>8 DEF TypeOK, PipeType, HpcType

LEMMA TypesKept ==
  ASSUME TypeOK, Named, [Next]_vars
  PROVE  TypeOK'
<1>1. CASE UNCHANGED vars
  BY <1>1 DEF vars, callVars, streamVars, readVars, stopVars, extVars, TypeOK
<1> QED
  BY <1>1, CallerTypes, StreamTypes, ReaderTypes, StopTypes, ExtTypes DEF Next

-----------------------------------------------------------------------------
(* What a step does to the pipes, to the callers and to the handlers.       *)

LEMMA ToExtChanges ==
  ASSUME TypeOK, Named, [Next]_vars
  PROVE  \/ UNCHANGED toExt
         \/ ExtReads
         \/ \E c \in Callers : SendRequest(c) /\ Write(Msg("request", c))
         \/ \E c \in Callers, t \in {"cancel", "answer"} : Write(Msg(t, c)) /\ UNCHANGED hpc
         \/ Write(Msg("shutdown", None)) /\ UNCHANGED hpc
<1> SUFFICES ASSUME ~UNCHANGED toExt, ~ExtReads
             PROVE  \/ \E c \in Callers : SendRequest(c) /\ Write(Msg("request", c))
                    \/ \E c \in Callers, t \in {"cancel", "answer"} :
                         Write(Msg(t, c)) /\ UNCHANGED hpc
                    \/ Write(Msg("shutdown", None)) /\ UNCHANGED hpc
  OBVIOUS
<1>1. ~UNCHANGED vars
  BY DEF vars
<1>2. CASE \E c \in Callers : Call(c) \/ ContextEnds(c) \/ Request(c)
  BY <1>2 DEF Call, ContextEnds, Request, Register, SendRequest, GetResponse, SeeContext,
              SendCancel, SeeClosed, WriteFails, extVars
<1>3. ~\E c \in Streams : StreamStart(c) \/ Stream(c)
  BY DEF StreamStart, Stream, Forward, StreamEnds, StreamAborts
<1>4. CASE ReadLoop \/ ReadEnds \/ LateAnswers
  BY <1>4 DEF ReadLoop, ReadResponse, ReadDelta, ReadAsk, ReadCancel, Respond, ReadEnds,
              ReaderCloses, LateAnswers, AnswerLater, WriteFails, Named, extVars
<1>5. CASE StopBegins \/ Stopper
  BY <1>5 DEF StopBegins, Stopper, StopSends, StopClosesStdin, StopSeesExit, StopKills,
              StopCloses, StopUnchanged, WriteFails, extVars
<1>6. ~(Extension \/ ExtDies \/ ExtHangs \/ \E c \in Streams : SendDelta(c))
  BY DEF Extension, ExtLeaves, Handle, Ask, TakeAnswer, AskAborts, AskCancels, Answer,
         SendDelta, ExtDies,
         ExtHangs
<1> QED
  BY <1>1, <1>2, <1>3, <1>4, <1>5, <1>6 DEF Next

LEMMA ToHostChanges ==
  ASSUME TypeOK, [Next]_vars
  PROVE  \/ UNCHANGED toHost
         \/ ReadResponse \/ ReadDelta \/ ReadAsk \/ ReadCancel
         \/ \E c \in Callers, t \in {"ask", "cancel"} :
              ExtWrites(Msg(t, c)) /\ (Ask(c) \/ AskCancels(c))
         \/ \E c \in Callers : Answer(c)
         \/ \E c \in Streams : SendDelta(c)
<1> SUFFICES ASSUME ~UNCHANGED toHost
             PROVE  \/ ReadResponse \/ ReadDelta \/ ReadAsk \/ ReadCancel
                    \/ \E c \in Callers, t \in {"ask", "cancel"} :
                         ExtWrites(Msg(t, c)) /\ (Ask(c) \/ AskCancels(c))
                    \/ \E c \in Callers : Answer(c)
                    \/ \E c \in Streams : SendDelta(c)
  OBVIOUS
<1>1. ~UNCHANGED vars
  BY DEF vars
<1>2. ~\E c \in Callers : Call(c) \/ ContextEnds(c) \/ Request(c)
  BY DEF Call, ContextEnds, Request, Register, SendRequest, GetResponse, SeeContext,
         SendCancel, SeeClosed
<1>3. ~\E c \in Streams : StreamStart(c) \/ Stream(c)
  BY DEF StreamStart, Stream, Forward, StreamEnds, StreamAborts
<1>4. CASE ReadLoop \/ ReadEnds \/ LateAnswers
  BY <1>4 DEF ReadLoop, Respond, ReadEnds, ReaderCloses, LateAnswers, AnswerLater
<1>5. ~(StopBegins \/ Stopper)
  BY DEF StopBegins, Stopper, StopSends, StopClosesStdin, StopSeesExit, StopKills,
         StopCloses, StopUnchanged
<1>6. CASE Extension \/ ExtDies \/ ExtHangs
  BY <1>6 DEF Extension, ExtReads, ExtLeaves, Handle, Ask, TakeAnswer, AskAborts, AskCancels,
              ExtDies,
              ExtHangs
<1> QED
  BY <1>1, <1>2, <1>3, <1>4, <1>5, <1>6 DEF Next

\* Only callers and the start of a stream move a caller.
LEMMA CallerChanges ==
  ASSUME [Next]_vars
  PROVE  \/ UNCHANGED <<cpc, result>>
         \/ \E c \in Callers : Call(c) \/ ContextEnds(c) \/ Request(c)
         \/ \E c \in Streams : StreamStart(c)
<1>1. CASE \E c \in Streams : Stream(c)
  BY <1>1 DEF Stream, Forward, StreamEnds, StreamAborts, callVars
<1>2. CASE ReadLoop \/ ReadEnds \/ LateAnswers
  BY <1>2 DEF ReadLoop, ReadResponse, ReadDelta, ReadAsk, ReadCancel, Respond, ReadEnds,
              ReaderCloses, LateAnswers, AnswerLater, callVars
<1>3. CASE StopBegins \/ Stopper
  BY <1>3 DEF StopBegins, Stopper, StopSends, StopClosesStdin, StopSeesExit, StopKills,
              StopCloses, StopUnchanged, callVars
<1>4. CASE Extension \/ ExtDies \/ ExtHangs \/ \E c \in Streams : SendDelta(c)
  BY <1>4 DEF Extension, ExtReads, ExtLeaves, Handle, Ask, TakeAnswer, AskAborts, AskCancels,
              Answer,
              SendDelta, ExtDies, ExtHangs, HostUnchanged, callVars
<1>5. CASE UNCHANGED vars
  BY <1>5 DEF vars, callVars
<1> QED
  BY <1>1, <1>2, <1>3, <1>4, <1>5 DEF Next

\* A caller that has sent its request does not go back.
LEMMA SentStays ==
  ASSUME TypeOK, TablesCurrent, [Next]_vars, NEW c \in Callers, Sent(c)
  PROVE  Sent(c)'
<1>0. cpc \in CpcType
  BY TypeParts
<1>1. ASSUME NEW d \in Callers, Call(d) \/ ContextEnds(d) \/ Request(d)
      PROVE  Sent(c)'
  BY <1>0, <1>1 DEF Call, ContextEnds, Request, Register, SendRequest, GetResponse,
     SeeContext, SendCancel, SeeClosed, CallGoes, Returns, Sent, CpcType
<1>2. ASSUME NEW d \in Streams, StreamStart(d)
      PROVE  Sent(c)'
  <2>1. cpc[d] = "idle" /\ (UNCHANGED cpc \/ CallGoes(d, "register"))
    BY <1>2 DEF StreamStart, TablesCurrent
  <2> QED
    BY <1>0, <2>1 DEF Sent, CpcType, CallGoes
<1> QED
  BY <1>1, <1>2, CallerChanges DEF Sent

LEMMA HandlerChanges ==
  ASSUME [Next]_vars
  PROVE  \/ UNCHANGED <<hpc, sent>>
         \/ ExtReads
         \/ \E c \in Callers : \/ Handle(c) \/ Ask(c) \/ TakeAnswer(c)
                              \/ AskAborts(c) \/ AskCancels(c) \/ Answer(c)
         \/ \E c \in Streams : SendDelta(c)
<1>1. CASE \E c \in Callers : Call(c) \/ ContextEnds(c) \/ Request(c)
  BY <1>1 DEF Call, ContextEnds, Request, Register, SendRequest, GetResponse, SeeContext,
              SendCancel, SeeClosed, extVars
<1>2. CASE \E c \in Streams : StreamStart(c) \/ Stream(c)
  BY <1>2 DEF StreamStart, Stream, Forward, StreamEnds, StreamAborts, extVars
<1>3. CASE ReadLoop \/ ReadEnds \/ LateAnswers
  BY <1>3 DEF ReadLoop, ReadResponse, ReadDelta, ReadAsk, ReadCancel, Respond, ReadEnds,
              ReaderCloses, LateAnswers, AnswerLater, extVars
<1>4. CASE StopBegins \/ Stopper
  BY <1>4 DEF StopBegins, Stopper, StopSends, StopClosesStdin, StopSeesExit, StopKills,
              StopCloses, StopUnchanged, extVars
<1>5. CASE ExtLeaves \/ ExtDies \/ ExtHangs \/ UNCHANGED vars
  BY <1>5 DEF ExtLeaves, ExtDies, ExtHangs, vars, extVars
<1> QED
  BY <1>1, <1>2, <1>3, <1>4, <1>5 DEF Next, Extension

\* Apart from the read loop no step starts a handler or forgets one.
LEMMA HandlersStay ==
  ASSUME TypeOK, [Next]_vars, ~ExtReads, NEW c \in Callers
  PROVE  hpc[c] = "none" <=> hpc'[c] = "none"
<1>0. hpc \in HpcType
  BY TypeParts
<1> QED
  BY <1>0, HandlerChanges
  DEF Handle, Ask, TakeAnswer, AskAborts, AskCancels, Answer, SendDelta, HandlerGoes, HpcType

-----------------------------------------------------------------------------
(* The steps keep the invariant.                                            *)

LEMMA NamedKept ==
  ASSUME TypeOK, Named, [Next]_vars
  PROVE  Named'
<1> USE DEF Named
<1>0. toExt \in Seq(Message) /\ toHost \in Seq(Message) /\ TypeOK'
  BY TypeParts, TypesKept DEF PipeType
<1>1. \A i \in 1..Len(toExt') : toExt'[i].type # "shutdown" => toExt'[i].id \in Callers
  <2>1. CASE UNCHANGED toExt
    BY <2>1
  <2>2. CASE ExtReads
    BY <1>0, <2>2, PipeGives DEF ExtReads
  <2>3. ASSUME NEW c \in Callers \cup {None}, NEW t \in {"request", "cancel", "answer", "shutdown"},
               Write(Msg(t, c)), t # "shutdown" => c \in Callers
        PROVE  \A i \in 1..Len(toExt') : toExt'[i].type # "shutdown" => toExt'[i].id \in Callers
    <3>1. Msg(t, c) \in Message /\ Msg(t, c).type = t /\ Msg(t, c).id = c
      BY MessageTypes
    <3> QED
      BY <1>0, <2>3, <3>1, PipeGets DEF Write
  <2> QED
    BY <2>1, <2>2, <2>3, ToExtChanges
<1>2. \A i \in 1..Len(toHost') : toHost'[i].id \in Callers
  <2>1. CASE UNCHANGED toHost
    BY <2>1
  <2>2. CASE ReadResponse \/ ReadDelta \/ ReadAsk \/ ReadCancel
    <3>1. toHost # <<>> /\ toHost' = Tail(toHost)
      BY <2>2 DEF ReadResponse, ReadDelta, ReadAsk, ReadCancel, ReadsNext
    <3> QED
      BY <1>0, <3>1, PipeGives
  <2>3. ASSUME NEW m \in Message, m.id \in Callers, ExtWrites(m)
        PROVE  \A i \in 1..Len(toHost') : toHost'[i].id \in Callers
    BY <1>0, <2>3, PipeGets DEF ExtWrites
  <2>4. ASSUME NEW c \in Streams, SendDelta(c)
        PROVE  \A i \in 1..Len(toHost') : toHost'[i].id \in Callers
    <3> DEFINE m == [type |-> "delta", id |-> c, n |-> sent[c] + 1]
    <3>1. m \in Message /\ m.id \in Callers
      BY <2>4, HostRpcAssumption, TypeParts DEF SendDelta, Message
    <3> QED
      BY <2>3, <2>4, <3>1 DEF SendDelta
  <2>5. ASSUME NEW c \in Callers, NEW t \in {"ask", "cancel", "response"}, ExtWrites(Msg(t, c))
        PROVE  \A i \in 1..Len(toHost') : toHost'[i].id \in Callers
    BY <2>3, <2>5, MessageTypes
  <2> QED
    BY <2>1, <2>2, <2>4, <2>5, ToHostChanges DEF Answer
<1>3. rpc' = "respond" => rid' \in Callers
  <2>1. CASE ReadAsk
    BY <1>0, <2>1, PipeGives DEF ReadAsk, ReadsNext
  <2>2. CASE rpc' # "respond"
    BY <2>2
  <2>3. CASE UNCHANGED <<rpc, rid>>
    BY <2>3
  <2>4. ASSUME ~ReadAsk PROVE rpc' # "respond" \/ UNCHANGED <<rpc, rid>>
    <3>1. CASE \E c \in Callers : Call(c) \/ ContextEnds(c) \/ Request(c)
      BY <3>1 DEF Call, ContextEnds, Request, Register, SendRequest, GetResponse, SeeContext,
              SendCancel, SeeClosed, readVars
    <3>2. CASE \E c \in Streams : StreamStart(c) \/ Stream(c)
      BY <3>2 DEF StreamStart, Stream, Forward, StreamEnds, StreamAborts, readVars
    <3>3. CASE ReadLoop \/ ReadEnds \/ LateAnswers
      BY <2>4, <3>3 DEF ReadLoop, ReadResponse, ReadDelta, ReadCancel, Respond, ReadEnds,
              ReaderCloses, LateAnswers, AnswerLater, readVars
    <3>4. CASE StopBegins \/ Stopper
      BY <3>4 DEF StopBegins, Stopper, StopSends, StopClosesStdin, StopSeesExit, StopKills,
              StopCloses, StopUnchanged, readVars
    <3>5. CASE Extension \/ ExtDies \/ ExtHangs \/ \E c \in Streams : SendDelta(c)
      BY <3>5 DEF Extension, ExtReads, ExtLeaves, Handle, Ask, TakeAnswer, AskAborts,
                  AskCancels, Answer,
              SendDelta, ExtDies, ExtHangs, HostUnchanged, readVars
    <3>6. CASE UNCHANGED vars
      BY <3>6 DEF vars, readVars
    <3> QED
      BY <3>1, <3>2, <3>3, <3>4, <3>5, <3>6 DEF Next
  <2> QED
    BY <2>1, <2>2, <2>3, <2>4
<1> QED
  BY <1>1, <1>2, <1>3

LEMMA RequestsKept ==
  ASSUME TypeOK, Named, RequestsOnce, TablesCurrent, [Next]_vars
  PROVE  RequestsOnce'
<1>0. toExt \in Seq(Message) /\ hpc \in HpcType
  BY TypeParts DEF PipeType
<1> DEFINE At(s, i, c) == i \in 1..Len(s) /\ s[i].type = "request" /\ s[i].id = c
<1>1. CASE ExtReads
  <2>1. toExt # <<>> /\ toExt' = Tail(toExt)
    BY <1>1 DEF ExtReads
  <2> DEFINE m == Head(toExt)
  <2>2. /\ m = toExt[1] /\ 1 \in 1..Len(toExt) /\ Len(toExt') = Len(toExt) - 1
        /\ \A i \in 1..Len(toExt') : toExt'[i] = toExt[i + 1] /\ i + 1 \in 2..Len(toExt)
    BY <1>0, <2>1, PipeGives
  <2>3. UNCHANGED cpc
    BY <1>1 DEF ExtReads, HostUnchanged, callVars
  <2>6. \A c \in Callers : Sent(c)' <=> Sent(c)
    BY <2>3 DEF Sent
  <2>4. CASE m.type = "request"
    <3>1. HandlerGoes(m.id, "spawned")
      BY <1>1, <2>4 DEF ExtReads
    <3>2. m.id \in Callers /\ Sent(m.id)
      BY <2>2, <2>4 DEF Named, RequestsOnce
    <3>3. \A i \in 1..Len(toExt') : toExt'[i].type = "request" => toExt'[i].id # m.id
      BY <2>2, <2>4 DEF RequestsOnce
    <3>4. hpc' = [hpc EXCEPT ![m.id] = "spawned"]
      BY <3>1 DEF HandlerGoes
    <3>5. \A c \in Callers : c # m.id => hpc'[c] = hpc[c]
      BY <1>0, <3>4 DEF HpcType
    <3>6. \A c \in Callers : hpc'[c] # "none" => Sent(c)'
      BY <2>6, <3>2, <3>5 DEF RequestsOnce
    <3>7. ASSUME NEW i \in 1..Len(toExt'), toExt'[i].type = "request"
          PROVE  /\ cpc'[toExt'[i].id] \in {"wait", "cancel", "returned"}
                 /\ hpc'[toExt'[i].id] = "none"
                 /\ \A j \in 1..Len(toExt') :
                      toExt'[j].type = "request" /\ toExt'[j].id = toExt'[i].id => j = i
      <4>1. /\ i + 1 \in 1..Len(toExt) /\ toExt'[i] = toExt[i + 1]
            /\ toExt'[i].id \in Callers /\ toExt'[i].id # m.id
        BY <1>0, <2>2, <3>3, <3>7 DEF Named
      <4>2. Sent(toExt[i + 1].id) /\ hpc[toExt[i + 1].id] = "none"
        BY <3>7, <4>1 DEF RequestsOnce
      <4>3. /\ cpc'[toExt'[i].id] \in {"wait", "cancel", "returned"}
            /\ hpc'[toExt'[i].id] = "none"
        BY <2>3, <3>5, <4>1, <4>2 DEF Sent
      <4>4. ASSUME NEW j \in 1..Len(toExt'), toExt'[j].type = "request",
                   toExt'[j].id = toExt'[i].id
            PROVE  j = i
        <5>1. j + 1 \in 1..Len(toExt) /\ toExt'[j] = toExt[j + 1]
          BY <2>2
        <5>2. j + 1 = i + 1
          BY <3>7, <4>1, <4>4, <5>1 DEF RequestsOnce
        <5> QED
          BY <5>2
      <4> QED
        BY <4>3, <4>4
    <3> QED
      BY <3>6, <3>7 DEF RequestsOnce, Sent
  <2>5. CASE m.type # "request"
    <3>1. UNCHANGED hpc \/ (hpc[m.id] = "asked" /\ HandlerGoes(m.id, "woken"))
      BY <1>1, <2>5 DEF ExtReads
    <3>2. \A c \in Callers : hpc'[c] = "none" <=> hpc[c] = "none"
      BY <1>0, <3>1 DEF HandlerGoes, HpcType
    <3> QED
      BY <1>0, <2>2, <2>3, <3>2 DEF RequestsOnce, Sent, Named
  <2> QED
    BY <2>4, <2>5
<1>2. CASE ~ExtReads
  <2>1. \A c \in Callers : /\ hpc[c] = "none" <=> hpc'[c] = "none"
                           /\ Sent(c) => Sent(c)'
    BY <1>2, HandlersStay, SentStays
  <2>2. \A c \in Callers : hpc'[c] # "none" => Sent(c)'
    BY <2>1 DEF RequestsOnce
  <2>3. CASE UNCHANGED toExt
    BY <2>1, <2>2, <2>3 DEF RequestsOnce, Named
  <2>4. ASSUME NEW c \in Callers \cup {None}, NEW t \in {"cancel", "answer", "shutdown"},
               Write(Msg(t, c))
        PROVE  RequestsOnce'
    <3>1. Msg(t, c) \in Message /\ Msg(t, c).type # "request"
      BY MessageTypes
    <3>2. /\ Len(toExt') = Len(toExt) + 1 /\ Len(toExt) \in Nat
          /\ \A i \in 1..Len(toExt) : toExt'[i] = toExt[i]
          /\ toExt'[Len(toExt) + 1].type # "request"
      BY <1>0, <2>4, <3>1, PipeGets DEF Write
    <3>3. \A i \in 1..Len(toExt') : toExt'[i].type = "request" =>
            i \in 1..Len(toExt) /\ toExt'[i] = toExt[i] /\ toExt[i].id \in Callers
      BY <3>2 DEF Named
    <3> HIDE DEF Sent
    <3> QED
      BY <2>1, <2>2, <3>3 DEF RequestsOnce
  <2>5. ASSUME NEW c \in Callers, SendRequest(c), Write(Msg("request", c))
        PROVE  RequestsOnce'
    <3>1. Msg("request", c) \in Message /\ Msg("request", c).id = c
      BY MessageTypes
    <3>2. /\ Len(toExt') = Len(toExt) + 1 /\ Len(toExt) \in Nat
          /\ \A i \in 1..Len(toExt) : toExt'[i] = toExt[i]
          /\ toExt'[Len(toExt) + 1].id = c
      BY <1>0, <2>5, <3>1, PipeGets DEF Write
    <3>3. ~Sent(c) /\ hpc[c] = "none"
      BY <2>5 DEF SendRequest, Sent, RequestsOnce
    <3>4. Sent(c)'
      <4>1. toExt' # toExt
        BY <3>2
      <4>2. CallGoes(c, "wait") /\ cpc \in CpcType
        BY <2>5, <4>1, TypeParts DEF SendRequest, WriteFails
      <4> QED
        BY <4>2 DEF CallGoes, Sent, CpcType
    <3>5. \A i \in 1..Len(toExt') : toExt'[i].type = "request" =>
            \/ /\ i \in 1..Len(toExt) /\ toExt'[i] = toExt[i]
               /\ toExt[i].id \in Callers /\ toExt[i].id # c
            \/ i = Len(toExt) + 1 /\ toExt'[i].id = c
      BY <3>2, <3>3 DEF Named, RequestsOnce
    <3> QED
      BY <2>1, <2>2, <3>3, <3>4, <3>5 DEF RequestsOnce
  <2> QED
    BY <1>2, <2>3, <2>4, <2>5, ToExtChanges
<1> QED
  BY <1>1, <1>2

LEMMA TablesKept ==
  ASSUME TypeOK, Named, RequestsOnce, TablesCurrent, ResponsesLast, [Next]_vars
  PROVE  TablesCurrent'
<1>0. /\ cpc \in CpcType /\ result \in ResultType /\ spc \in SpcType
      /\ pending \subseteq Callers /\ answered \subseteq Callers
      /\ deltaChans \subseteq Streams /\ Streams \subseteq Callers
  BY TypeParts, HostRpcAssumption
<1>1. ASSUME NEW c \in Callers, Call(c) \/ ContextEnds(c) \/ Request(c)
      PROVE  TablesCurrent'
  <2>1. UNCHANGED <<spc, deltaChans>>
    BY <1>1 DEF Call, ContextEnds, Request, Register, SendRequest, GetResponse, SeeContext,
              SendCancel, SeeClosed, streamVars
  <2>2. cpc'[c] = "idle" => cpc[c] = "idle"
    BY <1>0, <1>1 DEF Call, ContextEnds, Request, Register, SendRequest, GetResponse,
       SeeContext, SendCancel, SeeClosed, CallGoes, Returns, CpcType
  <2>3. \A d \in Callers : d # c => /\ cpc'[d] = cpc[d] /\ result'[d] = result[d]
                                    /\ d \in pending' <=> d \in pending
                                    /\ d \in answered' <=> d \in answered
    BY <1>0, <1>1 DEF Call, ContextEnds, Request, Register, SendRequest, GetResponse,
       SeeContext, SendCancel, SeeClosed, CallGoes, Returns, CpcType, ResultType
  <2>4. /\ c \in pending' => cpc'[c] \in {"send", "wait"}
        /\ c \in answered' => /\ Sent(c)' /\ c \notin pending'
                              /\ cpc'[c] = "returned" => result'[c] \in {"ctx", "closed"}
    <3> USE DEF TablesCurrent, Sent, CallGoes, Returns, CpcType, ResultType
    <3>1. CASE Call(c) \/ ContextEnds(c) \/ Register(c)
      BY <1>0, <3>1 DEF Call, ContextEnds, Register
    <3>2. CASE SendRequest(c)
      BY <1>0, <3>2 DEF SendRequest
    <3>3. CASE GetResponse(c)
      BY <1>0, <3>3 DEF GetResponse
    <3>4. CASE SeeContext(c) \/ SeeClosed(c)
      BY <1>0, <3>4 DEF SeeContext, SeeClosed
    <3>5. CASE SendCancel(c)
      BY <1>0, <3>5 DEF SendCancel
    <3> QED
      BY <1>1, <3>1, <3>2, <3>3, <3>4, <3>5 DEF Request
  <2>5. \A d \in Streams : spc'[d] = "idle" => cpc'[d] = "idle"
    <3>1. CASE c \in Streams /\ spc[c] = "idle"
      <4>1. cpc[c] = "idle"
        BY <3>1 DEF TablesCurrent
      <4> QED
        BY <1>1, <3>1, <4>1 DEF Call, ContextEnds, Request, Register, SendRequest,
           GetResponse, SeeContext, SendCancel, SeeClosed
    <3>2. CASE ~(c \in Streams /\ spc[c] = "idle")
      BY <1>0, <2>1, <2>3, <3>2 DEF TablesCurrent
    <3> QED
      BY <3>1, <3>2
  <2> QED
    BY <2>1, <2>3, <2>4, <2>5 DEF TablesCurrent, Sent
<1>2. ASSUME NEW c \in Streams, StreamStart(c) \/ Stream(c)
      PROVE  TablesCurrent'
  <2> USE DEF TablesCurrent, Sent, SpcType, CpcType
  <2>1. CASE StreamStart(c)
    <3>1. cpc[c] = "idle" /\ c \notin pending /\ c \notin answered
      BY <1>0, <2>1 DEF StreamStart
    <3>2. UNCHANGED <<result, pending, answered>>
      BY <2>1 DEF StreamStart
    <3>3. CASE closed
      BY <1>0, <2>1, <3>1, <3>2, <3>3 DEF StreamStart
    <3>4. CASE ~closed
      BY <1>0, <2>1, <3>1, <3>2, <3>4 DEF StreamStart, CallGoes
    <3> QED
      BY <3>3, <3>4
  <2>2. CASE Forward(c)
    BY <1>0, <2>2 DEF Forward, callVars
  <2>3. CASE StreamEnds(c) \/ StreamAborts(c)
    BY <1>0, <2>3 DEF StreamEnds, StreamAborts, callVars
  <2> QED
    BY <1>2, <2>1, <2>2, <2>3 DEF Stream
<1>3. CASE ReadResponse
  <2> DEFINE c == Head(toHost).id
  <2>1. /\ toHost[1] = Head(toHost) /\ 1 \in 1..Len(toHost)
        /\ toHost[1].type = "response"
    BY <1>3, PipeGives, TypeParts DEF ReadResponse, ReadsNext, PipeType
  <2>2. c \in Callers /\ hpc[c] = "ended"
    BY <2>1 DEF Named, ResponsesLast
  <2>3. Sent(c)
    BY <2>2 DEF RequestsOnce
  <2>4. /\ pending' = pending \ {c}
        /\ answered' = IF c \in pending THEN answered \cup {c} ELSE answered
        /\ UNCHANGED <<cpc, result, spc, deltaChans>>
    BY <1>3 DEF ReadResponse, streamVars
  <2>5. c \in pending => cpc[c] = "wait"
    BY <2>2, <2>3 DEF TablesCurrent, Sent
  <2> QED
    BY <1>0, <2>2, <2>3, <2>4, <2>5 DEF TablesCurrent, Sent
<1>4. CASE UNCHANGED <<cpc, result, pending, answered, spc, deltaChans>>
  BY <1>4 DEF TablesCurrent, Sent
<1>5. CASE ReadLoop \/ ReadEnds \/ LateAnswers
  <2>1. CASE ~ReadResponse
    BY <1>4, <1>5, <2>1 DEF ReadLoop, ReadDelta, ReadAsk, ReadCancel, Respond, ReadEnds,
              ReaderCloses, LateAnswers, AnswerLater, callVars, streamVars
  <2> QED
    BY <1>3, <2>1
<1>6. CASE StopBegins \/ Stopper
  BY <1>4, <1>6 DEF StopBegins, Stopper, StopSends, StopClosesStdin, StopSeesExit, StopKills,
              StopCloses, StopUnchanged, callVars, streamVars
<1>7. CASE Extension \/ ExtDies \/ ExtHangs \/ \E c \in Streams : SendDelta(c)
  BY <1>4, <1>7 DEF Extension, ExtReads, ExtLeaves, Handle, Ask, TakeAnswer, AskAborts,
                    AskCancels, Answer,
              SendDelta, ExtDies, ExtHangs, HostUnchanged, callVars, streamVars
<1>8. CASE UNCHANGED vars
  BY <1>4, <1>8 DEF vars, callVars, streamVars
<1> QED
  BY <1>1, <1>2, <1>5, <1>6, <1>7, <1>8 DEF Next

\* A handler that has ended stays so.
LEMMA EndedStays ==
  ASSUME TypeOK, Named, RequestsOnce, [Next]_vars, NEW c \in Callers, hpc[c] = "ended"
  PROVE  hpc'[c] = "ended"
<1>0. hpc \in HpcType /\ toExt \in Seq(Message)
  BY TypeParts DEF PipeType
<1>1. CASE ExtReads
  <2>1. toExt # <<>> /\ Head(toExt) = toExt[1] /\ 1 \in 1..Len(toExt)
    BY <1>0, <1>1, PipeGives DEF ExtReads
  <2>2. Head(toExt).type = "request" => hpc[Head(toExt).id] = "none"
    BY <2>1 DEF RequestsOnce
  <2>3. \/ UNCHANGED hpc
        \/ \E d, l : hpc[d] \in {"none", "asked"} /\ HandlerGoes(d, l)
    BY <1>1, <2>2 DEF ExtReads
  <2> QED
    BY <1>0, <2>3 DEF HandlerGoes, HpcType
<1>2. CASE ~ExtReads
  BY <1>0, <1>2, HandlerChanges
  DEF Handle, Ask, TakeAnswer, AskAborts, AskCancels, Answer, SendDelta, HandlerGoes, HpcType
<1> QED
  BY <1>1, <1>2

\* A response that has arrived or been taken was in the pipe before.
LEMMA ResponsesChange ==
  ASSUME TypeOK, [Next]_vars, ~ReadResponse, NEW c \in Callers,
         c \in answered' \/ result'[c] = "response"
  PROVE  c \in answered \/ result[c] = "response"
<1>0. result \in ResultType
  BY TypeParts
<1>1. ASSUME NEW d \in Callers, Call(d) \/ ContextEnds(d) \/ Request(d)
      PROVE  c \in answered \/ result[c] = "response"
  BY <1>0, <1>1 DEF Call, ContextEnds, Request, Register, SendRequest, GetResponse,
     SeeContext, SendCancel, SeeClosed, CallGoes, Returns, ResultType
<1>2. CASE UNCHANGED <<answered, result>>
  BY <1>2
<1>3. CASE \E d \in Streams : StreamStart(d) \/ Stream(d)
  BY <1>2, <1>3 DEF StreamStart, Stream, Forward, StreamEnds, StreamAborts, callVars
<1>4. CASE ReadLoop \/ ReadEnds \/ LateAnswers
  BY <1>2, <1>4 DEF ReadLoop, ReadDelta, ReadAsk, ReadCancel, Respond, ReadEnds,
              ReaderCloses, LateAnswers, AnswerLater, callVars
<1>5. CASE StopBegins \/ Stopper
  BY <1>2, <1>5 DEF StopBegins, Stopper, StopSends, StopClosesStdin, StopSeesExit, StopKills,
              StopCloses, StopUnchanged, callVars
<1>6. CASE Extension \/ ExtDies \/ ExtHangs \/ \E d \in Streams : SendDelta(d)
  BY <1>2, <1>6 DEF Extension, ExtReads, ExtLeaves, Handle, Ask, TakeAnswer, AskAborts,
                    AskCancels, Answer,
              SendDelta, ExtDies, ExtHangs, HostUnchanged, callVars
<1>7. CASE UNCHANGED vars
  BY <1>2, <1>7 DEF vars, callVars
<1> QED
  BY <1>1, <1>3, <1>4, <1>5, <1>6, <1>7 DEF Next

LEMMA ResponsesKept ==
  ASSUME TypeOK, Named, RequestsOnce, TablesCurrent, ResponsesLast, [Next]_vars
  PROVE  ResponsesLast'
<1>0. toHost \in Seq(Message) /\ hpc \in HpcType /\ result \in ResultType
  BY TypeParts DEF PipeType
<1>1. \A c \in Callers : hpc[c] = "ended" => hpc'[c] = "ended"
  BY EndedStays
<1>2. CASE UNCHANGED toHost
  <2>1. ~ReadResponse
    BY <1>0, <1>2, PipeGives DEF ReadResponse, ReadsNext
  <2> QED
    BY <1>1, <1>2, <2>1, ResponsesChange DEF ResponsesLast, Named
<1>3. CASE ReadResponse \/ ReadDelta \/ ReadAsk \/ ReadCancel
  <2>1. /\ Len(toHost') = Len(toHost) - 1 /\ 1 \in 1..Len(toHost)
        /\ Head(toHost) = toHost[1]
        /\ \A i \in 1..Len(toHost') : toHost'[i] = toHost[i + 1] /\ i + 1 \in 2..Len(toHost)
    BY <1>0, <1>3, PipeGives DEF ReadResponse, ReadDelta, ReadAsk, ReadCancel, ReadsNext
  <2>2. ASSUME NEW i \in 1..Len(toHost'), toHost'[i].type = "response"
        PROVE  /\ hpc'[toHost'[i].id] = "ended"
               /\ \A j \in i..Len(toHost') : ~IsDelta(toHost'[j], toHost'[i].id)
    <3>1. /\ toHost'[i] = toHost[i + 1] /\ i + 1 \in 1..Len(toHost)
          /\ toHost[i + 1].type = "response" /\ toHost[i + 1].id \in Callers
      BY <2>1, <2>2 DEF Named
    <3>2. /\ hpc[toHost[i + 1].id] = "ended"
          /\ \A j \in (i + 1)..Len(toHost) : ~IsDelta(toHost[j], toHost[i + 1].id)
      BY <3>1 DEF ResponsesLast
    <3>3. \A j \in i..Len(toHost') : /\ toHost'[j] = toHost[j + 1]
                                     /\ j + 1 \in (i + 1)..Len(toHost)
      BY <2>1
    <3> QED
      BY <1>1, <3>1, <3>2, <3>3
  <2>3. ASSUME NEW c \in Callers, c \in answered' \/ result'[c] = "response"
        PROVE  hpc'[c] = "ended" /\ \A j \in 1..Len(toHost') : ~IsDelta(toHost'[j], c)
    <3>1. CASE c \in answered \/ result[c] = "response"
      <4>1. hpc[c] = "ended" /\ \A j \in 1..Len(toHost) : ~IsDelta(toHost[j], c)
        BY <3>1 DEF ResponsesLast
      <4> QED
        BY <1>1, <2>1, <4>1
    <3>2. CASE ReadResponse /\ c = Head(toHost).id
      <4>1. toHost[1].type = "response" /\ toHost[1].id = c
        BY <2>1, <3>2 DEF ReadResponse, ReadsNext
      <4>2. hpc[c] = "ended" /\ \A j \in 1..Len(toHost) : ~IsDelta(toHost[j], c)
        BY <2>1, <4>1 DEF ResponsesLast
      <4> QED
        BY <1>1, <2>1, <4>2
    <3>3. c \in answered \/ result[c] = "response" \/ (ReadResponse /\ c = Head(toHost).id)
      BY <2>3, ResponsesChange DEF ReadResponse
    <3> QED
      BY <3>1, <3>2, <3>3
  <2> QED
    BY <2>2, <2>3 DEF ResponsesLast
<1>4. ASSUME NEW m \in Message, m.id \in Callers, ExtWrites(m), ~ReadResponse,
             m.type = "response" => hpc'[m.id] = "ended",
             m.type = "delta" => hpc[m.id] # "ended"
      PROVE  ResponsesLast'
  <2>1. /\ Len(toHost') = Len(toHost) + 1 /\ Len(toHost) \in Nat
        /\ \A i \in 1..Len(toHost) : toHost'[i] = toHost[i]
        /\ toHost'[Len(toHost) + 1] = m
    BY <1>0, <1>4, PipeGets DEF ExtWrites
  <2>2. ASSUME NEW i \in 1..Len(toHost'), toHost'[i].type = "response"
        PROVE  /\ hpc'[toHost'[i].id] = "ended"
               /\ \A j \in i..Len(toHost') : ~IsDelta(toHost'[j], toHost'[i].id)
    <3>1. CASE i = Len(toHost) + 1
      <4>1. toHost'[i] = m /\ \A j \in i..Len(toHost') : j = i
        BY <2>1, <3>1
      <4> QED
        BY <1>4, <2>2, <4>1 DEF IsDelta
    <3>2. CASE i \in 1..Len(toHost)
      <4>1. toHost'[i] = toHost[i] /\ toHost[i].id \in Callers
        BY <2>1, <3>2 DEF Named
      <4>2. /\ hpc[toHost[i].id] = "ended"
            /\ \A j \in i..Len(toHost) : ~IsDelta(toHost[j], toHost[i].id)
        BY <2>2, <3>2, <4>1 DEF ResponsesLast
      <4>3. ~IsDelta(m, toHost[i].id)
        BY <1>4, <4>2 DEF IsDelta
      <4>4. \A j \in i..Len(toHost') : \/ j \in i..Len(toHost) /\ toHost'[j] = toHost[j]
                                       \/ toHost'[j] = m
        BY <2>1, <3>2
      <4> QED
        BY <1>1, <4>1, <4>2, <4>3, <4>4
    <3> QED
      BY <2>1, <3>1, <3>2
  <2>3. ASSUME NEW c \in Callers, c \in answered' \/ result'[c] = "response"
        PROVE  hpc'[c] = "ended" /\ \A j \in 1..Len(toHost') : ~IsDelta(toHost'[j], c)
    <3>1. hpc[c] = "ended" /\ \A j \in 1..Len(toHost) : ~IsDelta(toHost[j], c)
      BY <1>4, <2>3, ResponsesChange DEF ResponsesLast
    <3>2. ~IsDelta(m, c)
      BY <1>4, <3>1 DEF IsDelta
    <3> QED
      BY <1>1, <2>1, <3>1, <3>2
  <2> QED
    BY <2>2, <2>3 DEF ResponsesLast
<1>5. ASSUME NEW c \in Callers, NEW t \in {"ask", "cancel"}, ExtWrites(Msg(t, c)),
             Ask(c) \/ AskCancels(c)
      PROVE  ResponsesLast'
  <2>1. Msg(t, c) \in Message /\ Msg(t, c).type = t /\ Msg(t, c).id = c
    BY MessageTypes
  <2>2. ~ReadResponse
    BY <1>0, <1>5, <2>1, PipeGets, PipeGives DEF ReadResponse, ExtWrites, ReadsNext
  <2> QED
    BY <1>4, <1>5, <2>1, <2>2
<1>6. ASSUME NEW c \in Callers, Answer(c)
      PROVE  ResponsesLast'
  <2>1. /\ Msg("response", c) \in Message /\ Msg("response", c).type = "response"
        /\ Msg("response", c).id = c
    BY MessageTypes
  <2>2. ExtWrites(Msg("response", c)) /\ hpc'[c] = "ended"
    BY <1>0, <1>6 DEF Answer, HandlerGoes, HpcType
  <2>3. ~ReadResponse
    BY <1>0, <2>1, <2>2, PipeGets, PipeGives DEF ReadResponse, ExtWrites, ReadsNext
  <2> QED
    BY <1>4, <2>1, <2>2, <2>3
<1>7. ASSUME NEW c \in Streams, SendDelta(c)
      PROVE  ResponsesLast'
  <2> DEFINE m == [type |-> "delta", id |-> c, n |-> sent[c] + 1]
  <2>1. m \in Message /\ m.type = "delta" /\ m.id = c /\ c \in Callers
    BY <1>7, HostRpcAssumption, TypeParts DEF SendDelta, Message
  <2>2. ExtWrites(m) /\ hpc[c] # "ended"
    BY <1>7 DEF SendDelta
  <2> HIDE DEF m
  <2>3. ~ReadResponse
    BY <1>0, <2>1, <2>2, PipeGets, PipeGives DEF ReadResponse, ExtWrites, ReadsNext
  <2> QED
    BY <1>4, <2>1, <2>2, <2>3
<1> QED
  BY <1>2, <1>3, <1>5, <1>6, <1>7, ToHostChanges

-----------------------------------------------------------------------------
(* Sequences of deltas.                                                     *)

LEMMA OneMore ==
  ASSUME NEW N \in Nat, NEW s \in Seq(1..N), NEW e \in 1..N
  PROVE  /\ Elements(Append(s, e)) = Elements(s) \cup {e}
         /\ Increasing(s) /\ (\A m \in Elements(s) : m < e) => Increasing(Append(s, e))
<1> DEFINE t == Append(s, e)
<1>1. /\ Len(t) = Len(s) + 1 /\ Len(s) \in Nat
      /\ \A i \in 1..Len(s) : t[i] = s[i] /\ s[i] \in 1..N
      /\ t[Len(s) + 1] = e
  BY AppendProperties, LenProperties, ElementOfSeq
<1> HIDE DEF t
<1>0. Len(t) = Len(s) + 1 /\ Len(s) \in Nat
  BY <1>1
<1>4. \A i \in 1..Len(t) : i \in 1..Len(s) \/ i = Len(s) + 1
  BY <1>0
<1>5. (\A i \in 1..Len(s) : i \in 1..Len(t)) /\ Len(s) + 1 \in 1..Len(t)
  BY <1>0
<1>2. Elements(t) = Elements(s) \cup {e}
  <2>1. Elements(t) \subseteq Elements(s) \cup {e}
    BY <1>1, <1>4 DEF Elements
  <2>2. Elements(s) \cup {e} \subseteq Elements(t)
    BY <1>1, <1>5 DEF Elements
  <2> QED
    BY <2>1, <2>2
<1>3. ASSUME Increasing(s), \A m \in Elements(s) : m < e
      PROVE  Increasing(t)
  <2> SUFFICES ASSUME NEW i \in 1..Len(t), NEW j \in 1..Len(t), i < j PROVE t[i] < t[j]
    BY DEF Increasing
  <2>1. i \in 1..Len(s)
    BY <1>1
  <2>2. CASE j \in 1..Len(s)
    BY <1>1, <1>3, <2>1, <2>2 DEF Increasing
  <2>3. CASE j = Len(s) + 1
    BY <1>1, <1>3, <2>1, <2>3 DEF Elements
  <2> QED
    BY <1>4, <2>2, <2>3
<1> QED
  BY <1>2, <1>3 DEF t

LEMMA OneLess ==
  ASSUME NEW N \in Nat, NEW s \in Seq(1..N), s # <<>>
  PROVE  /\ Head(s) \in 1..N /\ Elements(s) = Elements(Tail(s)) \cup {Head(s)}
         /\ Increasing(s) => /\ Increasing(Tail(s))
                             /\ \A m \in Elements(Tail(s)) : Head(s) < m
<1> DEFINE t == Tail(s)
<1>1. /\ Len(t) = Len(s) - 1 /\ Len(s) \in Nat \ {0} /\ Head(s) = s[1]
      /\ \A i \in 1..Len(t) : t[i] = s[i + 1] /\ i + 1 \in 2..Len(s)
      /\ \A i \in 1..Len(s) : s[i] \in 1..N
  BY HeadTailProperties, EmptySeq, LenProperties, ElementOfSeq
<1> HIDE DEF t
<1>2. Elements(s) = Elements(t) \cup {s[1]}
  <2>1. \A i \in 1..Len(s) : i = 1 \/ (i - 1 \in 1..Len(t) /\ t[i - 1] = s[i])
    BY <1>1
  <2>2. Elements(s) \subseteq Elements(t) \cup {s[1]}
    BY <2>1 DEF Elements
  <2>3. 1 \in 1..Len(s) /\ \A i \in 1..Len(t) : i + 1 \in 1..Len(s) /\ t[i] = s[i + 1]
    BY <1>1
  <2>4. Elements(t) \cup {s[1]} \subseteq Elements(s)
    BY <2>3 DEF Elements
  <2> QED
    BY <2>2, <2>4
<1>3. ASSUME Increasing(s)
      PROVE  Increasing(t) /\ \A m \in Elements(t) : s[1] < m
  <2>1. 1 \in 1..Len(s) /\ \A i \in 1..Len(t) : /\ i + 1 \in 1..Len(s) /\ t[i] = s[i + 1]
                                                /\ 1 < i + 1
    BY <1>1
  <2>2. \A m \in Elements(t) : s[1] < m
    BY <1>3, <2>1 DEF Increasing, Elements
  <2>3. \A i, j \in 1..Len(t) : i < j => i + 1 < j + 1
    BY <1>1
  <2>4. Increasing(t)
    BY <1>3, <2>1, <2>3 DEF Increasing
  <2> QED
    BY <2>2, <2>4
<1> QED
  BY <1>1, <1>2, <1>3 DEF t

LEMMA Joined ==
  ASSUME NEW N \in Nat, NEW s \in Seq(1..N), NEW t \in Seq(1..N)
  PROVE  /\ Elements(s \o t) = Elements(s) \cup Elements(t)
         /\ Increasing(s) /\ Increasing(t) /\ (\A m \in Elements(s), n \in Elements(t) : m < n)
            => Increasing(s \o t)
<1> DEFINE u == s \o t
<1>1. /\ Len(u) = Len(s) + Len(t) /\ Len(s) \in Nat /\ Len(t) \in Nat
      /\ \A i \in 1..Len(u) : u[i] = IF i <= Len(s) THEN s[i] ELSE t[i - Len(s)]
  BY ConcatProperties, LenProperties
<1> HIDE DEF u
<1>2. \A i \in 1..Len(u) : \/ i \in 1..Len(s) /\ u[i] = s[i]
                           \/ i - Len(s) \in 1..Len(t) /\ u[i] = t[i - Len(s)]
  <2> SUFFICES ASSUME NEW i \in 1..Len(u)
               PROVE  \/ i \in 1..Len(s) /\ u[i] = s[i]
                      \/ i - Len(s) \in 1..Len(t) /\ u[i] = t[i - Len(s)]
    OBVIOUS
  <2>1. u[i] = IF i <= Len(s) THEN s[i] ELSE t[i - Len(s)]
    BY <1>1
  <2>2. i <= Len(s) => i \in 1..Len(s)
    BY <1>1
  <2>3. ~(i <= Len(s)) => i - Len(s) \in 1..Len(t)
    BY <1>1
  <2> QED
    BY <2>1, <2>2, <2>3
<1>3. /\ \A i \in 1..Len(s) : i \in 1..Len(u) /\ u[i] = s[i]
      /\ \A i \in 1..Len(t) : i + Len(s) \in 1..Len(u) /\ u[i + Len(s)] = t[i]
  <2>1. ASSUME NEW i \in 1..Len(s) PROVE i \in 1..Len(u) /\ u[i] = s[i]
    BY <1>1
  <2>2. ASSUME NEW i \in 1..Len(t) PROVE i + Len(s) \in 1..Len(u) /\ u[i + Len(s)] = t[i]
    <3>1. i + Len(s) \in 1..Len(u) /\ ~(i + Len(s) <= Len(s)) /\ (i + Len(s)) - Len(s) = i
      BY <1>1
    <3> QED
      BY <1>1, <3>1
  <2> QED
    BY <2>1, <2>2
<1>4. Elements(u) = Elements(s) \cup Elements(t)
  <2>1. Elements(u) \subseteq Elements(s) \cup Elements(t)
    BY <1>2 DEF Elements
  <2>2. Elements(s) \subseteq Elements(u)
    BY <1>3 DEF Elements
  <2>3. Elements(t) \subseteq Elements(u)
    BY <1>3 DEF Elements
  <2> QED
    BY <2>1, <2>2, <2>3
<1>5. ASSUME Increasing(s), Increasing(t), \A m \in Elements(s), n \in Elements(t) : m < n
      PROVE  Increasing(u)
  <2> SUFFICES ASSUME NEW i \in 1..Len(u), NEW j \in 1..Len(u), i < j PROVE u[i] < u[j]
    BY DEF Increasing
  <2>1. CASE j \in 1..Len(s)
    BY <1>1, <1>5, <2>1 DEF Increasing
  <2>2. CASE i \in 1..Len(s) /\ j - Len(s) \in 1..Len(t)
    <3>1. u[i] = s[i] /\ u[j] = t[j - Len(s)]
      BY <1>1, <2>2
    <3> QED
      BY <1>5, <2>2, <3>1 DEF Elements
  <2>3. CASE i - Len(s) \in 1..Len(t)
    <3>1. j - Len(s) \in 1..Len(t) /\ i - Len(s) < j - Len(s)
      BY <1>1, <2>3
    <3>2. u[i] = t[i - Len(s)] /\ u[j] = t[j - Len(s)]
      BY <1>1, <2>3, <3>1
    <3> QED
      BY <1>5, <2>3, <3>1, <3>2 DEF Increasing
  <2> QED
    BY <1>1, <2>1, <2>2, <2>3
<1> QED
  BY <1>4, <1>5 DEF u

-----------------------------------------------------------------------------
(* What a step does to the stream c.                                        *)

\* The reader finds a delta of c, and a channel for it.
Takes(c) == ReadDelta /\ Head(toHost).id = c /\ c \in deltaChans
SameData(c) == UNCHANGED <<out[c], deltaBuf[c], dropped[c], sent[c]>>

LEMMA DataChanges ==
  ASSUME TypeOK, [Next]_vars, NEW c \in Streams
  PROVE  SameData(c) \/ Forward(c) \/ StreamEnds(c) \/ Takes(c) \/ SendDelta(c)
<1>0. /\ out \in [Streams -> Seq(1..MaxDeltas)] /\ BufferType(deltaBuf)
      /\ dropped \in [Streams -> SUBSET (1..MaxDeltas)]
      /\ sent \in [Callers -> 0..MaxDeltas] /\ Streams \subseteq Callers
  BY TypeParts, HostRpcAssumption
<1>1. CASE UNCHANGED <<out, deltaBuf, dropped, sent>>
  BY <1>1 DEF SameData
<1>2. CASE \E d \in Callers : Call(d) \/ ContextEnds(d) \/ Request(d)
  BY <1>1, <1>2 DEF Call, ContextEnds, Request, Register, SendRequest, GetResponse, SeeContext,
              SendCancel, SeeClosed, streamVars, extVars
<1>3. ASSUME NEW d \in Streams, StreamStart(d) \/ Stream(d)
      PROVE  SameData(c) \/ Forward(c) \/ StreamEnds(c)
  <2>1. CASE StreamStart(d) \/ StreamAborts(d)
    BY <2>1 DEF StreamStart, StreamAborts, extVars, SameData
  <2>2. CASE Forward(d)
    BY <1>0, <2>2 DEF Forward, extVars, SameData, BufferType
  <2>3. CASE StreamEnds(d)
    BY <1>0, <2>3 DEF StreamEnds, extVars, SameData, BufferType
  <2> QED
    BY <1>3, <2>1, <2>2, <2>3 DEF Stream
<1>4. CASE ReadLoop \/ ReadEnds \/ LateAnswers
  <2>1. CASE ReadDelta
    BY <1>0, <2>1 DEF ReadDelta, extVars, SameData, BufferType, Takes
  <2>2. CASE ~ReadDelta
    BY <1>1, <1>4, <2>2 DEF ReadLoop, ReadResponse, ReadAsk, ReadCancel, Respond, ReadEnds,
              ReaderCloses, LateAnswers, AnswerLater, streamVars, extVars
  <2> QED
    BY <2>1, <2>2
<1>5. CASE StopBegins \/ Stopper
  BY <1>1, <1>5 DEF StopBegins, Stopper, StopSends, StopClosesStdin, StopSeesExit, StopKills,
              StopCloses, StopUnchanged, streamVars, extVars
<1>6. CASE Extension \/ ExtDies \/ ExtHangs
  BY <1>1, <1>6 DEF Extension, ExtReads, ExtLeaves, Handle, Ask, TakeAnswer, AskAborts,
                    AskCancels, Answer,
              ExtDies, ExtHangs, HostUnchanged, streamVars, extVars
<1>7. ASSUME NEW d \in Streams, SendDelta(d)
      PROVE  SameData(c) \/ SendDelta(c)
  BY <1>0, <1>7 DEF SendDelta, HostUnchanged, streamVars, SameData
<1>8. CASE UNCHANGED vars
  BY <1>1, <1>8 DEF vars, streamVars, extVars
<1> QED
  BY <1>2, <1>3, <1>4, <1>5, <1>6, <1>7, <1>8 DEF Next

\* A handler that has started stays started.
LEMMA StartedStays ==
  ASSUME TypeOK, [Next]_vars, NEW c \in Callers, hpc[c] # "none"
  PROVE  hpc'[c] # "none"
<1>0. hpc \in HpcType
  BY TypeParts
<1>1. CASE ExtReads
  <2>1. UNCHANGED hpc \/ \E d : HandlerGoes(d, "spawned") \/ HandlerGoes(d, "woken")
    BY <1>1 DEF ExtReads
  <2> QED
    BY <1>0, <2>1 DEF HandlerGoes, HpcType
<1> QED
  BY <1>1, HandlersStay

\* A stream opens once, from idle, and ends with its message only there.
LEMMA StreamChanges ==
  ASSUME TypeOK, [Next]_vars, NEW c \in Streams
  PROVE  /\ spc'[c] = "open" => spc[c] \in {"idle", "open"}
         /\ spc[c] = "finished" => spc'[c] = "finished"
         /\ final'[c] = "done" => final[c] = "done" \/ StreamEnds(c)
<1>0. spc \in SpcType /\ final \in FinalType
  BY TypeParts
<1>1. CASE UNCHANGED <<spc, final>>
  BY <1>0, <1>1 DEF SpcType
<1>2. CASE \E d \in Callers : Call(d) \/ ContextEnds(d) \/ Request(d)
  BY <1>1, <1>2 DEF Call, ContextEnds, Request, Register, SendRequest, GetResponse, SeeContext,
              SendCancel, SeeClosed, streamVars
<1>3. ASSUME NEW d \in Streams, StreamStart(d) \/ Stream(d)
      PROVE  /\ spc'[c] = "open" => spc[c] \in {"idle", "open"}
             /\ spc[c] = "finished" => spc'[c] = "finished"
             /\ final'[c] = "done" => final[c] = "done" \/ StreamEnds(c)
  <2> USE DEF SpcType, FinalType
  <2>1. CASE StreamStart(d)
    BY <1>0, <2>1 DEF StreamStart
  <2>2. CASE Forward(d)
    BY <1>0, <2>2 DEF Forward
  <2>3. CASE StreamEnds(d)
    BY <1>0, <2>3 DEF StreamEnds
  <2>4. CASE StreamAborts(d)
    BY <1>0, <2>4 DEF StreamAborts
  <2> QED
    BY <1>3, <2>1, <2>2, <2>3, <2>4 DEF Stream
<1>4. CASE ReadLoop \/ ReadEnds \/ LateAnswers
  BY <1>1, <1>4 DEF ReadLoop, ReadResponse, ReadDelta, ReadAsk, ReadCancel, Respond, ReadEnds,
              ReaderCloses, LateAnswers, AnswerLater, streamVars
<1>5. CASE StopBegins \/ Stopper
  BY <1>1, <1>5 DEF StopBegins, Stopper, StopSends, StopClosesStdin, StopSeesExit, StopKills,
              StopCloses, StopUnchanged, streamVars
<1>6. CASE Extension \/ ExtDies \/ ExtHangs \/ \E d \in Streams : SendDelta(d)
  BY <1>1, <1>6 DEF Extension, ExtReads, ExtLeaves, Handle, Ask, TakeAnswer, AskAborts,
                    AskCancels, Answer,
              SendDelta, ExtDies, ExtHangs, HostUnchanged, streamVars
<1>7. CASE UNCHANGED vars
  BY <1>1, <1>7 DEF vars, streamVars
<1> QED
  BY <1>2, <1>3, <1>4, <1>5, <1>6, <1>7 DEF Next

\* A caller that has returned changes no more.
LEMMA ReturnedStays ==
  ASSUME TypeOK, TablesCurrent, [Next]_vars, NEW c \in Callers, cpc[c] = "returned"
  PROVE  cpc'[c] = "returned" /\ result'[c] = result[c]
<1>0. cpc \in CpcType /\ result \in ResultType
  BY TypeParts
<1>1. ASSUME NEW d \in Callers, Call(d) \/ ContextEnds(d) \/ Request(d)
      PROVE  cpc'[c] = "returned" /\ result'[c] = result[c]
  BY <1>0, <1>1 DEF Call, ContextEnds, Request, Register, SendRequest, GetResponse,
     SeeContext, SendCancel, SeeClosed, CallGoes, Returns, CpcType, ResultType
<1>2. ASSUME NEW d \in Streams, StreamStart(d)
      PROVE  cpc'[c] = "returned" /\ result'[c] = result[c]
  <2>1. cpc[d] = "idle" /\ (UNCHANGED cpc \/ CallGoes(d, "register")) /\ UNCHANGED result
    BY <1>2 DEF StreamStart, TablesCurrent
  <2> QED
    BY <1>0, <2>1 DEF CpcType, CallGoes
<1> QED
  BY <1>1, <1>2, CallerChanges

\* Where a delta of c is after a step that leaves what the host has of c alone:
\* all that are in the pipe were in it, as far apart and in the same order; ...
LEMMA PipeShifts ==
  ASSUME TypeOK, [Next]_vars, NEW c \in Streams, ~SendDelta(c)
  PROVE  \E k \in {0, 1} : \A i \in 1..Len(toHost') : IsDelta(toHost'[i], c) =>
           i + k \in 1..Len(toHost) /\ toHost'[i] = toHost[i + k]
<1>0. toHost \in Seq(Message)
  BY TypeParts DEF PipeType
<1> DEFINE Shift(k) == \A i \in 1..Len(toHost') : IsDelta(toHost'[i], c) =>
                         i + k \in 1..Len(toHost) /\ toHost'[i] = toHost[i + k]
<1>1. CASE UNCHANGED toHost
  <2>1. Len(toHost) \in Nat
    BY <1>0, LenProperties
  <2> QED
    BY <1>1, <2>1
<1>2. CASE ReadResponse \/ ReadDelta \/ ReadAsk \/ ReadCancel
  <2>1. toHost # <<>> /\ toHost' = Tail(toHost)
    BY <1>2 DEF ReadResponse, ReadDelta, ReadAsk, ReadCancel, ReadsNext
  <2>2. Shift(1)
    BY <1>0, <2>1, PipeGives
  <2> QED
    BY <2>2
<1>3. ASSUME NEW m \in Message, ExtWrites(m), ~IsDelta(m, c)
      PROVE  Shift(0)
  <2>1. /\ Len(toHost') = Len(toHost) + 1 /\ Len(toHost) \in Nat
        /\ \A i \in 1..Len(toHost) : toHost'[i] = toHost[i]
        /\ toHost'[Len(toHost) + 1] = m
    BY <1>0, <1>3, PipeGets DEF ExtWrites
  <2>2. \A i \in 1..Len(toHost') : i \in 1..Len(toHost) \/ i = Len(toHost) + 1
    BY <2>1
  <2>3. \A i \in 1..Len(toHost) : i + 0 = i
    BY <2>1
  <2> QED
    BY <1>3, <2>1, <2>2, <2>3
<1>4. ASSUME NEW d \in Callers, NEW t \in {"ask", "cancel", "response"}, ExtWrites(Msg(t, d))
      PROVE  Shift(0)
  BY <1>3, <1>4, MessageTypes DEF IsDelta
<1>5. ASSUME NEW d \in Streams, SendDelta(d)
      PROVE  Shift(0)
  <2> DEFINE m == [type |-> "delta", id |-> d, n |-> sent[d] + 1]
  <2>1. m \in Message /\ m.id = d
    BY <1>5, HostRpcAssumption, TypeParts DEF SendDelta, Message
  <2>2. ExtWrites(m) /\ d # c
    BY <1>5 DEF SendDelta
  <2> HIDE DEF m
  <2> QED
    BY <1>3, <2>1, <2>2 DEF IsDelta
<1> QED
  BY <1>1, <1>2, <1>4, <1>5, ToHostChanges DEF Answer

\* ... and those that were in it still are, but for the one the reader takes.
LEMMA PipeKeeps ==
  ASSUME TypeOK, [Next]_vars, NEW c \in Streams, NEW i \in 1..Len(toHost),
         IsDelta(toHost[i], c), ~(ReadDelta /\ i = 1)
  PROVE  \E j \in 1..Len(toHost') : toHost'[j] = toHost[i]
<1>0. toHost \in Seq(Message)
  BY TypeParts DEF PipeType
<1>1. CASE UNCHANGED toHost
  BY <1>1
<1>2. CASE ReadResponse \/ ReadDelta \/ ReadAsk \/ ReadCancel
  <2>1. /\ toHost # <<>> /\ toHost' = Tail(toHost)
        /\ ReadDelta \/ Head(toHost).type # "delta"
    BY <1>2 DEF ReadResponse, ReadDelta, ReadAsk, ReadCancel, ReadsNext
  <2>2. Head(toHost) = toHost[1]
    BY <1>0, <2>1, PipeGives
  <2>3. i # 1
    BY <2>1, <2>2 DEF IsDelta
  <2>4. i - 1 \in 1..Len(toHost') /\ (i - 1) + 1 = i
    BY <1>0, <2>1, <2>3, PipeGives
  <2>5. toHost'[i - 1] = toHost[i]
    BY <1>0, <2>1, <2>4, PipeGives
  <2> QED
    BY <2>4, <2>5
<1>3. ASSUME NEW m \in Message, ExtWrites(m)
      PROVE  \E j \in 1..Len(toHost') : toHost'[j] = toHost[i]
  BY <1>0, <1>3, PipeGets DEF ExtWrites
<1>4. ASSUME NEW d \in Callers, NEW t \in {"ask", "cancel", "response"}, ExtWrites(Msg(t, d))
      PROVE  \E j \in 1..Len(toHost') : toHost'[j] = toHost[i]
  BY <1>3, <1>4, MessageTypes
<1>5. ASSUME NEW d \in Streams, SendDelta(d)
      PROVE  \E j \in 1..Len(toHost') : toHost'[j] = toHost[i]
  <2>1. [type |-> "delta", id |-> d, n |-> sent[d] + 1] \in Message
    BY <1>5, HostRpcAssumption, TypeParts DEF SendDelta, Message
  <2> QED
    BY <1>3, <1>5, <2>1 DEF SendDelta
<1> QED
  BY <1>1, <1>2, <1>4, <1>5, ToHostChanges DEF Answer

\* The numbers of the deltas.
LEMMA DeltaNumbers ==
  ASSUME TypeOK, NEW c \in Streams
  PROVE  /\ sent[c] \in Nat /\ MaxDeltas \in Nat
         /\ out[c] \in Seq(1..MaxDeltas) /\ deltaBuf[c] \in Seq(1..MaxDeltas)
         /\ Got(c) \subseteq 1..MaxDeltas
         /\ \A i \in 1..Len(toHost) : IsDelta(toHost[i], c) => toHost[i].n \in 1..MaxDeltas
<1>1. /\ out[c] \in Seq(1..MaxDeltas) /\ deltaBuf[c] \in Seq(1..MaxDeltas)
      /\ dropped[c] \subseteq 1..MaxDeltas /\ sent[c] \in Nat /\ MaxDeltas \in Nat
      /\ toHost \in Seq(Message)
  BY TypeParts, HostRpcAssumption DEF BufferType, PipeType
<1>2. Elements(out[c]) \subseteq 1..MaxDeltas /\ Elements(deltaBuf[c]) \subseteq 1..MaxDeltas
  BY <1>1, ElementOfSeq DEF Elements
<1>3. \A i \in 1..Len(toHost) : toHost[i] \in Message
  BY <1>1, ElementOfSeq
<1> QED
  BY <1>1, <1>2, <1>3, MessageTypes DEF Got, IsDelta

\* A step that neither adds to what the host has of c nor moves it.
LEMMA QuietStream ==
  ASSUME TypeOK, TablesCurrent, RequestsOnce, [Next]_vars, NEW c \in Streams, StreamInv(c),
         SameData(c), ~StreamEnds(c), ~Takes(c), ~SendDelta(c)
  PROVE  StreamInv(c)'
<1> USE DEF StreamInv
<1>0. c \in Callers /\ Got(c)' = Got(c)
  BY HostRpcAssumption DEF SameData, Got
<1>1. DeltasInOrder(c)'
  <2>1. hpc'[c] = "none" => hpc[c] = "none"
    BY <1>0, StartedStays
  <2> QED
    BY <1>0, <2>1 DEF DeltasInOrder, SameData
<1>2. PipeInOrder(c)'
  <2>1. PICK k \in {0, 1} : \A i \in 1..Len(toHost') : IsDelta(toHost'[i], c) =>
          i + k \in 1..Len(toHost) /\ toHost'[i] = toHost[i + k]
    BY PipeShifts
  <2>2. ASSUME NEW i \in 1..Len(toHost'), IsDelta(toHost'[i], c)
        PROVE  /\ toHost'[i].n <= sent[c]
               /\ \A n \in Got(c) : n < toHost'[i].n
               /\ \A j \in 1..Len(toHost') :
                    IsDelta(toHost'[j], c) /\ i < j => toHost'[i].n < toHost'[j].n
    <3>1. i + k \in 1..Len(toHost) /\ toHost'[i] = toHost[i + k]
      BY <2>1, <2>2
    <3>2. ASSUME NEW j \in 1..Len(toHost'), IsDelta(toHost'[j], c), i < j
          PROVE  toHost'[i].n < toHost'[j].n
      <4>1. j + k \in 1..Len(toHost) /\ toHost'[j] = toHost[j + k] /\ i + k < j + k
        BY <2>1, <3>2
      <4> QED
        BY <2>2, <3>1, <3>2, <4>1 DEF PipeInOrder
    <3> QED
      BY <2>2, <3>1, <3>2 DEF PipeInOrder
  <2>3. sent'[c] = sent[c]
    BY DEF SameData
  <2> QED
    BY <1>0, <2>2, <2>3 DEF PipeInOrder
<1>3. NothingMissing(c)'
  <2> SUFFICES ASSUME spc'[c] = "open", NEW n \in 1..sent'[c]
               PROVE  \/ n \in Got(c)
                      \/ \E i \in 1..Len(toHost') : IsDelta(toHost'[i], c) /\ toHost'[i].n = n
    BY <1>0 DEF NothingMissing
  <2>1. sent'[c] = sent[c] /\ sent[c] \in Nat
    BY DeltaNumbers DEF SameData
  <2>2. spc[c] = "open"
    <3>1. CASE spc[c] = "idle"
      <4>1. cpc[c] = "idle"
        BY <3>1 DEF TablesCurrent
      <4>2. hpc[c] = "none"
        BY <1>0, <4>1 DEF RequestsOnce, Sent
      <4> QED
        BY <2>1, <4>2 DEF DeltasInOrder
    <3> QED
      BY <3>1, StreamChanges
  <2>3. CASE n \in Got(c)
    BY <2>3
  <2>4. ASSUME NEW i \in 1..Len(toHost), IsDelta(toHost[i], c), toHost[i].n = n
        PROVE  \E j \in 1..Len(toHost') : IsDelta(toHost'[j], c) /\ toHost'[j].n = n
    <3>1. ~(ReadDelta /\ i = 1)
      <4>1. c \in deltaChans
        BY <2>2 DEF TablesCurrent
      <4>2. ReadDelta => Head(toHost) = toHost[1]
        BY PipeGives, TypeParts DEF ReadDelta, ReadsNext, PipeType
      <4> QED
        BY <2>4, <4>1, <4>2 DEF Takes, IsDelta
    <3>2. PICK j \in 1..Len(toHost') : toHost'[j] = toHost[i]
      BY <2>4, <3>1, PipeKeeps
    <3> QED
      BY <2>4, <3>2
  <2> QED
    BY <2>1, <2>2, <2>3, <2>4 DEF NothingMissing
<1>4. DoneIsAll(c)'
  <2> SUFFICES ASSUME final'[c] = "done" PROVE DoneIsAll(c)'
    BY DEF DoneIsAll
  <2>1. final[c] = "done"
    BY StreamChanges
  <2>2. /\ spc[c] = "finished" /\ cpc[c] = "returned" /\ result[c] = "response"
        /\ Elements(out[c]) = (1..sent[c]) \ dropped[c]
    BY <2>1 DEF DoneIsAll
  <2>3. spc'[c] = "finished" /\ cpc'[c] = "returned" /\ result'[c] = "response"
    BY <1>0, <2>2, StreamChanges, ReturnedStays
  <2> QED
    BY <2>2, <2>3 DEF DoneIsAll, SameData
<1> QED
  BY <1>1, <1>2, <1>3, <1>4

\* The handler sends the next delta of c.
LEMMA SentDelta ==
  ASSUME TypeOK, TablesCurrent, RequestsOnce, ResponsesLast, [Next]_vars,
         NEW c \in Streams, StreamInv(c), SendDelta(c)
  PROVE  StreamInv(c)'
<1> USE DEF StreamInv
<1> DEFINE m == [type |-> "delta", id |-> c, n |-> sent[c] + 1]
<1>0. /\ c \in Callers /\ toHost \in Seq(Message) /\ sent[c] \in 0..MaxDeltas
      /\ sent \in [Callers -> 0..MaxDeltas] /\ MaxDeltas \in Nat /\ sent[c] \in Nat
  BY HostRpcAssumption, TypeParts, DeltaNumbers DEF PipeType
<1>1. /\ hpc[c] = "running" /\ UNCHANGED <<hpc, out, deltaBuf, dropped, spc, final, cpc, result>>
      /\ sent'[c] = sent[c] + 1 /\ sent[c] < MaxDeltas /\ ExtWrites(m)
  BY <1>0 DEF SendDelta, HostUnchanged, callVars, streamVars
<1>2. m \in Message /\ IsDelta(m, c) /\ m.n = sent[c] + 1
  BY <1>0, <1>1 DEF Message, IsDelta
<1> HIDE DEF m
<1>3. /\ Len(toHost') = Len(toHost) + 1 /\ Len(toHost) \in Nat
      /\ \A i \in 1..Len(toHost) : toHost'[i] = toHost[i]
      /\ toHost'[Len(toHost) + 1] = m
  BY <1>0, <1>1, <1>2, PipeGets DEF ExtWrites
<1>4. Got(c)' = Got(c)
  BY <1>1 DEF Got
<1>5. DeltasInOrder(c)'
  <2>1. \A n \in Got(c) : n \in Nat /\ n <= sent[c] => n <= sent'[c]
    BY <1>0, <1>1
  <2>2. \A n \in Got(c) : n \in Nat
    BY DeltaNumbers
  <2> QED
    BY <1>1, <1>4, <2>1, <2>2 DEF DeltasInOrder
<1>6. PipeInOrder(c)'
  <2>1. ASSUME NEW i \in 1..Len(toHost'), IsDelta(toHost'[i], c)
        PROVE  /\ toHost'[i].n <= sent'[c]
               /\ \A n \in Got(c) : n < toHost'[i].n
               /\ \A j \in 1..Len(toHost') :
                    IsDelta(toHost'[j], c) /\ i < j => toHost'[i].n < toHost'[j].n
    <3>1. CASE i \in 1..Len(toHost)
      <4>1. toHost'[i] = toHost[i] /\ toHost[i].n \in Nat
        BY <1>3, <2>1, <3>1, DeltaNumbers
      <4>2. toHost[i].n <= sent[c] /\ \A n \in Got(c) : n < toHost[i].n
        BY <2>1, <3>1, <4>1 DEF PipeInOrder
      <4>3. ASSUME NEW j \in 1..Len(toHost'), IsDelta(toHost'[j], c), i < j
            PROVE  toHost'[i].n < toHost'[j].n
        <5>1. CASE j \in 1..Len(toHost)
          BY <1>3, <2>1, <3>1, <4>1, <4>3, <5>1 DEF PipeInOrder
        <5>2. CASE j = Len(toHost) + 1
          BY <1>0, <1>2, <1>3, <4>1, <4>2, <5>2
        <5> QED
          BY <1>3, <5>1, <5>2
      <4> QED
        BY <1>0, <1>1, <4>1, <4>2, <4>3
    <3>2. CASE i = Len(toHost) + 1
      <4>1. toHost'[i].n = sent[c] + 1 /\ \A j \in 1..Len(toHost') : ~(i < j)
        BY <1>2, <1>3, <3>2
      <4>2. \A n \in Got(c) : n \in Nat /\ n <= sent[c]
        BY DeltaNumbers DEF DeltasInOrder
      <4> QED
        BY <1>0, <1>1, <4>1, <4>2
    <3> QED
      BY <1>3, <3>1, <3>2
  <2> QED
    BY <1>4, <2>1 DEF PipeInOrder
<1>7. NothingMissing(c)'
  <2> SUFFICES ASSUME spc[c] = "open", NEW n \in 1..sent'[c]
               PROVE  \/ n \in Got(c)
                      \/ \E i \in 1..Len(toHost') : IsDelta(toHost'[i], c) /\ toHost'[i].n = n
    BY <1>1, <1>4 DEF NothingMissing
  <2>1. CASE n = sent[c] + 1
    <3>1. Len(toHost) + 1 \in 1..Len(toHost')
      BY <1>3
    <3> QED
      BY <1>2, <1>3, <2>1, <3>1
  <2>2. CASE n \in 1..sent[c]
    <3>1. \A i \in 1..Len(toHost) : i \in 1..Len(toHost')
      BY <1>3
    <3> QED
      BY <1>3, <2>2, <3>1 DEF NothingMissing
  <2> QED
    BY <1>0, <1>1, <2>1, <2>2
<1>8. DoneIsAll(c)'
  <2>1. result[c] # "response"
    BY <1>0, <1>1 DEF ResponsesLast
  <2> QED
    BY <1>1, <2>1 DEF DoneIsAll
<1> QED
  BY <1>5, <1>6, <1>7, <1>8

\* The reader puts the next delta of c in its channel, or drops it.
LEMMA TakenDelta ==
  ASSUME TypeOK, TablesCurrent, [Next]_vars, NEW c \in Streams, StreamInv(c), Takes(c)
  PROVE  StreamInv(c)'
<1> USE DEF StreamInv
<1> DEFINE n == toHost[1].n
<1>0. /\ deltaBuf \in [Streams -> Seq(1..MaxDeltas)] /\ toHost \in Seq(Message)
      /\ dropped \in [Streams -> SUBSET (1..MaxDeltas)] /\ MaxDeltas \in Nat
      /\ sent[c] \in Nat
  BY TypeParts, DeltaNumbers DEF BufferType, PipeType
<1>1. /\ toHost # <<>> /\ toHost' = Tail(toHost) /\ Head(toHost) = toHost[1]
      /\ Len(toHost) \in Nat \ {0} /\ Len(toHost') = Len(toHost) - 1
      /\ \A i \in 1..Len(toHost') : toHost'[i] = toHost[i + 1] /\ i + 1 \in 2..Len(toHost)
  BY <1>0, PipeGives DEF Takes, ReadDelta, ReadsNext
<1>2. 1 \in 1..Len(toHost) /\ IsDelta(toHost[1], c) /\ n \in 1..MaxDeltas
  <2>1. 1 \in 1..Len(toHost)
    BY <1>1
  <2>2. IsDelta(toHost[1], c)
    BY <1>1 DEF Takes, ReadDelta, ReadsNext, IsDelta
  <2> QED
    BY <2>1, <2>2, DeltaNumbers
<1>3. /\ n <= sent[c] /\ \A k \in Got(c) : k < n
      /\ \A j \in 1..Len(toHost) : IsDelta(toHost[j], c) /\ 1 < j => n < toHost[j].n
  BY <1>2 DEF PipeInOrder
<1>4. UNCHANGED <<spc, final, out, hpc, sent, cpc, result>>
  BY DEF Takes, ReadDelta, callVars, extVars
<1>5. \/ /\ deltaBuf'[c] = Append(deltaBuf[c], n) /\ dropped'[c] = dropped[c]
      \/ /\ deltaBuf'[c] = deltaBuf[c] /\ dropped'[c] = dropped[c] \cup {n}
  BY <1>0, <1>1 DEF Takes, ReadDelta
<1>6. /\ deltaBuf[c] \in Seq(1..MaxDeltas)
      /\ Elements(Append(deltaBuf[c], n)) = Elements(deltaBuf[c]) \cup {n}
      /\ Increasing(deltaBuf[c]) /\ (\A m \in Elements(deltaBuf[c]) : m < n)
         => Increasing(Append(deltaBuf[c], n))
  BY <1>0, <1>2, OneMore
<1>7. Got(c)' = Got(c) \cup {n} /\ n \notin Got(c)
  <2>1. n \notin Got(c)
    BY <1>2, <1>3
  <2> QED
    BY <1>4, <1>5, <1>6, <2>1 DEF Got
<1> HIDE DEF n
<1>8. DeltasInOrder(c)'
  <2>1. Increasing(deltaBuf[c]) /\ Increasing(out[c])
    BY DEF DeltasInOrder
  <2>2. Increasing(deltaBuf'[c])
    BY <1>3, <1>5, <1>6, <2>1 DEF Got
  <2>3. \A m \in Elements(out[c]), k \in Elements(deltaBuf'[c]) : m < k
    BY <1>3, <1>5, <1>6 DEF DeltasInOrder, Got
  <2>4. (Elements(out[c]) \cup Elements(deltaBuf'[c])) \cap dropped'[c] = {}
    BY <1>5, <1>6, <1>7 DEF DeltasInOrder, Got
  <2>5. \A k \in Got(c)' : k <= sent[c]
    BY <1>3, <1>7 DEF DeltasInOrder
  <2> QED
    BY <1>4, <2>1, <2>2, <2>3, <2>4, <2>5 DEF DeltasInOrder
<1>9. PipeInOrder(c)'
  <2>1. ASSUME NEW i \in 1..Len(toHost'), IsDelta(toHost'[i], c)
        PROVE  /\ toHost'[i].n <= sent[c]
               /\ \A k \in Got(c)' : k < toHost'[i].n
               /\ \A j \in 1..Len(toHost') :
                    IsDelta(toHost'[j], c) /\ i < j => toHost'[i].n < toHost'[j].n
    <3>1. toHost'[i] = toHost[i + 1] /\ i + 1 \in 1..Len(toHost) /\ 1 < i + 1
      BY <1>1
    <3>2. /\ toHost[i + 1].n <= sent[c] /\ \A k \in Got(c) : k < toHost[i + 1].n
          /\ n < toHost[i + 1].n
      BY <1>3, <2>1, <3>1 DEF PipeInOrder
    <3>3. ASSUME NEW j \in 1..Len(toHost'), IsDelta(toHost'[j], c), i < j
          PROVE  toHost'[i].n < toHost'[j].n
      <4>1. toHost'[j] = toHost[j + 1] /\ j + 1 \in 1..Len(toHost) /\ i + 1 < j + 1
        BY <1>1, <3>3
      <4> QED
        BY <2>1, <3>1, <3>3, <4>1 DEF PipeInOrder
    <3> QED
      BY <1>7, <3>1, <3>2, <3>3
  <2> QED
    BY <1>4, <2>1 DEF PipeInOrder
<1>10. NothingMissing(c)'
  <2> SUFFICES ASSUME spc[c] = "open", NEW k \in 1..sent[c]
               PROVE  \/ k \in Got(c)'
                      \/ \E i \in 1..Len(toHost') : IsDelta(toHost'[i], c) /\ toHost'[i].n = k
    BY <1>4 DEF NothingMissing
  <2>1. CASE k \in Got(c)
    BY <1>7, <2>1
  <2>2. ASSUME NEW i \in 1..Len(toHost), IsDelta(toHost[i], c), toHost[i].n = k
        PROVE  \/ k \in Got(c)'
               \/ \E j \in 1..Len(toHost') : IsDelta(toHost'[j], c) /\ toHost'[j].n = k
    <3>1. CASE i = 1
      BY <1>7, <2>2, <3>1 DEF n
    <3>2. CASE i # 1
      <4>1. i - 1 \in 1..Len(toHost') /\ (i - 1) + 1 = i
        BY <1>1, <3>2
      <4>2. toHost'[i - 1] = toHost[i]
        BY <1>1, <4>1
      <4> QED
        BY <2>2, <4>1, <4>2
    <3> QED
      BY <3>1, <3>2
  <2> QED
    BY <2>1, <2>2 DEF NothingMissing
<1>11. DoneIsAll(c)'
  <2>1. spc[c] = "open"
    BY DEF Takes, TablesCurrent
  <2> QED
    BY <1>4, <2>1 DEF DoneIsAll
<1> QED
  BY <1>8, <1>9, <1>10, <1>11

\* The stream forwards the next delta, or all that its channel still holds.
LEMMA Forwarded ==
  ASSUME TypeOK, ResponsesLast, [Next]_vars, NEW c \in Streams, StreamInv(c),
         Forward(c) \/ StreamEnds(c)
  PROVE  StreamInv(c)'
<1> USE DEF StreamInv
<1>0. /\ deltaBuf[c] \in Seq(1..MaxDeltas) /\ out[c] \in Seq(1..MaxDeltas)
      /\ MaxDeltas \in Nat /\ sent[c] \in Nat /\ c \in Callers
      /\ out \in [Streams -> Seq(1..MaxDeltas)] /\ spc \in SpcType /\ final \in FinalType
      /\ deltaBuf \in [Streams -> Seq(1..MaxDeltas)]
  BY DeltaNumbers, HostRpcAssumption, TypeParts DEF BufferType
<1>1. UNCHANGED <<toHost, dropped, sent, hpc, cpc, result>> /\ spc[c] = "open"
  BY DEF Forward, StreamEnds, callVars, extVars
<1>2. /\ Increasing(out[c]) /\ Increasing(deltaBuf[c])
      /\ \A m \in Elements(out[c]), n \in Elements(deltaBuf[c]) : m < n
  BY DEF DeltasInOrder
<1>3. /\ Elements(out'[c]) \cup Elements(deltaBuf'[c])
           = Elements(out[c]) \cup Elements(deltaBuf[c])
      /\ Increasing(out'[c]) /\ Increasing(deltaBuf'[c])
      /\ \A m \in Elements(out'[c]), n \in Elements(deltaBuf'[c]) : m < n
  <2>1. CASE Forward(c)
    <3> DEFINE h == Head(deltaBuf[c])
    <3>1. /\ out'[c] = Append(out[c], h) /\ deltaBuf'[c] = Tail(deltaBuf[c])
          /\ deltaBuf[c] # <<>>
      BY <1>0, <2>1 DEF Forward
    <3>2. /\ h \in 1..MaxDeltas
          /\ Elements(deltaBuf[c]) = Elements(deltaBuf'[c]) \cup {h}
          /\ Increasing(deltaBuf'[c]) /\ \A m \in Elements(deltaBuf'[c]) : h < m
      BY <1>0, <1>2, <3>1, OneLess
    <3>3. /\ Elements(out'[c]) = Elements(out[c]) \cup {h}
          /\ Increasing(out'[c])
      <4>1. \A m \in Elements(out[c]) : m < h
        BY <1>2, <3>2
      <4> QED
        BY <1>0, <1>2, <3>1, <3>2, <4>1, OneMore
    <3> QED
      BY <1>2, <3>2, <3>3
  <2>2. CASE StreamEnds(c)
    <3>1. out'[c] = out[c] \o deltaBuf[c] /\ deltaBuf'[c] = <<>>
      BY <1>0, <2>2 DEF StreamEnds
    <3>2. Elements(<<>>) = {} /\ Increasing(<<>>)
      BY DEF Elements, Increasing
    <3>3. /\ Elements(out'[c]) = Elements(out[c]) \cup Elements(deltaBuf[c])
          /\ Increasing(out'[c])
      BY <1>0, <1>2, <3>1, Joined
    <3> QED
      BY <3>1, <3>2, <3>3
  <2> QED
    BY <2>1, <2>2
<1>4. Got(c)' = Got(c)
  BY <1>1, <1>3 DEF Got
<1>5. DeltasInOrder(c)'
  BY <1>1, <1>3, <1>4 DEF DeltasInOrder
<1>6. PipeInOrder(c)'
  BY <1>1, <1>4 DEF PipeInOrder
<1>7. NothingMissing(c)'
  <2>1. spc'[c] = "open" => spc[c] = "open"
    BY <1>1
  <2> QED
    BY <1>1, <1>4, <2>1 DEF NothingMissing
<1>8. DoneIsAll(c)'
  <2> SUFFICES ASSUME final'[c] = "done" PROVE DoneIsAll(c)'
    BY DEF DoneIsAll
  <2>1. final[c] # "done"
    BY <1>1 DEF DoneIsAll
  <2>2. StreamEnds(c)
    BY <2>1, StreamChanges
  <2>3. /\ spc'[c] = "finished" /\ cpc[c] = "returned" /\ result[c] = "response"
        /\ Elements(deltaBuf'[c]) = {}
    BY <1>0, <2>2 DEF StreamEnds, SpcType, FinalType, Elements
  <2>4. \A j \in 1..Len(toHost) : ~IsDelta(toHost[j], c)
    BY <1>0, <2>3 DEF ResponsesLast
  <2>5. 1..sent[c] \subseteq Got(c)
    BY <1>1, <2>4 DEF NothingMissing
  <2>6. Got(c) = Elements(out'[c]) \cup dropped[c] /\ Elements(out'[c]) \cap dropped[c] = {}
    BY <1>1, <1>4, <1>5, <2>3 DEF Got, DeltasInOrder
  <2>7. Got(c) \subseteq 1..sent[c]
    BY <1>0, DeltaNumbers DEF DeltasInOrder
  <2>8. Elements(out'[c]) = (1..sent[c]) \ dropped[c]
    BY <2>5, <2>6, <2>7
  <2> QED
    BY <1>1, <2>3, <2>8 DEF DoneIsAll
<1> QED
  BY <1>5, <1>6, <1>7, <1>8

-----------------------------------------------------------------------------
LEMMA InitIInv == Init => IInv
<1> SUFFICES ASSUME Init PROVE IInv
  OBVIOUS
<1> USE HostRpcAssumption DEF Init
<1>1. TypeOK
  <2>1. /\ cpc \in CpcType /\ result \in ResultType /\ final \in FinalType
        /\ spc \in SpcType /\ hpc \in HpcType
    BY DEF CpcType, ResultType, FinalType, SpcType, HpcType
  <2>2. /\ \A S : <<>> \in Seq(S)
        /\ Len(<<>>) = 0 /\ 0 <= PipeCap /\ 0 <= DeltaCap
    BY EmptySeq
  <2>3. PipeType(toExt) /\ PipeType(toHost) /\ BufferType(deltaBuf)
    BY <2>2 DEF PipeType, BufferType
  <2>4. /\ out \in [Streams -> Seq(1..MaxDeltas)]
        /\ dropped \in [Streams -> SUBSET (1..MaxDeltas)]
        /\ sent \in [Callers -> 0..MaxDeltas]
    BY <2>2
  <2> QED
    BY <2>1, <2>3, <2>4
    DEF TypeOK, CpcType, ResultType, FinalType, SpcType, HpcType, PipeType, BufferType
<1>2. Len(toExt) = 0 /\ Len(toHost) = 0
  BY EmptySeq
<1>3. Named /\ RequestsOnce /\ TablesCurrent /\ ResponsesLast
  BY <1>2 DEF Named, RequestsOnce, TablesCurrent, ResponsesLast, Sent
<1>4. ASSUME NEW c \in Streams PROVE StreamInv(c)
  <2>1. /\ out[c] = <<>> /\ deltaBuf[c] = <<>> /\ dropped[c] = {} /\ sent[c] = 0
        /\ spc[c] = "idle" /\ final[c] # "done"
    BY <1>4
  <2>2. Elements(<<>>) = {} /\ Increasing(<<>>)
    BY DEF Elements, Increasing
  <2> QED
    BY <1>2, <2>1, <2>2
    DEF StreamInv, DeltasInOrder, PipeInOrder, NothingMissing, DoneIsAll, Got
<1> QED
  BY <1>1, <1>3, <1>4 DEF IInv

LEMMA NextIInv == IInv /\ [Next]_vars => IInv'
<1> SUFFICES ASSUME IInv, [Next]_vars PROVE IInv'
  OBVIOUS
<1> USE DEF IInv
<1>1. TypeOK' /\ Named' /\ RequestsOnce' /\ TablesCurrent' /\ ResponsesLast'
  BY TypesKept, NamedKept, RequestsKept, TablesKept, ResponsesKept
<1>2. ASSUME NEW c \in Streams PROVE StreamInv(c)'
  <2>1. CASE Forward(c) \/ StreamEnds(c)
    BY <2>1, Forwarded
  <2>2. CASE Takes(c)
    BY <2>2, TakenDelta
  <2>3. CASE SendDelta(c)
    BY <2>3, SentDelta
  <2>4. CASE SameData(c) /\ ~StreamEnds(c) /\ ~Takes(c) /\ ~SendDelta(c)
    BY <2>4, QuietStream
  <2> QED
    BY <2>1, <2>2, <2>3, <2>4, DataChanges
<1> QED
  BY <1>1, <1>2

-----------------------------------------------------------------------------
\* The state has its types: no pipe holds more than fits, no delta channel more
\* than its capacity, whoever writes, dies or hangs (send, readLoop).
THEOREM TypeCorrect == Spec => []TypeOK
<1>1. IInv => TypeOK
  BY DEF IInv
<1> QED
  BY <1>1, InitIInv, NextIInv, PTL DEF Spec

\* However a request ends, with its response, after a cancellation, a crash or a
\* stop, nothing of it stays behind in the tables (request, releaseDeltaChan).
THEOREM NothingIsLeft == Spec => []NothingLeft
<1>1. IInv => NothingLeft
  BY HostRpcAssumption DEF IInv, TablesCurrent, NothingLeft
<1> QED
  BY <1>1, InitIInv, NextIInv, PTL DEF Spec

\* A stream that ends with its message has forwarded, once and in order, every
\* delta that was sent but those that met a full channel (stream, drainDeltas).
THEOREM StreamIsComplete == Spec => []StreamComplete
<1>1. IInv => StreamComplete
  BY DEF IInv, StreamInv, DeltasInOrder, DoneIsAll, Increasing, Elements, StreamComplete
<1> QED
  BY <1>1, InitIInv, NextIInv, PTL DEF Spec
=============================================================================
