------------------------- MODULE PPClientSessionProofs -------------------------
(***************************************************************************)
(* Theorems of PPClientSession, for every set of messages, every size of   *)
(* header, buffer and segment that its assumptions allow.                  *)
(*                                                                         *)
(* FrameAligned is not inductive as it stands: that a chunk of header size *)
(* really is the next message's header needs to know that messages lie one *)
(* behind the other in the stream (Layout), that no byte is read that was  *)
(* not written, and that a client sends nothing but headers until it is    *)
(* authenticated.  IInv adds these.                                        *)
(***************************************************************************)
EXTENDS PPClientSession, FiniteSetTheorems, SequenceTheorems, TLAPS

\* Messages lie one behind the other: each takes a header and its content.
Layout ==
    /\ at[1] = 0
    /\ \A k \in 1..Len(sent) : at[k + 1] = at[k] + HeaderSize + sent[k].size
    /\ \A i, j \in 1..Len(at) : i < j => at[i] < at[j]

\* The loop runs exactly while a whole chunk is there.
LoopInv ==
    /\ waitFor > 0
    /\ looping <=> bufSize >= waitFor

\* The read state and what it says of the messages still to be read.
StateInv ==
    /\ authenticated <=> readState # "none"
    /\ ~authenticated => \A k \in Len(outcome) + 1 .. Len(sent) : sent[k].size = 0
    /\ readState = "body" => sent[Len(outcome) + 1].valid

IInv ==
    /\ TypeOK
    /\ Layout
    /\ delivered <= StreamLength
    /\ FrameAligned
    /\ LoopInv
    /\ StateInv
    /\ NoOverflow

-----------------------------------------------------------------------------

\* Inside the loop there is a message to read, and a header chunk parses
\* exactly when that message is valid: HeaderHere holds it and no other.
LEMMA NextMessage ==
    ASSUME IInv, looping
    PROVE  /\ Len(outcome) + 1 \in 1..Len(sent)
           /\ sent[Len(outcome) + 1] \in Message
           /\ at[Len(outcome) + 2] = at[Len(outcome) + 1] + HeaderSize + sent[Len(outcome) + 1].size
           /\ readState # "body" =>
                HeaderHere = IF sent[Len(outcome) + 1].valid THEN {Len(outcome) + 1} ELSE {}
<1> DEFINE k == Len(outcome) + 1
<1>1. k \in 1..Len(at) /\ Len(at) = Len(sent) + 1 /\ Len(sent) \in Nat
  BY DEF IInv, TypeOK, FrameAligned
<1>2. base < StreamLength
  BY <1>1 DEF IInv, TypeOK, LoopInv, FrameAligned, StreamLength
<1>3. k \in 1..Len(sent)
  <2>1. base >= at[k]
    BY <1>1, HeaderSizeAssumption, SMTT(30) DEF IInv, TypeOK, FrameAligned
  <2>2. k # Len(at)
    BY <1>1, <1>2, <2>1 DEF IInv, TypeOK, StreamLength
  <2> QED BY <1>1, <2>2
<1>4. sent[k] \in Message
  BY <1>3 DEF IInv, TypeOK
<1>5. at[k + 1] = at[k] + HeaderSize + sent[k].size
  BY <1>3 DEF IInv, Layout
<1>6. ASSUME readState # "body"
      PROVE  HeaderHere = IF sent[k].valid THEN {k} ELSE {}
  <2>1. base = at[k]
    BY <1>6 DEF IInv, FrameAligned
  <2>2. \A j \in 1..Len(sent) : at[j] = base => j = k
    <3> SUFFICES ASSUME NEW j \in 1..Len(sent), at[j] = at[k]
                 PROVE  j = k
      BY <2>1
    <3>1. j \in 1..Len(at) /\ at[j] \in Nat /\ at[k] \in Nat
      BY <1>1, SMTT(30) DEF IInv, TypeOK
    <3>2. ~(j < k) /\ ~(k < j)
      BY <3>1, <1>1 DEF IInv, Layout
    <3> QED BY <3>1, <3>2, <1>1
  <2> QED BY <2>1, <2>2, <1>3 DEF HeaderHere
<1> QED BY <1>3, <1>4, <1>5, <1>6

\* The end of an iteration keeps the buffer in the stream and leaves the
\* loop exactly when no whole chunk is left.
LEMMA ShiftKeeps ==
    ASSUME IInv, looping, NEW w \in Nat \ {0}, Shift(w)
    PROVE  /\ waitFor' = w /\ base' = base + waitFor
           /\ base' \in Nat /\ bufSize' \in Nat /\ waitFor' \in Nat /\ looping' \in BOOLEAN
           /\ sent' = sent /\ at' = at /\ delivered' = delivered /\ connected' = connected
           /\ base' + bufSize' = delivered'
           /\ delivered' <= StreamLength'
           /\ Layout' /\ LoopInv' /\ NoOverflow'
<1>1. /\ sent' = sent /\ at' = at /\ delivered' = delivered /\ connected' = connected
      /\ base' = base + waitFor /\ bufSize' = bufSize - waitFor /\ waitFor' = w
      /\ looping' = (bufSize - waitFor >= w /\ w # 0)
  BY DEF Shift, ChunkReady, streamVars
<1>2. /\ base \in Nat /\ bufSize \in Nat /\ waitFor \in Nat /\ delivered \in Nat
      /\ bufSize >= waitFor /\ base + bufSize = delivered /\ bufSize <= Capacity
  BY DEF IInv, TypeOK, LoopInv, FrameAligned, NoOverflow
<1>3. Layout'
  BY <1>1 DEF IInv, Layout
<1>4. delivered' <= StreamLength'
  BY <1>1 DEF IInv, StreamLength
<1>5. LoopInv'
  <2>1. looping' <=> bufSize' >= waitFor'
    BY <1>1, Zenon
  <2>2. waitFor' > 0
    BY <1>1
  <2> QED BY <2>1, <2>2 DEF LoopInv
<1>6. NoOverflow'
  BY <1>1, <1>2, CapacityAssumption DEF NoOverflow
<1>7. base' + bufSize' = delivered' /\ base' \in Nat /\ bufSize' \in Nat /\ looping' \in BOOLEAN
  BY <1>1, <1>2
<1> QED BY <1>1, <1>3, <1>4, <1>5, <1>6, <1>7

LEMMA InitIInv == Init => IInv
<1> SUFFICES ASSUME Init PROVE IInv
  OBVIOUS
<1>1. TypeOK
  <2>1. /\ sent \in Seq(Message) /\ at \in Seq(Nat) /\ Len(at) = Len(sent) + 1
        /\ replies \in Seq({AUTH_SUCCESS, AUTH_FAILED, HUB_ITEMS}) /\ inputs \in Seq(Nat)
        /\ outcome \in Seq({"welcomed", "refused", "handled", "skipped"})
    BY DEF Init
  <2> QED BY <2>1, HeaderSizeAssumption DEF Init, TypeOK, NoMessage
<1>2. Layout /\ delivered <= StreamLength /\ FrameAligned
  BY DEF Init, Layout, StreamLength, FrameAligned
<1>3. LoopInv /\ StateInv
  BY HeaderSizeAssumption DEF Init, LoopInv, StateInv
<1>4. NoOverflow
  BY CapacityAssumption DEF Init, NoOverflow
<1> QED BY <1>1, <1>2, <1>3, <1>4 DEF IInv

\* A message more at the end of the stream.
LEMMA ClientSendKeeps == IInv /\ ClientSend => IInv'
<1> SUFFICES ASSUME IInv, ClientSend PROVE IInv'
  OBVIOUS
<1> USE DEF streamVars, bufferVars, effectVars
<1>1. PICK m \in Message :
        /\ authenticated \/ m.size = 0
        /\ sent' = Append(sent, m)
        /\ at' = Append(at, StreamLength + HeaderSize + m.size)
  BY DEF ClientSend
<1>2. UNCHANGED <<delivered, connected, base, bufSize, waitFor, looping, authenticated,
                  readState, tmpMessage, replies, capturer, inputs, outcome>>
  BY DEF ClientSend
<1>3. /\ sent \in Seq(Message) /\ at \in Seq(Nat) /\ Len(at) = Len(sent) + 1 /\ Len(sent) \in Nat
      /\ StreamLength \in Nat /\ StreamLength = at[Len(at)] /\ m.size \in Nat
      /\ StreamLength + HeaderSize + m.size > StreamLength
  BY MessageAssumption, HeaderSizeAssumption, SMTT(30) DEF IInv, TypeOK, StreamLength
<1>4. /\ sent' \in Seq(Message) /\ Len(sent') = Len(sent) + 1 /\ sent'[Len(sent) + 1] = m
      /\ at' \in Seq(Nat) /\ Len(at') = Len(at) + 1
      /\ at'[Len(at) + 1] = StreamLength + HeaderSize + m.size
      /\ \A i \in 1..Len(sent) : sent'[i] = sent[i]
      /\ \A i \in 1..Len(at) : at'[i] = at[i] /\ at[i] \in Nat
  <2>1. sent' \in Seq(Message) /\ Len(sent') = Len(sent) + 1 /\ sent'[Len(sent) + 1] = m
    BY <1>1, <1>3
  <2>2. StreamLength + HeaderSize + m.size \in Nat
    BY <1>3, HeaderSizeAssumption
  <2>3. at' \in Seq(Nat) /\ Len(at') = Len(at) + 1
    BY <2>2, <1>1, <1>3
  <2>4. at'[Len(at) + 1] = StreamLength + HeaderSize + m.size
    BY <2>2, <1>1, <1>3
  <2>5. \A i \in 1..Len(sent) : sent'[i] = sent[i]
    BY <1>1, <1>3
  <2>6. \A i \in 1..Len(at) : at'[i] = at[i] /\ at[i] \in Nat
    BY <2>2, <1>1, <1>3
  <2> QED BY <2>1, <2>3, <2>4, <2>5, <2>6
<1>5. TypeOK'
  BY <1>2, <1>3, <1>4 DEF IInv, TypeOK
<1>6. Layout'
  <2>1. at'[1] = 0
    BY <1>3, <1>4 DEF IInv, Layout
  <2>2. \A i \in 1..Len(sent') : at'[i + 1] = at'[i] + HeaderSize + sent'[i].size
    <3> SUFFICES ASSUME NEW i \in 1..Len(sent')
                 PROVE  at'[i + 1] = at'[i] + HeaderSize + sent'[i].size
      OBVIOUS
    <3>1. CASE i \in 1..Len(sent)
      <4>1. i \in 1..Len(at) /\ i + 1 \in 1..Len(at)
        BY <3>1, <1>3
      <4>2. at[i + 1] = at[i] + HeaderSize + sent[i].size
        BY <3>1 DEF IInv, Layout
      <4>3. at'[i + 1] = at[i + 1] /\ at'[i] = at[i] /\ sent'[i] = sent[i]
        BY <3>1, <4>1, <1>4
      <4> QED BY <4>2, <4>3
    <3>2. CASE i = Len(sent) + 1
      <4>1. i = Len(at) /\ i \in 1..Len(at)
        BY <3>2, <1>3
      <4>2. at'[i] = StreamLength /\ sent'[i] = m
        BY <4>1, <3>2, <1>3, <1>4
      <4>3. at'[i + 1] = StreamLength + HeaderSize + m.size
        BY <4>1, <1>4
      <4> QED BY <4>2, <4>3
    <3> QED BY <3>1, <3>2, <1>3, <1>4
  <2>3. \A i, j \in 1..Len(at') : i < j => at'[i] < at'[j]
    <3> SUFFICES ASSUME NEW i \in 1..Len(at'), NEW j \in 1..Len(at'), i < j
                 PROVE  at'[i] < at'[j]
      OBVIOUS
    <3>0. i \in 1..Len(at)
      BY <1>3, <1>4
    <3>1. CASE j \in 1..Len(at)
      BY <3>0, <3>1, <1>4 DEF IInv, Layout
    <3>2. CASE j = Len(at) + 1
      <4>1. i = Len(at) \/ at[i] < at[Len(at)]
        BY <3>0, <1>3 DEF IInv, Layout
      <4>2. at[i] <= StreamLength
        BY <4>1, <3>0, <1>3, <1>4
      <4> QED BY <4>2, <3>0, <3>2, <1>3, <1>4, HeaderSizeAssumption, SMTT(30)
    <3> QED BY <3>1, <3>2, <1>3, <1>4
  <2> QED BY <2>1, <2>2, <2>3 DEF Layout
<1>7. delivered' <= StreamLength'
  <2>1. StreamLength' = StreamLength + HeaderSize + m.size
    BY <1>3, <1>4 DEF StreamLength
  <2> QED BY <2>1, <1>2, <1>3, HeaderSizeAssumption DEF IInv, TypeOK
<1>8. FrameAligned'
  <2>1. Len(outcome) + 1 \in 1..Len(at)
    BY <1>3 DEF IInv, FrameAligned, TypeOK
  <2>2. readState = "body" => Len(outcome) + 1 \in 1..Len(sent)
    BY <2>1, <1>3 DEF IInv, FrameAligned, TypeOK
  <2> QED BY <2>1, <2>2, <1>2, <1>3, <1>4, SMTT(30) DEF IInv, FrameAligned
<1>9. LoopInv' /\ NoOverflow'
  BY <1>2 DEF IInv, LoopInv, NoOverflow
<1>10. StateInv'
  <2>1. readState = "body" => Len(outcome) + 1 \in 1..Len(sent)
    BY <1>3 DEF IInv, FrameAligned, TypeOK
  <2>2. ~authenticated => \A i \in Len(outcome) + 1 .. Len(sent') : sent'[i].size = 0
    <3> SUFFICES ASSUME ~authenticated, NEW i \in Len(outcome) + 1 .. Len(sent')
                 PROVE  sent'[i].size = 0
      OBVIOUS
    <3>1. CASE i = Len(sent) + 1
      BY <3>1, <1>1, <1>4
    <3>2. CASE i \in Len(outcome) + 1 .. Len(sent)
      <4>1. i \in 1..Len(sent)
        BY <3>2, <1>3 DEF IInv, TypeOK
      <4> QED BY <3>2, <4>1, <1>4 DEF IInv, StateInv
    <3> QED BY <3>1, <3>2, <1>3, <1>4 DEF IInv, TypeOK
  <2> QED BY <2>1, <2>2, <1>2, <1>4 DEF IInv, StateInv
<1> QED BY <1>5, <1>6, <1>7, <1>8, <1>9, <1>10 DEF IInv

\* A segment more in the buffer: there is room, because an incomplete chunk
\* is shorter than a header or a body.
LEMMA ProcessMessageKeeps == IInv /\ ProcessMessage => IInv'
<1> SUFFICES ASSUME IInv, ProcessMessage PROVE IInv'
  OBVIOUS
<1> USE DEF streamVars, bufferVars, effectVars
<1>1. PICK n \in 1..MaxSegment :
        /\ delivered + n <= StreamLength
        /\ delivered' = delivered + n
        /\ bufSize' = bufSize + n
        /\ looping' = ChunkReady(bufSize + n, waitFor)
  BY DEF ProcessMessage
<1>2. /\ ~looping
      /\ UNCHANGED <<sent, at, connected, base, waitFor, authenticated, readState,
                     tmpMessage, replies, capturer, inputs, outcome>>
  BY DEF ProcessMessage
<1>3. n \in Nat /\ n <= MaxSegment
  BY CapacityAssumption
<1>4. TypeOK'
  BY <1>1, <1>2, <1>3 DEF IInv, TypeOK, ChunkReady
<1>5. Layout' /\ StateInv' /\ delivered' <= StreamLength'
  BY <1>1, <1>2 DEF IInv, Layout, StateInv, StreamLength
<1>6. FrameAligned'
  BY <1>1, <1>2, <1>3 DEF IInv, FrameAligned, TypeOK
<1>7. LoopInv'
  <2>1. waitFor' > 0 /\ waitFor # 0
    BY <1>2 DEF IInv, LoopInv, TypeOK
  <2>2. looping' <=> bufSize' >= waitFor'
    BY <2>1, <1>1, <1>2, Zenon DEF ChunkReady
  <2> QED BY <2>1, <2>2 DEF LoopInv
<1>8. NoOverflow'
  <2>1. waitFor + MaxSegment <= Capacity
    <3>1. CASE readState # "body"
      BY <3>1, CapacityAssumption DEF IInv, FrameAligned
    <3>2. CASE readState = "body"
      <4>1. Len(outcome) + 1 \in 1..Len(sent)
        BY <3>2 DEF IInv, FrameAligned, TypeOK
      <4>2. waitFor = sent[Len(outcome) + 1].size
        BY <3>2 DEF IInv, FrameAligned
      <4>3. sent \in Seq(Message)
        BY DEF IInv, TypeOK
      <4>4. sent[Len(outcome) + 1] \in Message
        BY <4>1, <4>3
      <4> QED BY <4>2, <4>4, CapacityAssumption
    <3> QED BY <3>1, <3>2
  <2>2. bufSize < waitFor
    BY <1>2 DEF IInv, LoopInv, TypeOK
  <2> QED BY <2>1, <2>2, <1>1, <1>3, CapacityAssumption DEF IInv, TypeOK, NoOverflow
<1> QED BY <1>4, <1>5, <1>6, <1>7, <1>8 DEF IInv

\* What an iteration that ends the message being read (with verdict v) does
\* to the history, whatever its outcome.
LEMMA ConcludeKeeps ==
    ASSUME IInv, looping,
           NEW v \in {"welcomed", "refused", "handled", "skipped"}, Conclude(v)
    PROVE  /\ outcome' \in Seq({"welcomed", "refused", "handled", "skipped"})
           /\ Len(outcome') = Len(outcome) + 1 /\ Len(outcome) \in Nat
           /\ Len(outcome') + 1 <= Len(at)
<1>1. Len(outcome) + 1 \in 1..Len(sent)
  BY NextMessage
<1> QED BY <1>1 DEF IInv, TypeOK, Conclude

\* A header that ends its message, whatever the verdict on it: the next
\* message's header is the next chunk.
LEMMA EmptyMessageKeeps ==
    ASSUME IInv, looping, readState # "body",
           sent[Len(outcome) + 1].size = 0,
           NEW v \in {"welcomed", "refused", "handled", "skipped"}, Conclude(v),
           Shift(HeaderSize), readState' # "body"
    PROVE  FrameAligned'
<1> DEFINE k == Len(outcome) + 1
<1>1. k \in 1..Len(sent) /\ at[k + 1] = at[k] + HeaderSize + sent[k].size
  BY NextMessage
<1>2. /\ waitFor' = HeaderSize /\ base' = base + waitFor /\ base' + bufSize' = delivered'
      /\ at' = at
  BY ShiftKeeps, HeaderSizeAssumption
<1>3. Len(outcome') = k /\ k + 1 <= Len(at)
  BY ConcludeKeeps, <1>1 DEF IInv, TypeOK
<1>4. base = at[k] /\ waitFor = HeaderSize
  BY DEF IInv, FrameAligned
<1>5. base' = at'[Len(outcome') + 1]
  <2>1. at[k] \in Nat
    BY <1>1, SMTT(30) DEF IInv, TypeOK
  <2>2. at[k + 1] = at[k] + HeaderSize
    <3>1. sent[k].size = 0
      OBVIOUS
    <3> HIDE DEF k
    <3> QED BY <2>1, <3>1, <1>1, HeaderSizeAssumption
  <2> QED BY <2>2, <1>2, <1>3, <1>4
<1> QED BY <1>2, <1>3, <1>5 DEF FrameAligned

LEMMA RefuseKeeps == IInv /\ Refuse => IInv'
<1> SUFFICES ASSUME IInv, Refuse PROVE IInv'
  OBVIOUS
<1>1. /\ looping /\ ~authenticated /\ Conclude("refused") /\ Send(AUTH_FAILED) /\ Shift(waitFor)
      /\ UNCHANGED <<authenticated, readState, tmpMessage, capturer, inputs>>
  BY DEF Refuse
<1>2. readState # "body" /\ waitFor = HeaderSize
  BY <1>1 DEF IInv, StateInv, FrameAligned
<1>3. Len(outcome) + 1 \in 1..Len(sent) /\ sent[Len(outcome) + 1].size = 0
  BY <1>1, NextMessage DEF IInv, StateInv
<1>4. FrameAligned'
  BY <1>1, <1>2, <1>3, EmptyMessageKeeps
<1>5. /\ base' \in Nat /\ bufSize' \in Nat /\ waitFor' \in Nat /\ looping' \in BOOLEAN
      /\ sent' = sent /\ at' = at /\ delivered' = delivered /\ connected' = connected
      /\ delivered' <= StreamLength' /\ Layout' /\ LoopInv' /\ NoOverflow'
  BY <1>1, <1>2, ShiftKeeps, HeaderSizeAssumption
<1>6. /\ outcome' \in Seq({"welcomed", "refused", "handled", "skipped"})
      /\ Len(outcome') = Len(outcome) + 1 /\ Len(outcome) \in Nat
  BY <1>1, ConcludeKeeps
<1>7. TypeOK'
  <2>1. replies' \in Seq({AUTH_SUCCESS, AUTH_FAILED, HUB_ITEMS})
    BY <1>1 DEF IInv, TypeOK, Send
  <2>2. UNCHANGED <<authenticated, readState, tmpMessage, capturer, inputs>>
    BY <1>1
  <2> QED BY <2>1, <2>2, <1>5, <1>6 DEF IInv, TypeOK
<1>8. StateInv'
  BY <1>1, <1>2, <1>5, <1>6 DEF IInv, StateInv, TypeOK
<1> QED BY <1>4, <1>5, <1>7, <1>8 DEF IInv

LEMMA AuthenticateKeeps == IInv /\ Authenticate => IInv'
<1> SUFFICES ASSUME IInv, Authenticate PROVE IInv'
  OBVIOUS
<1>1. /\ looping /\ ~authenticated /\ Conclude("welcomed") /\ Send(AUTH_SUCCESS)
      /\ Shift(HeaderSize) /\ authenticated' = TRUE /\ readState' = "header"
      /\ capturer' = [capturer EXCEPT !.client = TRUE]
      /\ UNCHANGED <<tmpMessage, inputs>>
  BY DEF Authenticate
<1>2. readState # "body" /\ readState' # "body"
  BY <1>1 DEF IInv, StateInv
<1>3. Len(outcome) + 1 \in 1..Len(sent) /\ sent[Len(outcome) + 1].size = 0
  BY <1>1, NextMessage DEF IInv, StateInv
<1>4. FrameAligned'
  BY <1>1, <1>2, <1>3, EmptyMessageKeeps
<1>5. /\ base' \in Nat /\ bufSize' \in Nat /\ waitFor' \in Nat /\ looping' \in BOOLEAN
      /\ sent' = sent /\ at' = at /\ delivered' = delivered /\ connected' = connected
      /\ delivered' <= StreamLength' /\ Layout' /\ LoopInv' /\ NoOverflow'
  BY <1>1, ShiftKeeps, HeaderSizeAssumption
<1>6. outcome' \in Seq({"welcomed", "refused", "handled", "skipped"})
  BY <1>1, ConcludeKeeps
<1>7. TypeOK'
  <2>1. replies' \in Seq({AUTH_SUCCESS, AUTH_FAILED, HUB_ITEMS})
    BY <1>1 DEF IInv, TypeOK, Send
  <2>2. capturer' \in [client : BOOLEAN, streaming : BOOLEAN]
    BY <1>1 DEF IInv, TypeOK
  <2> QED BY <2>1, <2>2, <1>1, <1>5, <1>6 DEF IInv, TypeOK
<1>8. StateInv'
  BY <1>1, <1>2 DEF StateInv
<1> QED BY <1>4, <1>5, <1>7, <1>8 DEF IInv

LEMMA SkipHeaderKeeps == IInv /\ SkipHeader => IInv'
<1> SUFFICES ASSUME IInv, SkipHeader PROVE IInv'
  OBVIOUS
<1>1. /\ looping /\ authenticated /\ readState = "header" /\ HeaderHere = {}
      /\ tmpMessage' = NoMessage /\ Conclude("skipped") /\ Shift(waitFor)
      /\ UNCHANGED <<authenticated, readState, replies, capturer, inputs>>
  BY DEF SkipHeader, effectVars
<1>2. Len(outcome) + 1 \in 1..Len(sent) /\ sent[Len(outcome) + 1] \in Message
      /\ ~sent[Len(outcome) + 1].valid
  BY <1>1, NextMessage
<1>3. sent[Len(outcome) + 1].size = 0 /\ waitFor = HeaderSize
  BY <1>1, <1>2, MessageAssumption DEF IInv, FrameAligned
<1>4. FrameAligned'
  BY <1>1, <1>3, EmptyMessageKeeps
<1>5. /\ base' \in Nat /\ bufSize' \in Nat /\ waitFor' \in Nat /\ looping' \in BOOLEAN
      /\ sent' = sent /\ at' = at /\ delivered' = delivered /\ connected' = connected
      /\ delivered' <= StreamLength' /\ Layout' /\ LoopInv' /\ NoOverflow'
  BY <1>1, <1>3, ShiftKeeps, HeaderSizeAssumption
<1>6. outcome' \in Seq({"welcomed", "refused", "handled", "skipped"})
  BY <1>1, ConcludeKeeps
<1>7. TypeOK'
  BY <1>1, <1>5, <1>6 DEF IInv, TypeOK, NoMessage
<1>8. StateInv'
  BY <1>1 DEF IInv, StateInv
<1> QED BY <1>4, <1>5, <1>7, <1>8 DEF IInv

LEMMA ReadHeaderOnlyKeeps == IInv /\ ReadHeaderOnly => IInv'
<1> SUFFICES ASSUME IInv, ReadHeaderOnly PROVE IInv'
  OBVIOUS
<1>1. /\ looping /\ authenticated /\ readState = "header" /\ Conclude("handled")
      /\ Shift(HeaderSize) /\ UNCHANGED <<authenticated, readState>>
  BY DEF ReadHeaderOnly
<1>2. PICK k \in HeaderHere :
        /\ sent[k].size = 0
        /\ tmpMessage' = [code |-> sent[k].code, size |-> 0]
        /\ ProcessMessageHeader(sent[k].code)
  BY DEF ReadHeaderOnly
<1>3. k = Len(outcome) + 1 /\ sent[k] \in Message
  BY <1>1, <1>2, NextMessage
<1>4. FrameAligned'
  BY <1>1, <1>2, <1>3, EmptyMessageKeeps
<1>5. /\ base' \in Nat /\ bufSize' \in Nat /\ waitFor' \in Nat /\ looping' \in BOOLEAN
      /\ sent' = sent /\ at' = at /\ delivered' = delivered /\ connected' = connected
      /\ delivered' <= StreamLength' /\ Layout' /\ LoopInv' /\ NoOverflow'
  BY <1>1, ShiftKeeps, HeaderSizeAssumption
<1>6. outcome' \in Seq({"welcomed", "refused", "handled", "skipped"})
  BY <1>1, ConcludeKeeps
<1>7. replies' \in Seq({AUTH_SUCCESS, AUTH_FAILED, HUB_ITEMS}) /\ UNCHANGED <<capturer, inputs>>
  <2>1. UNCHANGED <<capturer, inputs>> /\ (replies' = replies \/ replies' = Append(replies, HUB_ITEMS))
    BY <1>2 DEF ProcessMessageHeader, Send
  <2>2. replies \in Seq({AUTH_SUCCESS, AUTH_FAILED, HUB_ITEMS})
    BY DEF IInv, TypeOK
  <2>3. Append(replies, HUB_ITEMS) \in Seq({AUTH_SUCCESS, AUTH_FAILED, HUB_ITEMS})
    BY <2>2
  <2> QED BY <2>1, <2>2, <2>3
<1>8. TypeOK'
  BY <1>1, <1>2, <1>3, <1>5, <1>6, <1>7, MessageAssumption DEF IInv, TypeOK
<1>9. StateInv'
  BY <1>1 DEF IInv, StateInv
<1> QED BY <1>4, <1>5, <1>8, <1>9 DEF IInv

LEMMA ReadHeaderKeeps == IInv /\ ReadHeader => IInv'
<1> SUFFICES ASSUME IInv, ReadHeader PROVE IInv'
  OBVIOUS
<1>1. /\ looping /\ authenticated /\ readState = "header" /\ readState' = "body"
      /\ UNCHANGED <<authenticated, outcome>>
  BY DEF ReadHeader
<1>2. PICK k \in HeaderHere :
        /\ sent[k].size > 0
        /\ tmpMessage' = [code |-> sent[k].code, size |-> sent[k].size]
        /\ ProcessMessageHeader(sent[k].code)
        /\ Shift(sent[k].size)
  BY DEF ReadHeader
<1>3. /\ k = Len(outcome) + 1 /\ k \in 1..Len(sent) /\ sent[k] \in Message /\ sent[k].valid
      /\ sent[k].size \in Nat \ {0} /\ sent[k].code \in Nat
  BY <1>1, <1>2, NextMessage, MessageAssumption
<1>4. /\ waitFor' = sent[k].size /\ base' = base + waitFor
      /\ base' \in Nat /\ bufSize' \in Nat /\ waitFor' \in Nat /\ looping' \in BOOLEAN
      /\ sent' = sent /\ at' = at /\ delivered' = delivered /\ connected' = connected
      /\ base' + bufSize' = delivered'
      /\ delivered' <= StreamLength' /\ Layout' /\ LoopInv' /\ NoOverflow'
  BY <1>1, <1>2, <1>3, ShiftKeeps
<1>5. base = at[k] /\ waitFor = HeaderSize /\ k <= Len(at)
  BY <1>1, <1>3 DEF IInv, FrameAligned
<1>6. FrameAligned'
  BY <1>1, <1>2, <1>3, <1>4, <1>5 DEF FrameAligned
<1>7. replies' \in Seq({AUTH_SUCCESS, AUTH_FAILED, HUB_ITEMS}) /\ UNCHANGED <<capturer, inputs>>
  <2>1. UNCHANGED <<capturer, inputs>> /\ (replies' = replies \/ replies' = Append(replies, HUB_ITEMS))
    BY <1>2 DEF ProcessMessageHeader, Send
  <2>2. replies \in Seq({AUTH_SUCCESS, AUTH_FAILED, HUB_ITEMS})
    BY DEF IInv, TypeOK
  <2>3. Append(replies, HUB_ITEMS) \in Seq({AUTH_SUCCESS, AUTH_FAILED, HUB_ITEMS})
    BY <2>2
  <2> QED BY <2>1, <2>2, <2>3
<1>8. TypeOK'
  BY <1>1, <1>2, <1>3, <1>4, <1>7 DEF IInv, TypeOK
<1>9. StateInv'
  BY <1>1, <1>3, <1>4 DEF IInv, StateInv
<1> QED BY <1>4, <1>6, <1>8, <1>9 DEF IInv

LEMMA ReadBodyKeeps == IInv /\ ReadBody => IInv'
<1> SUFFICES ASSUME IInv, ReadBody PROVE IInv'
  OBVIOUS
<1> DEFINE k == Len(outcome) + 1
<1>1. /\ looping /\ authenticated /\ readState = "body"
      /\ UNCHANGED <<authenticated, replies>>
  BY DEF ReadBody
<1>2. /\ waitFor = tmpMessage.size /\ base = at[k] + HeaderSize /\ waitFor = sent[k].size
  BY <1>1 DEF IInv, FrameAligned
<1>3. /\ ProcessMessageBody(tmpMessage.code) /\ readState' = "header"
      /\ tmpMessage' = NoMessage /\ Conclude("handled") /\ Shift(HeaderSize)
  BY <1>2 DEF ReadBody
<1>4. k \in 1..Len(sent) /\ at[k + 1] = at[k] + HeaderSize + sent[k].size
  BY <1>1, NextMessage
<1>5. /\ waitFor' = HeaderSize /\ base' = base + waitFor
      /\ base' \in Nat /\ bufSize' \in Nat /\ waitFor' \in Nat /\ looping' \in BOOLEAN
      /\ sent' = sent /\ at' = at /\ delivered' = delivered /\ connected' = connected
      /\ base' + bufSize' = delivered'
      /\ delivered' <= StreamLength' /\ Layout' /\ LoopInv' /\ NoOverflow'
  BY <1>1, <1>3, ShiftKeeps, HeaderSizeAssumption
<1>6. /\ outcome' \in Seq({"welcomed", "refused", "handled", "skipped"})
      /\ Len(outcome') = k /\ k + 1 <= Len(at)
  BY <1>1, <1>3, <1>4, ConcludeKeeps DEF IInv, TypeOK
<1>7. FrameAligned'
  BY <1>2, <1>3, <1>4, <1>5, <1>6 DEF FrameAligned
<1>8. capturer' \in [client : BOOLEAN, streaming : BOOLEAN]
  BY <1>3 DEF ProcessMessageBody, IInv, TypeOK
<1>9. inputs' \in Seq(Nat)
  BY <1>3 DEF ProcessMessageBody, IInv, TypeOK
<1>10. TypeOK'
  BY <1>1, <1>3, <1>5, <1>6, <1>8, <1>9 DEF IInv, TypeOK, NoMessage
<1>11. StateInv'
  BY <1>1, <1>3 DEF StateInv
<1> QED BY <1>5, <1>7, <1>10, <1>11 DEF IInv

LEMMA DisconnectKeeps == IInv /\ DisconnectFromServer => IInv'
<1> SUFFICES ASSUME IInv, DisconnectFromServer PROVE IInv'
  OBVIOUS
<1>1. /\ connected' = FALSE
      /\ UNCHANGED <<sent, at, delivered, base, bufSize, waitFor, looping, authenticated,
                     readState, tmpMessage, replies, capturer, inputs, outcome>>
  BY DEF DisconnectFromServer, streamVars, bufferVars, effectVars
<1>2. TypeOK'
  BY <1>1 DEF IInv, TypeOK
<1>3. Layout' /\ delivered' <= StreamLength' /\ FrameAligned'
  BY <1>1 DEF IInv, Layout, StreamLength, FrameAligned
<1>4. LoopInv' /\ StateInv' /\ NoOverflow'
  BY <1>1 DEF IInv, LoopInv, StateInv, NoOverflow
<1> QED BY <1>2, <1>3, <1>4 DEF IInv

LEMMA StutterKeeps == IInv /\ UNCHANGED vars => IInv'
BY SMTT(30) DEF vars, IInv, TypeOK, Layout, StreamLength, FrameAligned, LoopInv, StateInv, NoOverflow

-----------------------------------------------------------------------------

\* The inductive invariant: the session's place in the stream is never lost.
THEOREM Invariance == Spec => []IInv
<1>1. Init => IInv
  BY InitIInv
<1>2. IInv /\ [Next]_vars => IInv'
  BY ClientSendKeeps, ProcessMessageKeeps, RefuseKeeps, AuthenticateKeeps, SkipHeaderKeeps,
     ReadHeaderOnlyKeeps, ReadHeaderKeeps, ReadBodyKeeps, DisconnectKeeps, StutterKeeps
     DEF Next, Iterate
<1> QED BY <1>1, <1>2, PTL DEF Spec

\* Every variable of a session keeps its type.
THEOREM TypeCorrect == Spec => []TypeOK
BY Invariance, PTL DEF IInv

\* For every set of messages and every segmentation, _receivedBuffer begins
\* where the message being read begins and _waitForSize is what it lacks.
THEOREM Alignment == Spec => []FrameAligned
BY Invariance, PTL DEF IInv

\* No complete chunk waits in the buffer between two callbacks.
THEOREM NoStrandedChunk == Spec => []NothingStranded
<1>1. IInv => NothingStranded
  BY DEF IInv, LoopInv, TypeOK, NothingStranded
<1> QED BY <1>1, Invariance, PTL

\* The unchecked memcpy of ProcessMessage stays inside _receivedBuffer as
\* long as the largest message and one segment fit in it together.
THEOREM BufferBound == Spec => []NoOverflow
BY Invariance, PTL DEF IInv

-----------------------------------------------------------------------------
(* What the session does for each message, once and in order.              *)

\* How many headers have been read.
LEMMA HeadersReadCount ==
    ASSUME IInv
    PROVE  /\ Len(outcome) \in Nat /\ Len(sent) \in Nat
           /\ readState = "body"  => HeadersRead = 1..Len(outcome) + 1 /\ Len(outcome) + 1 <= Len(sent)
           /\ readState # "body" => HeadersRead = 1..Len(outcome)
           /\ Len(outcome) <= Len(sent)
           /\ HeadersRead \subseteq 1..Len(sent)
<1>1. /\ Len(outcome) \in Nat /\ Len(sent) \in Nat /\ Len(outcome) + 1 <= Len(sent) + 1
      /\ readState = "body" => Len(outcome) + 1 <= Len(sent)
  BY DEF IInv, TypeOK, FrameAligned
<1>2. readState = "body" => HeadersRead = 1..Len(outcome) + 1
  BY DEF HeadersRead
<1>3. readState # "body" => HeadersRead = 1..Len(outcome)
  BY <1>1 DEF HeadersRead
<1> QED BY <1>1, <1>2, <1>3

\* A step that reads no header and changes no verdict on one leaves the replies.
LEMMA AnswersStay ==
    ASSUME RepliesInOrder, HeadersRead' = HeadersRead, replies' = replies,
           \A k \in HeadersRead : AnswerTo(k)' = AnswerTo(k)
    PROVE  RepliesInOrder'
<1>1. Answered' = Answered
  BY DEF Answered
<1> QED BY <1>1 DEF RepliesInOrder, Answered

\* A step that reads one more header adds the reply to it, if there is one.
LEMMA AnswersGrow ==
    ASSUME RepliesInOrder, replies \in Seq(Nat), NEW n \in Nat,
           HeadersRead = 1..n, HeadersRead' = 1..n + 1,
           \A k \in 1..n : AnswerTo(k)' = AnswerTo(k),
           AnswerTo(n + 1)' \in Nat,
           IF AnswerTo(n + 1)' = 0 THEN replies' = replies
                                   ELSE replies' = Append(replies, AnswerTo(n + 1)')
    PROVE  RepliesInOrder'
<1> DEFINE answer == AnswerTo(n + 1)'
           Upto(S, k) == {j \in S : j <= k}
<1>1. IsFiniteSet(Answered) /\ Answered \subseteq 1..n
  <2>1. IsFiniteSet(1..n) /\ Answered \in SUBSET (1..n)
    BY FS_Interval DEF Answered
  <2> QED BY <2>1, FS_Subset
<1>2. CASE answer = 0
  <2>1. Answered' = Answered
    BY <1>2 DEF Answered
  <2>2. \A k \in Answered : AnswerTo(k)' = AnswerTo(k)
    BY <1>1
  <2> QED BY <1>2, <2>1, <2>2 DEF RepliesInOrder
<1>3. CASE answer # 0
  <2>1. Answered' = Answered \cup {n + 1}
    BY <1>3 DEF Answered
  <2>2. n + 1 \notin Answered
    BY <1>1
  <2>3. Cardinality(Answered') = Cardinality(Answered) + 1
    BY <1>1, <2>1, <2>2, FS_AddElement
  <2>4. Len(replies) = Cardinality(Answered) /\ replies' = Append(replies, answer) /\ answer \in Nat
    BY <1>3 DEF RepliesInOrder
  <2>5. /\ Len(replies') = Len(replies) + 1 /\ Len(replies) \in Nat
        /\ replies'[Len(replies) + 1] = answer
        /\ \A i \in 1..Len(replies) : replies'[i] = replies[i]
    <3> HIDE DEF answer
    <3> QED BY <2>4, SMTT(30)
  <2>6. ASSUME NEW k \in Answered
        PROVE  replies'[Cardinality(Upto(Answered', k))] = AnswerTo(k)'
    <3>0. k \in 1..n /\ ~(n + 1 <= k)
      BY <1>1
    <3>1. Upto(Answered', k) = Upto(Answered, k)
      BY <2>1, <3>0
    <3>2. Upto(Answered, k) \in SUBSET Answered /\ k \in Upto(Answered, k)
      BY <1>1
    <3>3. /\ IsFiniteSet(Upto(Answered, k))
          /\ Cardinality(Upto(Answered, k)) <= Cardinality(Answered)
      <4> HIDE DEF Upto
      <4> QED BY <1>1, <3>2, FS_Subset
    <3>4. Cardinality(Upto(Answered, k)) \in Nat \ {0}
      <4> HIDE DEF Upto
      <4> QED BY <3>2, <3>3, FS_CardinalityType, FS_EmptySet
    <3>5. Cardinality(Upto(Answered, k)) \in 1..Len(replies)
      <4> HIDE DEF Upto
      <4> QED BY <2>4, <2>5, <3>3, <3>4
    <3>6. replies[Cardinality(Upto(Answered, k))] = AnswerTo(k)
      BY DEF RepliesInOrder
    <3>7. AnswerTo(k)' = AnswerTo(k)
      BY <3>0
    <3> HIDE DEF Upto
    <3> QED BY <2>5, <3>1, <3>5, <3>6, <3>7
  <2>7. replies'[Cardinality(Upto(Answered', n + 1))] = answer
    <3>1. Upto(Answered', n + 1) = Answered'
      <4>1. \A j \in Answered' : j <= n + 1
        BY <1>1, <2>1
      <4> QED BY <4>1
    <3> HIDE DEF Upto, answer
    <3> QED BY <2>3, <2>4, <2>5, <3>1
  <2>8. \A k \in Answered' : replies'[Cardinality(Upto(Answered', k))] = AnswerTo(k)'
    <3> HIDE DEF Upto
    <3> QED BY <2>1, <2>6, <2>7
  <2> QED BY <2>3, <2>4, <2>5, <2>8 DEF RepliesInOrder
<1> QED BY <1>2, <1>3

\* A verdict on a header that ends its message decides what it is answered with.
LEMMA ConcludeAnswers ==
    ASSUME IInv, looping, readState # "body", readState' # "body", sent' = sent,
           NEW n \in Nat, n = Len(outcome),
           NEW v \in {"welcomed", "refused", "handled", "skipped"}, Conclude(v)
    PROVE  /\ HeadersRead = 1..n /\ HeadersRead' = 1..n + 1
           /\ \A k \in 1..n : AnswerTo(k)' = AnswerTo(k)
           /\ v = "refused"  => AnswerTo(n + 1)' = AUTH_FAILED
           /\ v = "welcomed" => AnswerTo(n + 1)' = AUTH_SUCCESS
           /\ v = "skipped"  => AnswerTo(n + 1)' = 0
           /\ v = "handled"  => AnswerTo(n + 1)' =
                                  IF sent[n + 1].code = HUB_REQUEST THEN HUB_ITEMS ELSE 0
<1>1. /\ Len(outcome') = n + 1
      /\ outcome'[n + 1] = v
      /\ \A k \in 1..n : outcome'[k] = outcome[k]
  BY DEF IInv, TypeOK, Conclude
<1>2. HeadersRead = 1..n /\ HeadersRead' = 1..n + 1
  BY <1>1 DEF HeadersRead
<1>3. ASSUME NEW k \in 1..n
      PROVE  AnswerTo(k)' = AnswerTo(k)
  <2>1. k <= Len(outcome) /\ k <= Len(outcome') /\ outcome'[k] = outcome[k]
    BY <1>1
  <2> QED BY <2>1 DEF AnswerTo
<1>4. n + 1 <= Len(outcome')
  BY <1>1
<1>5. /\ v = "refused"  => AnswerTo(n + 1)' = AUTH_FAILED
      /\ v = "welcomed" => AnswerTo(n + 1)' = AUTH_SUCCESS
      /\ v = "skipped"  => AnswerTo(n + 1)' = 0
      /\ v = "handled"  => AnswerTo(n + 1)' =
                             IF sent[n + 1].code = HUB_REQUEST THEN HUB_ITEMS ELSE 0
  BY <1>1, <1>4 DEF AnswerTo
<1> QED BY <1>2, <1>3, <1>5

LEMMA RepliesKeep ==
    ASSUME IInv, RepliesInOrder, [Next]_vars
    PROVE  RepliesInOrder'
<1> USE DEF streamVars, bufferVars, effectVars
<1>0. PICK n \in Nat : n = Len(outcome)
  BY DEF IInv, TypeOK
<1>8. replies \in Seq(Nat)
  <2>1. replies \in Seq({AUTH_SUCCESS, AUTH_FAILED, HUB_ITEMS})
    BY DEF IInv, TypeOK
  <2>2. {AUTH_SUCCESS, AUTH_FAILED, HUB_ITEMS} \subseteq Nat
    BY DEF AUTH_SUCCESS, AUTH_FAILED, HUB_ITEMS
  <2> QED BY <2>1, <2>2, SeqMonotonic
<1> USE DEF AUTH_FAILED, AUTH_SUCCESS, HUB_ITEMS
<1>1. CASE ClientSend \/ ProcessMessage \/ DisconnectFromServer \/ UNCHANGED vars
  <2>1. UNCHANGED <<outcome, readState, replies>>
    BY <1>1 DEF ClientSend, ProcessMessage, DisconnectFromServer, vars
  <2>2. sent' = sent \/ \E m \in Message : sent' = Append(sent, m)
    BY <1>1 DEF ClientSend, ProcessMessage, DisconnectFromServer, vars
  <2>3. \A k \in 1..Len(sent) : sent'[k] = sent[k]
    <3>1. sent \in Seq(Message)
      BY DEF IInv, TypeOK
    <3>2. ASSUME NEW m \in Message, sent' = Append(sent, m)
          PROVE  \A k \in 1..Len(sent) : sent'[k] = sent[k]
      BY <3>1, <3>2, AppendProperties
    <3> QED BY <2>2, <3>2
  <2>4. HeadersRead' = HeadersRead
    BY <2>1 DEF HeadersRead
  <2>5. HeadersRead \subseteq 1..Len(sent)
    BY HeadersReadCount
  <2>6. \A k \in HeadersRead : AnswerTo(k)' = AnswerTo(k)
    BY <2>1, <2>3, <2>5 DEF AnswerTo
  <2> QED BY <2>1, <2>4, <2>6, AnswersStay
<1>2. CASE ReadBody
  <2>1. looping /\ readState = "body" /\ waitFor = tmpMessage.size
    BY <1>2 DEF ReadBody, IInv, FrameAligned
  <2>2. /\ readState' = "header" /\ outcome' = Append(outcome, "handled")
        /\ UNCHANGED <<sent, replies>>
    BY <1>2, <2>1 DEF ReadBody, Conclude, Shift
  <2>3. /\ Len(outcome') = n + 1 /\ outcome'[n + 1] = "handled"
        /\ \A k \in 1..n : outcome'[k] = outcome[k]
    BY <1>0, <2>2 DEF IInv, TypeOK
  <2>4. HeadersRead = 1..n + 1 /\ HeadersRead' = 1..n + 1
    BY <1>0, <2>1, <2>2, <2>3 DEF HeadersRead
  <2>5. ASSUME NEW k \in 1..n + 1
        PROVE  AnswerTo(k)' = AnswerTo(k)
    <3>1. CASE k \in 1..n
      <4>1. k <= Len(outcome) /\ k <= Len(outcome') /\ outcome'[k] = outcome[k]
        BY <1>0, <2>3, <3>1
      <4> QED BY <2>2, <4>1 DEF AnswerTo
    <3>2. CASE k = n + 1
      <4>1. ~(k <= Len(outcome)) /\ k <= Len(outcome') /\ outcome'[k] = "handled"
        BY <1>0, <2>3, <3>2
      <4> QED BY <2>2, <4>1 DEF AnswerTo
    <3> QED BY <1>0, <3>1, <3>2
  <2> QED BY <2>2, <2>4, <2>5, AnswersStay
<1>3. CASE Refuse
  <2>1. /\ looping /\ readState # "body" /\ readState' # "body" /\ sent' = sent
        /\ Conclude("refused") /\ replies' = Append(replies, AUTH_FAILED)
    BY <1>3 DEF Refuse, Shift, Send, IInv, StateInv
  <2>2. /\ HeadersRead = 1..n /\ HeadersRead' = 1..n + 1
        /\ \A k \in 1..n : AnswerTo(k)' = AnswerTo(k)
        /\ AnswerTo(n + 1)' = AUTH_FAILED
    BY <1>0, <2>1, ConcludeAnswers
  <2>3. AnswerTo(n + 1)' \in Nat \ {0} /\ replies' = Append(replies, AnswerTo(n + 1)')
    BY <2>1, <2>2
  <2> QED BY <1>8, <2>2, <2>3, AnswersGrow
<1>4. CASE Authenticate
  <2>1. /\ looping /\ readState # "body" /\ readState' # "body" /\ sent' = sent
        /\ Conclude("welcomed") /\ replies' = Append(replies, AUTH_SUCCESS)
    BY <1>4 DEF Authenticate, Shift, Send, IInv, StateInv
  <2>2. /\ HeadersRead = 1..n /\ HeadersRead' = 1..n + 1
        /\ \A k \in 1..n : AnswerTo(k)' = AnswerTo(k)
        /\ AnswerTo(n + 1)' = AUTH_SUCCESS
    BY <1>0, <2>1, ConcludeAnswers
  <2>3. AnswerTo(n + 1)' \in Nat \ {0} /\ replies' = Append(replies, AnswerTo(n + 1)')
    BY <2>1, <2>2
  <2> QED BY <1>8, <2>2, <2>3, AnswersGrow
<1>5. CASE SkipHeader
  <2>1. /\ looping /\ readState # "body" /\ readState' # "body" /\ sent' = sent
        /\ Conclude("skipped") /\ replies' = replies
    BY <1>5 DEF SkipHeader, Shift
  <2>2. /\ HeadersRead = 1..n /\ HeadersRead' = 1..n + 1
        /\ \A k \in 1..n : AnswerTo(k)' = AnswerTo(k)
        /\ AnswerTo(n + 1)' = 0
    BY <1>0, <2>1, ConcludeAnswers
  <2>3. AnswerTo(n + 1)' \in Nat /\ replies' = replies
    BY <2>1, <2>2
  <2> QED BY <1>8, <2>2, <2>3, AnswersGrow
<1>6. CASE ReadHeaderOnly
  <2>1. /\ looping /\ readState # "body" /\ readState' # "body" /\ sent' = sent
        /\ Conclude("handled")
    BY <1>6 DEF ReadHeaderOnly, Shift
  <2>2. /\ HeadersRead = 1..n /\ HeadersRead' = 1..n + 1
        /\ \A k \in 1..n : AnswerTo(k)' = AnswerTo(k)
        /\ AnswerTo(n + 1)' = IF sent[n + 1].code = HUB_REQUEST THEN HUB_ITEMS ELSE 0
    BY <1>0, <2>1, ConcludeAnswers
  <2>3. HeaderHere \subseteq {n + 1} /\ \E k \in HeaderHere : ProcessMessageHeader(sent[k].code)
    BY <1>6, <2>1, <1>0, NextMessage DEF ReadHeaderOnly
  <2>4. IF sent[n + 1].code = HUB_REQUEST THEN replies' = Append(replies, HUB_ITEMS) ELSE replies' = replies
    BY <2>3 DEF ProcessMessageHeader, Send
  <2>5. /\ AnswerTo(n + 1)' \in Nat
        /\ IF AnswerTo(n + 1)' = 0 THEN replies' = replies
                                   ELSE replies' = Append(replies, AnswerTo(n + 1)')
    BY <2>2, <2>4
  <2> QED BY <1>8, <2>2, <2>5, AnswersGrow
<1>7. CASE ReadHeader
  <2>1. /\ looping /\ readState = "header" /\ readState' = "body" /\ UNCHANGED <<sent, outcome>>
    BY <1>7 DEF ReadHeader, Shift
  <2>2. HeadersRead = 1..n /\ HeadersRead' = 1..n + 1
    BY <1>0, <2>1 DEF HeadersRead
  <2>3. \A k \in 1..n : AnswerTo(k)' = AnswerTo(k)
    BY <1>0, <2>1 DEF AnswerTo
  <2>4. AnswerTo(n + 1)' = IF sent[n + 1].code = HUB_REQUEST THEN HUB_ITEMS ELSE 0
    <3>1. ~(n + 1 <= Len(outcome'))
      BY <1>0, <2>1
    <3> QED BY <2>1, <3>1 DEF AnswerTo
  <2>5. HeaderHere \subseteq {n + 1} /\ \E k \in HeaderHere : ProcessMessageHeader(sent[k].code)
    BY <1>7, <2>1, <1>0, NextMessage DEF ReadHeader
  <2>6. IF sent[n + 1].code = HUB_REQUEST THEN replies' = Append(replies, HUB_ITEMS) ELSE replies' = replies
    BY <2>5 DEF ProcessMessageHeader, Send
  <2>7. /\ AnswerTo(n + 1)' \in Nat
        /\ IF AnswerTo(n + 1)' = 0 THEN replies' = replies
                                   ELSE replies' = Append(replies, AnswerTo(n + 1)')
    BY <2>4, <2>6
  <2> QED BY <1>8, <2>2, <2>3, <2>7, AnswersGrow
<1> QED BY <1>1, <1>2, <1>3, <1>4, <1>5, <1>6, <1>7 DEF Next, Iterate

\* Every answer is given once, in the order the client asked.
THEOREM RepliesOrdered == Spec => []RepliesInOrder
<1>1. Init => RepliesInOrder
  <2> SUFFICES ASSUME Init PROVE RepliesInOrder
    OBVIOUS
  <2>1. HeadersRead = {}
    BY DEF Init, HeadersRead
  <2>2. Answered = {}
    BY <2>1 DEF Answered
  <2> QED BY <2>2, FS_EmptySet DEF Init, RepliesInOrder
<1>2. IInv /\ RepliesInOrder /\ [Next]_vars => RepliesInOrder'
  BY RepliesKeep
<1> QED BY <1>1, <1>2, Invariance, PTL DEF Spec

\* A message that is not an input with content leaves the inputs.
LEMMA InputsStay ==
    ASSUME InputsAppliedOnce, inputs' = inputs, InputsRead' = InputsRead,
           \A k \in InputsRead : at'[k] = at[k]
    PROVE  InputsAppliedOnce'
<1>1. {at'[k] + HeaderSize : k \in InputsRead'} = {at[k] + HeaderSize : k \in InputsRead}
  OBVIOUS
<1>2. {inputs'[i] : i \in 1..Len(inputs')} = {at'[k] + HeaderSize : k \in InputsRead'}
  BY <1>1 DEF InputsAppliedOnce
<1>3. \A i, j \in 1..Len(inputs') : i < j => inputs'[i] < inputs'[j]
  BY DEF InputsAppliedOnce
<1> HIDE DEF InputsRead
<1> QED BY <1>2, <1>3 DEF InputsAppliedOnce

\* A verdict ends one message.
LEMMA ConcludeInputs ==
    ASSUME IInv, looping, sent' = sent,
           NEW n \in Nat, n = Len(outcome),
           NEW v \in {"welcomed", "refused", "handled", "skipped"}, Conclude(v)
    PROVE  InputsRead' =
             IF v = "handled" /\ sent[n + 1].code = INPUT /\ sent[n + 1].size > 0
               THEN InputsRead \cup {n + 1} ELSE InputsRead
<1>1. /\ Len(outcome') = n + 1
      /\ outcome'[n + 1] = v
      /\ \A k \in 1..n : outcome'[k] = outcome[k]
  BY DEF IInv, TypeOK, Conclude
<1>2. 1..Len(outcome') = (1..n) \cup {n + 1} /\ n + 1 \notin 1..n
  BY <1>1
<1>3. \A k \in 1..n : k \in InputsRead' <=> k \in InputsRead
  BY <1>1, <1>2 DEF InputsRead
<1>4. n + 1 \in InputsRead' <=> v = "handled" /\ sent[n + 1].code = INPUT /\ sent[n + 1].size > 0
  BY <1>1, <1>2 DEF InputsRead
<1>5. InputsRead \subseteq 1..n /\ InputsRead' \subseteq (1..n) \cup {n + 1}
  BY <1>2 DEF InputsRead
<1>6. CASE v = "handled" /\ sent[n + 1].code = INPUT /\ sent[n + 1].size > 0
  <2>1. n + 1 \in InputsRead'
    BY <1>4, <1>6
  <2>2. InputsRead' = InputsRead \cup {n + 1}
    <3> HIDE DEF InputsRead
    <3> QED BY <1>2, <1>3, <1>5, <2>1
  <2> QED BY <1>6, <2>2
<1>7. CASE ~(v = "handled" /\ sent[n + 1].code = INPUT /\ sent[n + 1].size > 0)
  <2>1. n + 1 \notin InputsRead'
    BY <1>4, <1>7
  <2>2. InputsRead' = InputsRead
    BY <1>2, <1>3, <1>5, <2>1
  <2> QED BY <1>7, <2>2
<1> QED BY <1>6, <1>7

LEMMA InputsKeep ==
    ASSUME IInv, InputsAppliedOnce, [Next]_vars
    PROVE  InputsAppliedOnce'
<1> USE DEF streamVars, bufferVars, effectVars
<1>8. PICK n \in Nat : n = Len(outcome)
  BY DEF IInv, TypeOK
<1>0. /\ n = Len(outcome) /\ inputs \in Seq(Nat) /\ Len(sent) \in Nat /\ Len(at) = Len(sent) + 1 /\ n <= Len(sent)
      /\ InputsRead \subseteq 1..n
  BY <1>8, HeadersReadCount DEF IInv, TypeOK, InputsRead
<1>1. CASE ClientSend
  <2>1. PICK m \in Message : /\ sent' = Append(sent, m)
                             /\ at' = Append(at, StreamLength + HeaderSize + m.size)
    BY <1>1 DEF ClientSend
  <2>2. \A k \in 1..n : sent'[k] = sent[k]
    BY <1>0, <2>1 DEF IInv, TypeOK
  <2>3. \A k \in 1..n : at'[k] = at[k]
    <3>1. at \in Seq(Nat) /\ \A k \in 1..n : k \in 1..Len(at)
      BY <1>0 DEF IInv, TypeOK
    <3> QED BY <2>1, <3>1
  <2>4. outcome' = outcome /\ inputs' = inputs
    BY <1>1 DEF ClientSend
  <2>5. InputsRead' = InputsRead
    BY <1>0, <2>2, <2>4 DEF InputsRead
  <2> QED BY <1>0, <2>3, <2>4, <2>5, InputsStay
<1>2. CASE ProcessMessage \/ DisconnectFromServer \/ ReadHeader \/ UNCHANGED vars
  <2>1. UNCHANGED <<sent, at, outcome, inputs>>
    BY <1>2 DEF ProcessMessage, DisconnectFromServer, ReadHeader, Shift, ProcessMessageHeader, vars
  <2>2. InputsRead' = InputsRead
    BY <2>1 DEF InputsRead
  <2> QED BY <2>1, <2>2, InputsStay
<1>3. CASE Refuse \/ Authenticate \/ SkipHeader
  <2>1. /\ looping /\ UNCHANGED <<sent, at, inputs>>
        /\ Conclude("refused") \/ Conclude("welcomed") \/ Conclude("skipped")
    BY <1>3 DEF Refuse, Authenticate, SkipHeader, Shift
  <2>2. InputsRead' = InputsRead
    BY <2>1, <1>0, ConcludeInputs
  <2> QED BY <2>1, <2>2, InputsStay
<1>4. CASE ReadHeaderOnly
  <2>1. /\ looping /\ readState # "body" /\ UNCHANGED <<sent, at, inputs>> /\ Conclude("handled")
    BY <1>4 DEF ReadHeaderOnly, Shift, ProcessMessageHeader
  <2>2. HeaderHere \subseteq {n + 1} /\ \E k \in HeaderHere : sent[k].size = 0
    BY <1>4, <1>0, <2>1, NextMessage DEF ReadHeaderOnly
  <2>3. ~(sent[n + 1].size > 0)
    BY <2>2
  <2>4. InputsRead' = InputsRead
    BY <2>1, <2>3, <1>0, ConcludeInputs
  <2> QED BY <2>1, <2>4, InputsStay
<1>5. CASE ReadBody
  <2>1. looping /\ readState = "body"
    BY <1>5 DEF ReadBody
  <2>2. /\ n + 1 \in 1..Len(sent) /\ base = at[n + 1] + HeaderSize /\ waitFor = sent[n + 1].size
        /\ tmpMessage = [code |-> sent[n + 1].code, size |-> sent[n + 1].size]
    BY <1>0, <2>1 DEF IInv, FrameAligned
  <2>3. /\ ProcessMessageBody(sent[n + 1].code) /\ Conclude("handled") /\ UNCHANGED <<sent, at>>
    BY <1>5, <2>2 DEF ReadBody, Shift
  <2>4. sent[n + 1].size > 0
    BY <2>2 DEF IInv, LoopInv
  <2>5. InputsRead' = IF sent[n + 1].code = INPUT THEN InputsRead \cup {n + 1} ELSE InputsRead
    BY <2>1, <2>3, <2>4, <1>0, ConcludeInputs
  <2>6. CASE sent[n + 1].code # INPUT
    <3>1. inputs' = inputs
      BY <2>3, <2>6 DEF ProcessMessageBody
    <3> QED BY <2>3, <2>5, <2>6, <3>1, InputsStay
  <2>7. CASE sent[n + 1].code = INPUT
    <3>1. inputs' = Append(inputs, base) /\ base \in Nat /\ Len(inputs) \in Nat
      BY <1>0, <2>3, <2>7 DEF ProcessMessageBody, IInv, TypeOK
    <3>2. /\ Len(inputs') = Len(inputs) + 1 /\ inputs'[Len(inputs) + 1] = base
          /\ \A i \in 1..Len(inputs) : inputs'[i] = inputs[i] /\ inputs[i] \in Nat
      BY <1>0, <3>1
    <3>3. ASSUME NEW k \in InputsRead
          PROVE  at[k] + HeaderSize < base
      <4>1. k \in 1..Len(at) /\ n + 1 \in 1..Len(at) /\ k < n + 1
        BY <1>0
      <4>2. at[k] < at[n + 1] /\ at[k] \in Nat /\ at[n + 1] \in Nat
        BY <4>1, SMTT(30) DEF IInv, Layout, TypeOK
      <4> QED BY <2>2, <4>2, HeaderSizeAssumption
    <3>4. \A i \in 1..Len(inputs) : inputs[i] < base
      BY <3>3 DEF InputsAppliedOnce
    <3>5. \A i, j \in 1..Len(inputs') : i < j => inputs'[i] < inputs'[j]
      <4> SUFFICES ASSUME NEW i \in 1..Len(inputs'), NEW j \in 1..Len(inputs'), i < j
                   PROVE  inputs'[i] < inputs'[j]
        OBVIOUS
      <4>1. i \in 1..Len(inputs) /\ (j \in 1..Len(inputs) \/ j = Len(inputs) + 1)
        BY <3>1, <3>2
      <4> QED BY <3>2, <3>4, <4>1 DEF InputsAppliedOnce
    <3>6. 1..Len(inputs') = (1..Len(inputs)) \cup {Len(inputs) + 1}
      BY <3>1, <3>2
    <3>7. {inputs'[i] : i \in 1..Len(inputs')} = {inputs[i] : i \in 1..Len(inputs)} \cup {base}
      BY <3>2, <3>6
    <3>8. {at'[k] + HeaderSize : k \in InputsRead'} = {at[k] + HeaderSize : k \in InputsRead} \cup {base}
      BY <2>2, <2>3, <2>5, <2>7
    <3> QED BY <3>5, <3>7, <3>8 DEF InputsAppliedOnce
  <2> QED BY <2>6, <2>7
<1> QED BY <1>1, <1>2, <1>3, <1>4, <1>5 DEF Next, Iterate

\* Every input the client sends is applied once, in order, from its own bytes.
THEOREM InputsApplied == Spec => []InputsAppliedOnce
<1>1. Init => InputsAppliedOnce
  <2> SUFFICES ASSUME Init PROVE InputsAppliedOnce
    OBVIOUS
  <2>1. InputsRead = {} /\ inputs = << >>
    BY DEF Init, InputsRead
  <2> QED BY <2>1 DEF InputsAppliedOnce
<1>2. IInv /\ InputsAppliedOnce /\ [Next]_vars => InputsAppliedOnce'
  BY InputsKeep
<1> QED BY <1>1, <1>2, Invariance, PTL DEF Spec

-----------------------------------------------------------------------------

\* Every step of the session is a step of SessionProtocol, or none of it.
LEMMA StepImplements ==
    ASSUME IInv, [Next]_vars
    PROVE  [Protocol!Next]_(Protocol!vars)
<1> DEFINE k == Len(outcome) + 1
<1> USE DEF Protocol!vars
<1>1. CASE ClientSend
  BY <1>1 DEF ClientSend, Protocol!Next, Protocol!Send
<1>2. CASE ProcessMessage
  BY <1>2 DEF ProcessMessage, streamVars
<1>3. CASE Refuse
  <2>1. looping /\ ~authenticated /\ readState # "body"
    BY <1>3 DEF Refuse, IInv, StateInv
  <2>2. k \in 1..Len(sent) /\ HeaderHere = IF sent[k].valid THEN {k} ELSE {}
    BY <2>1, NextMessage
  <2>3. ~Protocol!IsAuthentication(sent[k])
    BY <2>2, <1>3 DEF Refuse, Protocol!IsAuthentication
  <2>4. outcome' = Append(outcome, "refused") /\ authenticated' = authenticated /\ sent' = sent
    BY <1>3 DEF Refuse, Conclude, Shift, streamVars
  <2>5. Len(outcome) < Len(sent)
    BY <2>2 DEF IInv, TypeOK
  <2>6. authenticated = FALSE
    BY <2>1 DEF IInv, TypeOK
  <2> QED BY <2>3, <2>4, <2>5, <2>6 DEF Protocol!Next, Protocol!Judge, Protocol!Verdict
<1>4. CASE Authenticate
  <2>1. looping /\ ~authenticated /\ readState # "body"
    BY <1>4 DEF Authenticate, IInv, StateInv
  <2>2. k \in 1..Len(sent) /\ HeaderHere = IF sent[k].valid THEN {k} ELSE {}
    BY <2>1, NextMessage
  <2>3. Protocol!IsAuthentication(sent[k])
    BY <2>2, <1>4 DEF Authenticate, Protocol!IsAuthentication
  <2>4. outcome' = Append(outcome, "welcomed") /\ authenticated' = TRUE /\ sent' = sent
    BY <1>4 DEF Authenticate, Conclude, Shift, streamVars
  <2>5. Len(outcome) < Len(sent)
    BY <2>2 DEF IInv, TypeOK
  <2> QED BY <2>1, <2>3, <2>4, <2>5 DEF Protocol!Next, Protocol!Judge, Protocol!Verdict
<1>5. CASE SkipHeader
  <2>1. looping /\ authenticated /\ readState # "body" /\ HeaderHere = {}
    BY <1>5 DEF SkipHeader
  <2>2. k \in 1..Len(sent) /\ ~sent[k].valid
    BY <2>1, NextMessage
  <2>3. outcome' = Append(outcome, "skipped") /\ authenticated' = authenticated /\ sent' = sent
    BY <1>5 DEF SkipHeader, Conclude, Shift, streamVars
  <2>4. Len(outcome) < Len(sent)
    BY <2>2 DEF IInv, TypeOK
  <2> QED BY <2>1, <2>2, <2>3, <2>4
          DEF Protocol!Next, Protocol!Judge, Protocol!Verdict, Protocol!IsAuthentication
<1>6. CASE ReadHeaderOnly
  <2>1. looping /\ authenticated /\ readState # "body" /\ HeaderHere # {}
    BY <1>6 DEF ReadHeaderOnly
  <2>2. k \in 1..Len(sent) /\ sent[k].valid
    BY <2>1, NextMessage
  <2>3. outcome' = Append(outcome, "handled") /\ authenticated' = authenticated /\ sent' = sent
    BY <1>6 DEF ReadHeaderOnly, Conclude, Shift, streamVars
  <2>4. Len(outcome) < Len(sent)
    BY <2>2 DEF IInv, TypeOK
  <2> QED BY <2>1, <2>2, <2>3, <2>4 DEF Protocol!Next, Protocol!Judge, Protocol!Verdict
<1>7. CASE ReadHeader
  BY <1>7 DEF ReadHeader, Shift, streamVars
<1>8. CASE ReadBody
  <2>1. looping /\ authenticated /\ readState = "body" /\ waitFor = tmpMessage.size
    BY <1>8 DEF ReadBody, IInv, FrameAligned
  <2>2. k \in 1..Len(sent) /\ sent[k].valid
    BY <2>1, NextMessage DEF IInv, StateInv
  <2>3. outcome' = Append(outcome, "handled") /\ authenticated' = authenticated /\ sent' = sent
    BY <1>8, <2>1 DEF ReadBody, Conclude, Shift, streamVars
  <2>4. Len(outcome) < Len(sent)
    BY <2>2 DEF IInv, TypeOK
  <2> QED BY <2>1, <2>2, <2>3, <2>4 DEF Protocol!Next, Protocol!Judge, Protocol!Verdict
<1>9. CASE DisconnectFromServer
  BY <1>9 DEF DisconnectFromServer, streamVars
<1>10. CASE UNCHANGED vars
  BY <1>10 DEF vars
<1> QED BY <1>1, <1>2, <1>3, <1>4, <1>5, <1>6, <1>7, <1>8, <1>9, <1>10 DEF Next, Iterate

\* Out of bytes, segments and a buffer, the session implements the protocol
\* of whole messages: one verdict each, in order, none but refusals before
\* the authentication.
THEOREM Refinement == Spec => ImplementsProtocol
<1>1. Init => Protocol!Init
  BY DEF Init, Protocol!Init
<1>2. IInv /\ [Next]_vars => [Protocol!Next]_(Protocol!vars)
  BY StepImplements
<1> QED BY <1>1, <1>2, Invariance, PTL DEF Spec, Protocol!Spec, ImplementsProtocol
=============================================================================
