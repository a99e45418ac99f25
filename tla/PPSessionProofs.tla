---------------------------- MODULE PPSessionProofs ----------------------------
(***************************************************************************)
(* Theorems of PPSession, for every size of header, body, recv and pool    *)
(* that its assumptions allow and every set of answers.                    *)
(*                                                                         *)
(* The argument has two layers.  WireInv is about the requests, the        *)
(* messages and the bytes: it needs neither g_waitForSize nor g_msgTag.    *)
(* PlaceInv says where in the server's stream the client is.  Once the     *)
(* answer at s is accepted, the pairing is in one of six stages, and the   *)
(* stage says what the two threads may have left in what is waited for:    *)
(* the main thread can spoil a request of the network thread (HubLost),    *)
(* but never so that another chunk is taken for the hub items.             *)
(***************************************************************************)
EXTENDS PPSession, FiniteSetTheorems, SequenceTheorems, TLAPS

-----------------------------------------------------------------------------
(* The first layer: requests, messages, bytes.                             *)

\* Where the network thread has no chunk in hands.
NoChunkPc == {"connect", "announce", "failed", "recv", "send", "end", "ended"}

\* Where it is between two chunks, or behind the last.
BetweenPc == {"recv", "send", "end", "ended"}

\* Where it is between accepting the answer and asking for the hub items.
AskingPc == {"authenticated", "askHub", "setBusyHub", "queueHub"}

\* AddMessageToQueue lets everything through from the socket's connection to an
\* error of recv, and nobody asks before.
UpInv ==
    /\ connectState = "CONNECTED" <=> netPc \notin {"connect", "failed", "ended"}
    /\ sessionState \in {"CONNECTED", "PAIRED"} => netPc \notin {"connect", "failed"}
    /\ mainPc # "idle" => netPc \notin {"connect", "failed"}
    /\ kill => netPc \in {"send", "end", "ended"}
    /\ netPc \in {"end", "ended"} => kill

\* The buffer holds bytes that were delivered, and the chunk in hands.
BufferInv ==
    /\ base + received = delivered
    /\ delivered <= StreamLength
    /\ IF netPc \in NoChunkPc
         THEN chunk = NoChunk
         ELSE 0 < chunk.size /\ chunk.size <= received

HubAsked == \E i \in 1..Len(Requested) : Requested[i] = HUB_REQUEST

\* The client asks for the hub items once, behind the accepted answer, and the
\* server accepts an authentication it has read.
RequestInv ==
    /\ \A i, j \in 1..Len(Requested) :
         Requested[i] = HUB_REQUEST /\ Requested[j] = HUB_REQUEST => i = j
    /\ HubAsked => authenticated /\ netPc \notin AskingPc
    /\ netPc \in AskingPc => authenticated
    /\ authenticated => serverAuth
    /\ serverAuth => Len(serverLog) > 0 /\ serverLog[1] = AUTHENTICATION

\* Messages lie one behind the other: each takes a header and its content.
Layout ==
    /\ Len(at) = Len(stream) + 1
    /\ at[1] = 0
    /\ \A k \in 1..Len(stream) : at[k + 1] = at[k] + HeaderSize + stream[k].size
    /\ \A i, j \in 1..Len(at) : i < j => at[i] < at[j]

\* The server refuses until it accepts, and then has one more thing to say, once
\* it has read the request for it.
AnswerInv ==
    /\ Len(stream) <= Len(serverLog)
    /\ \A k \in 1..Len(stream) :
         \/ stream[k] = [code |-> AUTH_FAILED, size |-> 0]
         \/ stream[k] = [code |-> AUTH_SUCCESS, size |-> 0]
         \/ stream[k] = [code |-> HUB_ITEMS, size |-> HubSize]
    /\ \A k \in 1..Len(stream) :
         /\ stream[k].code = AUTH_SUCCESS =>
              /\ serverAuth
              /\ k = Len(stream) \/ (k + 1 = Len(stream) /\ stream[k + 1].code = HUB_ITEMS)
         /\ stream[k].code = HUB_ITEMS =>
              \E i \in 1..Len(serverLog) : serverLog[i] = HUB_REQUEST
    /\ serverAuth => \E k \in 1..Len(stream) : stream[k].code = AUTH_SUCCESS

WireInv == TypeOK /\ UpInv /\ BufferInv /\ RequestInv /\ Layout /\ AnswerInv

-----------------------------------------------------------------------------
(* The second layer: what is waited for, and where the client is.          *)

\* As long as the client has never said what it waits for, it has asked for one
\* answer at most: what comes too early is one header.
NotAskedInv ==
    waitFor = 0 =>
        /\ ~authenticated
        /\ netPc \in NoChunkPc
        /\ Len(Requested) <= 1
        /\ mainPc \in {"idle", "setBusy", "addMessage"} => Requested = << >>
        /\ mainPc # "setTag"

\* Before recv the buffer holds less than was waited for, or that one header.
RoomInv == netPc \in NoChunkPc => received <= HeaderSize \/ received < HubSize

\* Before an answer is accepted, chunks are headers and messages are headers.
RefusedInv ==
    ~authenticated =>
        /\ netPc \in NoChunkPc \cup {"loadTag", "process", "writeAuthen", "shift"}
        /\ \E j \in 1..Len(at) : base = at[j]
        /\ waitFor \in {0, HeaderSize}
        /\ chunk.size \in {0, HeaderSize}
        /\ tag \in {"none", "AUTHEN"}
        /\ chunk.tag \in {"none", "AUTHEN"}
        /\ tmpMessage = NoMessage

\* Message s is the answer that was accepted, and the hub items follow it at most.
Welcome(s) ==
    /\ s \in 1..Len(stream)
    /\ stream[s].code = AUTH_SUCCESS
    /\ Len(stream) \in {s, s + 1}

\* Nothing was decoded yet, and the dialog is still up.
NotPaired == hubItems = << >> /\ sessionState # "PAIRED"

Waits == waitFor \in {HeaderSize, HubSize}

\* The accepted answer is in hands.
Accepting(s) ==
    /\ NotPaired
    /\ netPc \in AskingPc
    /\ base = at[s]
    /\ waitFor = HeaderSize
    /\ chunk.size = HeaderSize
    /\ tag \in {"none", "AUTHEN"}
    /\ tmpMessage = NoMessage

\* The header of the hub items is waited for, by whoever wrote the tag last; or
\* they have not been asked for, and nothing comes any more.
HeaderDue(s) ==
    /\ NotPaired
    /\ waitFor = HeaderSize
    /\ chunk.size \in {0, HeaderSize}
    /\ tag # "BODY"
    /\ \/ netPc \in {"writeHeader", "shift"} /\ base = at[s] /\ chunk.size = HeaderSize
       \/ netPc \in BetweenPc \cup {"loadTag", "process"} /\ base = at[s + 1]
    /\ netPc = "process" => chunk.tag \in {tag, "none", "AUTHEN", "HEADER"}
    /\ netPc = "process" /\ chunk.tag # "HEADER" => tag # "HEADER"

\* The header of the hub items is in hands, and was read.
HeaderRead(s) ==
    /\ NotPaired
    /\ netPc \in {"writeBody", "shift"}
    /\ Len(stream) = s + 1
    /\ base = at[s + 1]
    /\ Waits
    /\ chunk.size = HeaderSize
    /\ tmpMessage = stream[s + 1]
    /\ netPc = "shift" => tag \in {"BODY", "AUTHEN"}

\* The body is waited for, with the size of either thread's request.
BodyDue(s) ==
    /\ NotPaired
    /\ netPc \in BetweenPc \cup {"loadTag", "process"}
    /\ Len(stream) = s + 1
    /\ base = at[s + 1] + HeaderSize
    /\ Waits
    /\ tmpMessage = stream[s + 1]
    /\ tag \in {"BODY", "AUTHEN"}
    /\ netPc = "process" => chunk.tag \in {tag, "BODY"}

\* The other thread's request came between: chunks are dropped one by one.
HubLost ==
    /\ NotPaired
    /\ netPc \in BetweenPc \cup {"shift", "loadTag", "process"}
    /\ Waits
    /\ tag # "HEADER"
    /\ netPc = "process" => chunk.tag # "HEADER"
    /\ tag = "BODY" \/ (netPc = "process" /\ chunk.tag = "BODY") => tmpMessage = NoMessage

\* The hub items were decoded, from the whole body.
Decoded(s) ==
    /\ Len(stream) = s + 1
    /\ hubItems = <<[from |-> at[s + 1] + HeaderSize, size |-> HubSize]>>
    /\ Waits
    /\ \/ /\ netPc \in {"clearHub", "pair", "nextHeader", "writeHeader", "shift"}
          /\ base = at[s + 1] + HeaderSize
          /\ chunk.size = HubSize
       \/ netPc \in BetweenPc /\ base = StreamLength

Stage(s) ==
    \/ Accepting(s)
    \/ HeaderDue(s)
    \/ HeaderRead(s)
    \/ BodyDue(s)
    \/ HubLost
    \/ Decoded(s)

AcceptedInv == IF authenticated THEN \E s \in 1..Len(stream) : Welcome(s) /\ Stage(s)
                                ELSE NotPaired

PlaceInv == NotAskedInv /\ RoomInv /\ RefusedInv /\ AcceptedInv

IInv == WireInv /\ PlaceInv

-----------------------------------------------------------------------------
(* Facts about the operators.                                              *)

USE SizesAssumption DEF linkVars, SendQueue, BetweenPc

\* Where the network thread writes the tag of each request.
LEMMA Writes ==
    /\ DOMAIN WriteOf = {"AUTHEN", "HEADER", "BODY"}
    /\ WriteOf["AUTHEN"] = "writeAuthen"
    /\ WriteOf["HEADER"] = "writeHeader"
    /\ WriteOf["BODY"] = "writeBody"
  BY DEF WriteOf

\* A size and a tag make a chunk.
LEMMA CutChunkResult ==
    ASSUME NEW n \in Nat, waitFor \in Nat, CutChunk(n)
    PROVE  \/ /\ n >= waitFor /\ waitFor # 0
              /\ netPc' = "loadTag"
              /\ chunk' = [size |-> waitFor, tag |-> "none"]
           \/ /\ n < waitFor \/ waitFor = 0
              /\ netPc' = "send"
              /\ chunk' = NoChunk
<1>1. CASE ChunkReady(n, waitFor)
  BY <1>1 DEF CutChunk, ChunkReady, NoChunk
<1>2. CASE ~ChunkReady(n, waitFor)
  BY <1>2 DEF CutChunk, ChunkReady, NoChunk
<1> QED BY <1>1, <1>2

LEMMA RequestedType ==
    ASSUME TypeOK
    PROVE  /\ Requested \in Seq(Requests)
           /\ Len(Requested) = Len(serverLog) + Len(toServer) + Len(queue)
           /\ \A i \in 1..Len(serverLog) : Requested[i] = serverLog[i]
<1>1. /\ serverLog \in Seq(Requests) /\ toServer \in Seq(Requests) /\ queue \in Seq(Requests)
      /\ Len(serverLog) \in Nat /\ Len(toServer) \in Nat /\ Len(queue) \in Nat
  BY DEF TypeOK
<1> DEFINE both == serverLog \o toServer
<1>2. /\ both \in Seq(Requests) /\ Len(both) = Len(serverLog) + Len(toServer)
      /\ \A i \in 1..Len(serverLog) + Len(toServer) : both[i] =
           IF i <= Len(serverLog) THEN serverLog[i] ELSE toServer[i - Len(serverLog)]
  BY <1>1, ConcatProperties
<1>3. /\ both \o queue \in Seq(Requests) /\ Len(both \o queue) = Len(both) + Len(queue)
      /\ \A i \in 1..Len(both) + Len(queue) : (both \o queue)[i] =
           IF i <= Len(both) THEN both[i] ELSE queue[i - Len(both)]
  <2> HIDE DEF both
  <2> QED BY <1>1, <1>2, ConcatProperties
<1>4. Requested = both \o queue
  BY DEF Requested
<1> HIDE DEF both
<1>5. \A i \in 1..Len(serverLog) : i \in 1..Len(both) + Len(queue) /\ i <= Len(both)
  BY <1>1, <1>2
<1> QED BY <1>1, <1>2, <1>3, <1>4, <1>5

\* What the server reads next is the request behind those it has read.
LEMMA HeadIsRequested ==
    ASSUME TypeOK, toServer # << >>
    PROVE  /\ Len(serverLog) + 1 \in 1..Len(Requested)
           /\ Requested[Len(serverLog) + 1] = Head(toServer)
<1>1. /\ serverLog \in Seq(Requests) /\ toServer \in Seq(Requests) /\ queue \in Seq(Requests)
      /\ Len(serverLog) \in Nat /\ Len(toServer) \in Nat \ {0} /\ Len(queue) \in Nat
  BY EmptySeq DEF TypeOK
<1> DEFINE both == serverLog \o toServer
           i == Len(serverLog) + 1
<1>2. /\ both \in Seq(Requests) /\ Len(both) = Len(serverLog) + Len(toServer) /\ both[i] = toServer[1]
      /\ i \in 1..Len(both)
  BY <1>1, ConcatProperties
<1>3. (both \o queue)[i] = both[i] /\ Len(both \o queue) = Len(both) + Len(queue)
  <2> HIDE DEF both, i
  <2>1. /\ Len(both \o queue) = Len(both) + Len(queue)
        /\ \A j \in 1..Len(both) + Len(queue) : (both \o queue)[j] =
             IF j <= Len(both) THEN both[j] ELSE queue[j - Len(both)]
    BY <1>1, <1>2, ConcatProperties
  <2>2. i \in 1..Len(both) + Len(queue) /\ i <= Len(both)
    BY <1>1, <1>2
  <2> QED BY <2>1, <2>2
<1>4. Requested = both \o queue
  BY DEF Requested
<1>5. Head(toServer) = toServer[1]
  BY <1>1
<1> HIDE DEF both
<1> QED BY <1>1, <1>2, <1>3, <1>4, <1>5

\* Reading a message changes nothing in what was requested.
LEMMA ServerReadsKeeps ==
    ASSUME TypeOK, ServerReads, queue' = queue
    PROVE  /\ Requested' = Requested
           /\ serverLog' \in Seq(Requests) /\ toServer' \in Seq(Requests)
           /\ Len(serverLog') = Len(serverLog) + 1
           /\ \A i \in 1..Len(serverLog) : serverLog'[i] = serverLog[i]
           /\ serverLog'[Len(serverLog) + 1] = Head(toServer)
<1> DEFINE h == Head(toServer)
           t == Tail(toServer)
<1>1. /\ serverLog \in Seq(Requests) /\ toServer \in Seq(Requests) /\ toServer # << >>
      /\ serverLog' = Append(serverLog, h) /\ toServer' = t /\ queue \in Seq(Requests)
  BY DEF TypeOK, ServerReads
<1>2. h \in Requests /\ t \in Seq(Requests) /\ toServer = <<h>> \o t
  BY <1>1, HeadTailProperties, SMTT(30)
<1>3. Append(serverLog, h) = serverLog \o <<h>> /\ <<h>> \in Seq(Requests)
  BY <1>1, <1>2, AppendIsConcat
<1>4. (serverLog \o <<h>>) \o t = serverLog \o (<<h>> \o t)
  <2> HIDE DEF h, t
  <2>1. <<h>> \in Seq(Requests)
    BY <1>3
  <2> QED BY <1>1, <1>2, <2>1, ConcatAssociative
<1>5. serverLog' \o toServer' = serverLog \o toServer
  BY <1>1, <1>2, <1>3, <1>4
<1>6. Requested' = Requested
  BY <1>5 DEF Requested
<1> QED BY <1>1, <1>2, <1>6, AppendProperties

\* Neither does sending the queue.
LEMMA SendKeepsRequested ==
    ASSUME TypeOK, SendQueue
    PROVE  /\ Requested' = Requested
           /\ toServer' \in Seq(Requests) /\ queue' \in Seq(Requests)
<1>1. /\ serverLog \in Seq(Requests) /\ toServer \in Seq(Requests) /\ queue \in Seq(Requests)
      /\ toServer' = toServer \o queue /\ queue' = << >> /\ serverLog' = serverLog
  BY DEF TypeOK
<1>2. toServer \o queue \in Seq(Requests) /\ << >> \in Seq(Requests)
  BY <1>1, ConcatProperties, EmptySeq
<1>3. serverLog \o (toServer \o queue) = (serverLog \o toServer) \o queue
  BY <1>1, ConcatAssociative, SMTT(30)
<1>4. serverLog \o (toServer \o queue) \in Seq(Requests)
  BY <1>1, <1>2, ConcatProperties
<1>5. (serverLog \o (toServer \o queue)) \o << >> = serverLog \o (toServer \o queue)
  BY <1>4, ConcatEmptySeq
<1> QED BY <1>1, <1>2, <1>3, <1>5 DEF Requested

\* On a connection that is up, a request is put behind the others.
LEMMA AddKeepsRequested ==
    ASSUME TypeOK, NEW code \in Requests, connectState = "CONNECTED", ~kill,
           AddMessageToQueue(code), UNCHANGED <<toServer, serverLog>>
    PROVE  /\ queue' \in Seq(Requests)
           /\ Requested' \in Seq(Requests)
           /\ Len(Requested') = Len(Requested) + 1
           /\ \A i \in 1..Len(Requested) : Requested'[i] = Requested[i]
           /\ Requested'[Len(Requested) + 1] = code
           /\ Requested' = Append(Requested, code)
<1> DEFINE both == serverLog \o toServer
<1>1. both \in Seq(Requests) /\ queue \in Seq(Requests) /\ queue' = Append(queue, code)
  BY ConcatProperties DEF TypeOK, AddMessageToQueue
<1> HIDE DEF both
<1>2. <<code>> \in Seq(Requests) /\ Append(queue, code) = queue \o <<code>>
  BY <1>1, AppendIsConcat
<1>3. both \o (queue \o <<code>>) = (both \o queue) \o <<code>> /\ both \o queue \in Seq(Requests)
  BY <1>1, <1>2, ConcatAssociative, ConcatProperties
<1>4. (both \o queue) \o <<code>> = Append(both \o queue, code)
  BY <1>3, AppendIsConcat
<1>5. Requested = both \o queue /\ Requested' = both \o queue'
  BY DEF Requested, both
<1>6. Requested' = Append(Requested, code) /\ Requested \in Seq(Requests)
  BY <1>1, <1>2, <1>3, <1>4, <1>5
<1>7. Append(queue, code) \in Seq(Requests)
  BY <1>1, AppendProperties
<1> QED BY <1>1, <1>6, <1>7, AppendProperties

\* The dialog asks on a connection that is up: what it asks for is put behind
\* the other requests, or dropped because recv has met an error.
LEMMA DialogAsks ==
    ASSUME TypeOK, UpInv, SendMsgAuthentication
    PROVE  /\ queue' \in Seq(Requests)
           /\ \/ kill /\ Requested' = Requested
              \/ /\ ~kill
                 /\ Requested' = Append(Requested, AUTHENTICATION)
                 /\ Len(Requested') = Len(Requested) + 1
                 /\ \A i \in 1..Len(Requested) : Requested'[i] = Requested[i]
                 /\ Requested'[Len(Requested) + 1] = AUTHENTICATION
<1>1. /\ mainPc = "addMessage" /\ AddMessageToQueue(AUTHENTICATION) /\ AUTHENTICATION \in Requests
      /\ UNCHANGED <<toServer, serverLog>>
  BY DEF SendMsgAuthentication, MainStep, mainRest, serverVars, Requests
<1>2. CASE kill
  <2>1. queue' = queue
    BY <1>1, <1>2 DEF AddMessageToQueue
  <2> QED BY <1>1, <1>2, <2>1 DEF Requested, TypeOK
<1>3. CASE ~kill
  <2>1. connectState = "CONNECTED"
    BY <1>1, <1>3 DEF UpInv
  <2> QED BY <1>1, <1>3, <2>1, AddKeepsRequested
<1> QED BY <1>2, <1>3

-----------------------------------------------------------------------------
(* The first layer is kept.                                                *)

\* Every step by name.
LEMMA StepCases ==
    ASSUME [Next]_vars
    PROVE  \/ ServerAuthenticates \/ ServerSendsHubItems \/ ServerIgnores
           \/ Authentication \/ SetBusyAuthentication \/ SendMsgAuthentication
           \/ RequestSize \/ RequestTag
           \/ ConnectToServer \/ AnnounceConnected \/ ConnectFails
           \/ RecvSocketData \/ RecvWouldBlock \/ RecvError \/ SendMessageData \/ ThreadEnds
           \/ LoadTag \/ AcceptAuthentication \/ ClearBusy \/ SendMsgRequestHubItems
           \/ SetBusyHubItems \/ QueueHubRequest \/ RejectChunk \/ ReadHeader
           \/ ReadBody \/ ClearBusyHub \/ Pair \/ RequestNextHeader \/ DropBody
           \/ IgnoreChunk \/ WriteTag \/ Shift \/ UNCHANGED vars
  BY DEF Next, Server, Main, MainContinues, NetContinues, Process

\* The step after next of an answer that the server appends to its stream.
LEMMA AnswerAppends ==
    ASSUME TypeOK, Layout, NEW code \in Nat, NEW size \in Nat, Answer(code, size)
    PROVE  /\ stream' \in Seq([code : Nat, size : Nat]) /\ at' \in Seq(Nat)
           /\ Len(stream') = Len(stream) + 1 /\ Len(at') = Len(at) + 1
           /\ \A k \in 1..Len(stream) : stream'[k] = stream[k]
           /\ \A k \in 1..Len(at) : at'[k] = at[k]
           /\ stream'[Len(stream) + 1] = [code |-> code, size |-> size]
           /\ at'[Len(at) + 1] = StreamLength + HeaderSize + size
           /\ StreamLength' = StreamLength + HeaderSize + size
           /\ StreamLength \in Nat
<1>1. /\ stream \in Seq([code : Nat, size : Nat]) /\ at \in Seq(Nat)
      /\ Len(stream) \in Nat /\ Len(at) = Len(stream) + 1
  BY DEF TypeOK, Layout
<1>2. StreamLength \in Nat
  BY <1>1 DEF StreamLength
<1>3. StreamLength + HeaderSize + size \in Nat /\ [code |-> code, size |-> size] \in [code : Nat, size : Nat]
  BY <1>2
<1>4. /\ stream' = Append(stream, [code |-> code, size |-> size])
      /\ at' = Append(at, StreamLength + HeaderSize + size)
  BY DEF Answer
<1>5. /\ stream' \in Seq([code : Nat, size : Nat]) /\ Len(stream') = Len(stream) + 1
      /\ \A k \in 1..Len(stream) : stream'[k] = stream[k]
      /\ stream'[Len(stream) + 1] = [code |-> code, size |-> size]
  BY <1>1, <1>3, <1>4, AppendProperties
<1>6. /\ at' \in Seq(Nat) /\ Len(at') = Len(at) + 1
      /\ \A k \in 1..Len(at) : at'[k] = at[k]
      /\ at'[Len(at) + 1] = StreamLength + HeaderSize + size
  BY <1>1, <1>3, <1>4, AppendProperties
<1> QED BY <1>2, <1>5, <1>6 DEF StreamLength

\* The server writes nothing that breaks the layout.
LEMMA LayoutAppended ==
    ASSUME TypeOK, Layout, NEW code \in Nat, NEW size \in Nat, Answer(code, size)
    PROVE  Layout'
<1>1. /\ Len(stream) \in Nat /\ Len(at) = Len(stream) + 1 /\ at \in Seq(Nat)
      /\ StreamLength = at[Len(at)]
  BY DEF TypeOK, Layout, StreamLength
<1>0. /\ Len(stream') = Len(stream) + 1 /\ Len(at') = Len(at) + 1
      /\ \A k \in 1..Len(stream) : stream'[k] = stream[k]
      /\ \A k \in 1..Len(at) : at'[k] = at[k]
      /\ stream'[Len(stream) + 1] = [code |-> code, size |-> size]
      /\ at'[Len(at) + 1] = StreamLength + HeaderSize + size
      /\ StreamLength \in Nat
  BY AnswerAppends
<1>2. at'[1] = 0 /\ Len(at') = Len(stream') + 1
  BY <1>0, <1>1 DEF Layout
<1>3. ASSUME NEW k \in 1..Len(stream')
      PROVE  at'[k + 1] = at'[k] + HeaderSize + stream'[k].size
  <2>1. CASE k \in 1..Len(stream)
    <3>1. k + 1 \in 1..Len(at) /\ k \in 1..Len(at)
      BY <1>1, <2>1, SMTT(30)
    <3>2. at'[k + 1] = at[k + 1] /\ at'[k] = at[k] /\ stream'[k] = stream[k]
      BY <1>0, <2>1, <3>1
    <3> QED BY <2>1, <3>2 DEF Layout
  <2>2. CASE k = Len(stream) + 1
    <3>1. k = Len(at) /\ Len(at) \in 1..Len(at)
      BY <1>1, <2>2
    <3>2. at'[k + 1] = StreamLength + HeaderSize + size /\ at'[k] = StreamLength
      BY <1>0, <1>1, <3>1
    <3>3. stream'[k].size = size
      BY <1>0, <2>2
    <3> QED BY <3>2, <3>3
  <2> QED BY <1>0, <1>1, <2>1, <2>2
<1>4. ASSUME NEW i \in 1..Len(at'), NEW j \in 1..Len(at'), i < j
      PROVE  at'[i] < at'[j]
  <2>1. i \in 1..Len(at)
    BY <1>0, <1>1, <1>4
  <2>2. at'[i] = at[i] /\ at[i] \in Nat
    BY <1>0, <1>1, <2>1, SMTT(30)
  <2>3. CASE j \in 1..Len(at)
    BY <1>0, <1>4, <2>1, <2>2, <2>3 DEF Layout
  <2>4. CASE j = Len(at) + 1
    <3>1. i = Len(at) \/ at[i] < at[Len(at)]
      BY <1>1, <2>1 DEF Layout
    <3>2. at[i] <= StreamLength /\ StreamLength < at'[j]
      BY <1>0, <1>1, <2>2, <2>4, <3>1, SMTT(30)
    <3> QED BY <1>0, <2>2, <2>4, <3>2
  <2> QED BY <1>0, <1>1, <2>3, <2>4
<1> QED BY <1>2, <1>3, <1>4 DEF Layout

\* No byte is written before the first: messages reach to the end of the stream.
LEMMA Reaches ==
    ASSUME TypeOK, Layout
    PROVE  /\ Len(stream) \in Nat /\ Len(at) = Len(stream) + 1
           /\ StreamLength = at[Len(stream) + 1]
           /\ \A k \in 1..Len(stream) + 1 : at[k] \in Nat /\ at[k] <= StreamLength
<1>1. Len(stream) \in Nat /\ Len(at) = Len(stream) + 1 /\ StreamLength = at[Len(stream) + 1]
  BY DEF TypeOK, Layout, StreamLength
<1>2. \A k \in 1..Len(stream) + 1 : at[k] \in Nat
  BY <1>1 DEF TypeOK
<1>3. \A k \in 1..Len(stream) + 1 : k = Len(stream) + 1 \/ at[k] < at[Len(stream) + 1]
  BY <1>1 DEF Layout
<1> QED BY <1>1, <1>2, <1>3

\* The messages the client finds at base are of the type of messages.
LEMMA HeaderHereType ==
    ASSUME TypeOK, NEW k \in HeaderHere
    PROVE  k \in 1..Len(stream) /\ stream[k] \in [code : Nat, size : Nat] /\ at[k] = base
<1>1. k \in 1..Len(stream) /\ at[k] = base
  BY DEF HeaderHere
<1>2. stream \in Seq([code : Nat, size : Nat])
  BY DEF TypeOK
<1> QED BY <1>1, <1>2, ElementOfSeq

LEMMA TypeKeeps == TypeOK /\ Layout /\ BufferInv /\ [Next]_vars => TypeOK'
<1> SUFFICES ASSUME TypeOK, Layout, BufferInv, [Next]_vars PROVE TypeOK'
  OBVIOUS
<1>1. CASE ServerAuthenticates \/ ServerSendsHubItems \/ ServerIgnores
  <2>1. /\ serverLog' \in Seq(Requests) /\ toServer' \in Seq(Requests)
    BY <1>1, ServerReadsKeeps DEF ServerAuthenticates, ServerSendsHubItems, ServerIgnores, sessionVars
  <2>2. /\ stream' \in Seq([code : Nat, size : Nat]) /\ at' \in Seq(Nat) /\ serverAuth' \in BOOLEAN
    <3>1. CASE ServerAuthenticates
      <4>1. PICK answer \in AuthAnswers : Answer(answer, 0) /\ serverAuth' = (answer = AUTH_SUCCESS)
        BY <3>1 DEF ServerAuthenticates
      <4>2. answer \in Nat
        BY AnswersAssumption DEF AUTH_SUCCESS, AUTH_FAILED
      <4> QED BY <4>1, <4>2, AnswerAppends
    <3>2. CASE ServerSendsHubItems
      <4>1. Answer(HUB_ITEMS, HubSize) /\ serverAuth' = serverAuth /\ HUB_ITEMS \in Nat /\ HubSize \in Nat
        BY <3>2 DEF ServerSendsHubItems, HUB_ITEMS
      <4> QED BY <4>1, AnswerAppends DEF TypeOK
    <3>3. CASE ServerIgnores
      BY <3>3 DEF ServerIgnores, TypeOK
    <3> QED BY <1>1, <3>1, <3>2, <3>3
  <2>3. UNCHANGED <<sessionState, busyState, mainPc, netPc, connectState, kill, authenticated,
                    tmpMessage, hubItems, queue, asked, base, received, waitFor, tag, chunk, delivered>>
    BY <1>1 DEF ServerAuthenticates, ServerSendsHubItems, ServerIgnores, managerVars, sessionVars,
       bufferVars, waitVars
  <2> QED
    BY <2>1, <2>2, <2>3 DEF TypeOK
<1>2. CASE Authentication \/ SetBusyAuthentication \/ RequestSize \/ RequestTag
  <2>1. CASE Authentication
    BY <2>1 DEF TypeOK, Authentication, MainStep, mainRest,
      bufferVars, serverVars, waitVars, Tags
  <2>2. CASE SetBusyAuthentication
    BY <2>2 DEF TypeOK, SetBusyAuthentication, MainStep, mainRest,
      bufferVars, serverVars, waitVars, Tags
  <2>3. CASE RequestSize
    BY <2>3 DEF TypeOK, RequestSize, MainStep, mainRest,
      bufferVars, serverVars, waitVars, Tags
  <2>4. CASE RequestTag
    BY <2>4 DEF TypeOK, RequestTag, MainStep, mainRest,
      bufferVars, serverVars, waitVars, Tags
  <2> QED BY <1>2, <2>1, <2>2, <2>3, <2>4
<1>3. CASE SendMsgAuthentication
  <2>1. queue' \in Seq(Requests)
    BY <1>3 DEF TypeOK, SendMsgAuthentication, AddMessageToQueue, Requests
  <2> QED
    BY <1>3, <2>1 DEF TypeOK, SendMsgAuthentication, MainStep, mainRest, bufferVars, serverVars, waitVars
<1>4. CASE ConnectToServer \/ AnnounceConnected \/ ConnectFails \/ RecvWouldBlock \/ RecvError
  <2>1. UNCHANGED <<busyState, mainPc, authenticated, tmpMessage, hubItems, queue, asked, base, received,
                    waitFor, tag, chunk, toServer, serverLog, serverAuth, stream, at, delivered>>
    BY <1>4 DEF ConnectToServer, AnnounceConnected, ConnectFails, RecvWouldBlock, RecvError,
       managerVars,
       sessionVars, bufferVars, waitVars, serverVars
  <2>2. /\ netPc' \in NetPc
        /\ connectState' \in {connectState, "CONNECTED", "FAIL"}
        /\ sessionState' \in {sessionState, "CONNECTED", "FAILED"}
    BY <1>4 DEF ConnectToServer, AnnounceConnected, ConnectFails, RecvWouldBlock, RecvError,
       NetStep, managerVars,
       sessionVars, NetPc
  <2>3. kill' \in BOOLEAN
    <3>1. CASE RecvError
      BY <3>1 DEF RecvError
    <3>2. CASE ~RecvError
      BY <1>4, <3>2 DEF ConnectToServer, AnnounceConnected, ConnectFails, RecvWouldBlock, sessionVars,
         TypeOK
    <3> QED BY <3>1, <3>2
  <2> QED
    BY <2>1, <2>2, <2>3 DEF TypeOK
<1>5. CASE RecvSocketData
  <2>1. PICK n \in 1..BufferSize :
          delivered' = delivered + n /\ received' = received + n /\ CutChunk(received + n)
    BY <1>5 DEF RecvSocketData
  <2>2. delivered' \in Nat /\ received' \in Nat /\ received + n \in Nat /\ waitFor \in Nat
    BY <2>1 DEF TypeOK
  <2>3. netPc' \in NetPc /\ chunk' \in [size : Nat, tag : Tags]
    BY <2>1, <2>2, CutChunkResult DEF NetPc, Tags, NoChunk
  <2> QED
    BY <1>5, <2>2, <2>3 DEF TypeOK, RecvSocketData, managerVars, sessionVars, waitVars, serverVars
<1>6. CASE SendMessageData \/ ThreadEnds
  <2>1. toServer' \in Seq(Requests) /\ queue' \in Seq(Requests)
    BY <1>6, SendKeepsRequested DEF SendMessageData, ThreadEnds
  <2>2. UNCHANGED <<sessionState, busyState, mainPc, kill, authenticated, tmpMessage, hubItems, asked,
                    base, received, waitFor, tag, chunk, serverLog, serverAuth, stream, at, delivered>>
    BY <1>6 DEF SendMessageData, ThreadEnds, managerVars, bufferVars, waitVars
  <2>3. netPc' \in NetPc /\ connectState' \in {connectState, "IDLE"}
    BY <1>6 DEF SendMessageData, ThreadEnds, NetStep, NetPc
  <2> QED
    BY <2>1, <2>2, <2>3 DEF TypeOK
<1>7. CASE LoadTag
  <2>1. chunk' \in [size : Nat, tag : Tags]
    BY <1>7 DEF TypeOK, LoadTag
  <2> QED
    BY <1>7, <2>1 DEF TypeOK, LoadTag, NetStep, managerVars, sessionVars, bufferVars, waitVars,
       serverVars, NetPc
<1>8. CASE AcceptAuthentication \/ ClearBusy \/ SendMsgRequestHubItems
  <2>1. CASE AcceptAuthentication
    BY <2>1 DEF TypeOK, AcceptAuthentication, NetStep, managerVars,
      sessionVars, bufferVars, waitVars, serverVars, NetPc
  <2>2. CASE ClearBusy
    BY <2>2 DEF TypeOK, ClearBusy, NetStep, managerVars,
      sessionVars, bufferVars, waitVars, serverVars, NetPc
  <2>3. CASE SendMsgRequestHubItems
    BY <2>3 DEF TypeOK, SendMsgRequestHubItems, NetStep, managerVars,
      sessionVars, bufferVars, waitVars, serverVars, NetPc
  <2> QED BY <1>8, <2>1, <2>2, <2>3
<1>9. CASE SetBusyHubItems \/ ClearBusyHub \/ Pair \/ IgnoreChunk
  <2>1. CASE SetBusyHubItems
    BY <2>1 DEF TypeOK, SetBusyHubItems, NetStep, managerVars,
      sessionVars, bufferVars, waitVars, serverVars, NetPc
  <2>2. CASE ClearBusyHub
    BY <2>2 DEF TypeOK, ClearBusyHub, NetStep, managerVars,
      sessionVars, bufferVars, waitVars, serverVars, NetPc
  <2>3. CASE Pair
    BY <2>3 DEF TypeOK, Pair, NetStep, managerVars,
      sessionVars, bufferVars, waitVars, serverVars, NetPc
  <2>4. CASE IgnoreChunk
    BY <2>4 DEF TypeOK, IgnoreChunk, NetStep, managerVars,
      sessionVars, bufferVars, waitVars, serverVars, NetPc
  <2> QED BY <1>9, <2>1, <2>2, <2>3, <2>4
<1>10. CASE QueueHubRequest
  <2>1. queue' \in Seq(Requests)
    BY <1>10 DEF TypeOK, QueueHubRequest, AddMessageToQueue, Requests
  <2> QED
    BY <1>10, <2>1, Writes DEF TypeOK, QueueHubRequest, RequestForData,
       managerVars, bufferVars, serverVars, NetPc
<1>11. CASE RejectChunk \/ RequestNextHeader
  <2>1. UNCHANGED <<sessionState, busyState, mainPc, connectState, kill, authenticated, hubItems, queue,
                    asked, base, received, tag, chunk, toServer, serverLog, serverAuth, stream, at, delivered>>
    BY <1>11 DEF RejectChunk, RequestNextHeader, RequestForData, managerVars, sessionVars, bufferVars,
       serverVars
  <2>2. netPc' \in NetPc /\ waitFor' = HeaderSize /\ tmpMessage' \in {tmpMessage, NoMessage}
    BY <1>11, Writes DEF RejectChunk, RequestNextHeader, RequestForData, sessionVars, NetPc
  <2> QED
    BY <2>1, <2>2 DEF TypeOK, NoMessage
<1>12. CASE ReadHeader
  <2>1. tmpMessage' \in [code : Nat, size : Nat] /\ waitFor' \in Nat /\ netPc' \in NetPc /\ tag' = tag
    <3>1. CASE HeaderHere = {}
      BY <1>12, <3>1, Writes DEF ReadHeader, RequestForData, NoMessage, NetPc
    <3>2. CASE HeaderHere # {}
      <4>1. PICK k \in HeaderHere : tmpMessage' = stream[k] /\ RequestForData(stream[k].size, "BODY")
        BY <1>12, <3>2 DEF ReadHeader
      <4> QED BY <4>1, HeaderHereType, Writes DEF RequestForData, NetPc
    <3> QED BY <3>1, <3>2
  <2> QED
    BY <1>12, <2>1 DEF TypeOK, ReadHeader, managerVars, bufferVars, serverVars
<1>13. CASE ReadBody
  <2>1. hubItems' \in Seq([from : Nat, size : Nat])
    <3>1. [from |-> base, size |-> chunk.size] \in [from : Nat, size : Nat]
      BY DEF TypeOK
    <3>2. hubItems \in Seq([from : Nat, size : Nat])
      BY DEF TypeOK
    <3>3. Append(hubItems, [from |-> base, size |-> chunk.size]) \in Seq([from : Nat, size : Nat])
      BY <3>1, <3>2, AppendProperties
    <3> QED BY <1>13, <3>2, <3>3 DEF ReadBody
  <2> QED
    BY <1>13, <2>1 DEF TypeOK, ReadBody, managerVars, bufferVars, waitVars, serverVars, NetPc
<1>14. CASE DropBody
  BY <1>14 DEF TypeOK, DropBody, NetStep, NoMessage, managerVars, bufferVars, waitVars,
     serverVars, NetPc
<1>15. CASE WriteTag
  <2>1. PICK t \in DOMAIN WriteOf : NetStep(WriteOf[t], "shift") /\ tag' = t
    BY <1>15 DEF WriteTag
  <2>2. netPc' \in NetPc /\ tag' \in Tags
    BY <2>1, Writes DEF NetStep, NetPc, Tags
  <2> QED
    BY <1>15, <2>2 DEF TypeOK, WriteTag, managerVars, sessionVars, bufferVars, serverVars
<1>16. CASE Shift
  <2>1. received - chunk.size \in Nat /\ base + chunk.size \in Nat /\ waitFor \in Nat
    <3>1. received \in Nat /\ chunk.size \in Nat /\ base \in Nat /\ waitFor \in Nat
      BY DEF TypeOK
    <3>2. chunk.size <= received
      BY <1>16 DEF Shift, BufferInv, NoChunkPc
    <3> QED BY <3>1, <3>2
  <2>2. netPc' \in NetPc /\ chunk' \in [size : Nat, tag : Tags]
    BY <1>16, <2>1, CutChunkResult DEF Shift, NetPc, Tags, NoChunk
  <2> QED
    BY <1>16, <2>1, <2>2 DEF TypeOK, Shift, managerVars, sessionVars, waitVars, serverVars
<1>17. CASE UNCHANGED vars
  BY <1>17 DEF TypeOK, vars
<1> QED
  BY <1>1, <1>2, <1>3, <1>4, <1>5, <1>6, <1>7, <1>8, <1>9, <1>10, <1>11, <1>12, <1>13, <1>14,
     <1>15, <1>16, <1>17, StepCases

\* Only connecting changes what the session is up to.
LEMMA UpKeeps == TypeOK /\ UpInv /\ BufferInv /\ [Next]_vars => UpInv'
<1> SUFFICES ASSUME TypeOK, UpInv, BufferInv, [Next]_vars PROVE UpInv'
  OBVIOUS
<1> USE DEF UpInv, managerVars, sessionVars, NetStep, MainStep, mainRest
<1>1. CASE ServerAuthenticates \/ ServerSendsHubItems \/ ServerIgnores
  BY <1>1 DEF ServerAuthenticates, ServerSendsHubItems, ServerIgnores
<1>2. CASE Authentication \/ SetBusyAuthentication \/ SendMsgAuthentication \/ RequestSize \/ RequestTag
  BY <1>2 DEF Authentication, AuthenticationNeeded, SetBusyAuthentication, SendMsgAuthentication,
     RequestSize, RequestTag
<1>3. CASE ConnectToServer \/ AnnounceConnected \/ ConnectFails
  BY <1>3 DEF ConnectToServer, AnnounceConnected, ConnectFails
<1>4. CASE RecvSocketData
  <2>1. PICK n \in 1..BufferSize : CutChunk(received + n)
    BY <1>4 DEF RecvSocketData
  <2>2. netPc = "recv" /\ netPc' \in {"loadTag", "send"}
    BY <1>4, <2>1, CutChunkResult DEF RecvSocketData, TypeOK
  <2> QED BY <1>4, <2>2 DEF RecvSocketData
<1>5. CASE RecvWouldBlock \/ RecvError \/ SendMessageData \/ ThreadEnds \/ LoadTag
           \/ AcceptAuthentication \/ ClearBusy
  BY <1>5 DEF RecvWouldBlock, RecvError, SendMessageData, ThreadEnds, LoadTag,
     AcceptAuthentication, ClearBusy
<1>6. CASE SendMsgRequestHubItems \/ SetBusyHubItems \/ QueueHubRequest \/ RejectChunk
  BY <1>6, Writes DEF SendMsgRequestHubItems, SetBusyHubItems, QueueHubRequest, RejectChunk,
     RequestForData
<1>7. CASE ReadHeader
  BY <1>7, Writes DEF ReadHeader, RequestForData
<1>8. CASE ReadBody \/ ClearBusyHub \/ Pair \/ RequestNextHeader \/ DropBody \/ IgnoreChunk
  BY <1>8, Writes DEF ReadBody, ClearBusyHub, Pair, RequestNextHeader, DropBody, IgnoreChunk,
     RequestForData
<1>9. CASE WriteTag
  BY <1>9, Writes DEF WriteTag
<1>10. CASE Shift
  <2>1. netPc = "shift" /\ received - chunk.size \in Nat
    <3>1. netPc = "shift" /\ received \in Nat /\ chunk.size \in Nat
      BY <1>10 DEF Shift, TypeOK
    <3>2. chunk.size <= received
      BY <3>1 DEF BufferInv, NoChunkPc
    <3> QED BY <3>1, <3>2
  <2>2. netPc' \in {"loadTag", "send"}
    BY <1>10, <2>1, CutChunkResult DEF Shift, TypeOK
  <2> QED BY <1>10, <2>1, <2>2 DEF Shift
<1>11. CASE UNCHANGED vars
  BY <1>11 DEF vars
<1> QED
  BY <1>1, <1>2, <1>3, <1>4, <1>5, <1>6, <1>7, <1>8, <1>9, <1>10, <1>11, StepCases

\* A message more, and the bytes that have been delivered stay where they are.
LEMMA ServerGrows ==
    ASSUME TypeOK, Layout, Server
    PROVE  StreamLength <= StreamLength' /\ StreamLength' \in Nat /\ Layout'
<1>1. CASE ServerAuthenticates
  <2>1. PICK answer \in AuthAnswers : Answer(answer, 0)
    BY <1>1 DEF ServerAuthenticates
  <2>2. answer \in Nat /\ 0 \in Nat
    BY AnswersAssumption DEF AUTH_SUCCESS, AUTH_FAILED
  <2>3. StreamLength' = StreamLength + HeaderSize + 0 /\ StreamLength \in Nat
    BY <2>1, <2>2, AnswerAppends
  <2> QED BY <2>1, <2>2, <2>3, LayoutAppended
<1>2. CASE ServerSendsHubItems
  <2>1. Answer(HUB_ITEMS, HubSize) /\ HUB_ITEMS \in Nat /\ HubSize \in Nat
    BY <1>2 DEF ServerSendsHubItems, HUB_ITEMS
  <2>2. StreamLength' = StreamLength + HeaderSize + HubSize /\ StreamLength \in Nat
    BY <2>1, AnswerAppends
  <2> QED BY <2>1, <2>2, LayoutAppended
<1>3. CASE ServerIgnores
  BY <1>3, Reaches DEF ServerIgnores, StreamLength, Layout
<1> QED BY <1>1, <1>2, <1>3 DEF Server

\* The layout is the server's alone.
LEMMA LayoutKeeps == TypeOK /\ Layout /\ [Next]_vars => Layout'
<1> SUFFICES ASSUME TypeOK, Layout, [Next]_vars PROVE Layout'
  OBVIOUS
<1>1. CASE Server
  BY <1>1, ServerGrows
<1>2. CASE ~Server
  <2>1. UNCHANGED <<stream, at>>
    BY <1>2 DEF Next, Main, MainContinues, Authentication, SetBusyAuthentication,
       SendMsgAuthentication, RequestSize, RequestTag, RecvSocketData, NetContinues, ConnectToServer,
       AnnounceConnected, ConnectFails, RecvWouldBlock, RecvError, SendMessageData, ThreadEnds,
       Process, LoadTag,
       AcceptAuthentication, ClearBusy, SendMsgRequestHubItems, SetBusyHubItems, QueueHubRequest,
       RejectChunk, ReadHeader, ReadBody, ClearBusyHub, Pair, RequestNextHeader, DropBody,
       IgnoreChunk, WriteTag, Shift, serverVars, mainRest, vars
  <2> QED BY <2>1 DEF Layout
<1> QED BY <1>1, <1>2

\* The buffer's bytes are those delivered last: recv adds, the shift takes the
\* chunk in hands away.
LEMMA BufferKeeps == TypeOK /\ Layout /\ BufferInv /\ [Next]_vars => BufferInv'
<1> SUFFICES ASSUME TypeOK, Layout, BufferInv, [Next]_vars PROVE BufferInv'
  OBVIOUS
<1> USE DEF bufferVars, NetStep, MainStep, mainRest
<1>0. /\ base \in Nat /\ received \in Nat /\ delivered \in Nat /\ waitFor \in Nat
      /\ chunk \in [size : Nat, tag : Tags] /\ StreamLength \in Nat
  BY Reaches DEF TypeOK
<1>1. CASE Server
  <2>1. StreamLength <= StreamLength' /\ StreamLength' \in Nat
    BY <1>1, ServerGrows
  <2>2. UNCHANGED <<base, received, delivered, netPc, chunk>>
    BY <1>1 DEF Server, ServerAuthenticates, ServerSendsHubItems, ServerIgnores
  <2> QED BY <1>0, <2>1, <2>2 DEF BufferInv
<1>2. CASE Main
  <2>1. UNCHANGED <<base, received, delivered, netPc, chunk, at>>
    BY <1>2 DEF Main, MainContinues, Authentication, SetBusyAuthentication, SendMsgAuthentication,
       RequestSize, RequestTag, serverVars
  <2> QED BY <2>1 DEF BufferInv, StreamLength
<1>3. CASE ConnectToServer \/ AnnounceConnected \/ ConnectFails \/ RecvWouldBlock \/ RecvError
           \/ SendMessageData \/ ThreadEnds
  <2>1. UNCHANGED <<base, received, delivered, chunk, at>> /\ netPc \in NoChunkPc /\ netPc' \in NoChunkPc
    BY <1>3 DEF ConnectToServer, AnnounceConnected, ConnectFails, RecvWouldBlock, RecvError,
       SendMessageData, ThreadEnds,
       serverVars, NoChunkPc
  <2> QED BY <2>1 DEF BufferInv, StreamLength
<1>4. CASE RecvSocketData
  <2>1. PICK n \in 1..BufferSize :
          /\ delivered + n <= StreamLength
          /\ delivered' = delivered + n
          /\ received' = received + n
          /\ CutChunk(received + n)
    BY <1>4 DEF RecvSocketData
  <2>2. base' = base /\ StreamLength' = StreamLength
    BY <1>4 DEF RecvSocketData, serverVars, StreamLength
  <2>3. base' + received' = delivered' /\ delivered' <= StreamLength'
    BY <1>0, <2>1, <2>2 DEF BufferInv
  <2>4. IF netPc' \in NoChunkPc THEN chunk' = NoChunk
                                ELSE 0 < chunk'.size /\ chunk'.size <= received'
    BY <1>0, <2>1, CutChunkResult DEF NoChunkPc
  <2> QED BY <2>3, <2>4 DEF BufferInv
<1>5. CASE Shift
  <2>1. received - chunk.size \in Nat
    BY <1>0, <1>5 DEF Shift, BufferInv, NoChunkPc
  <2>2. /\ base' = base + chunk.size /\ received' = received - chunk.size /\ delivered' = delivered
        /\ StreamLength' = StreamLength
    BY <1>5 DEF Shift, serverVars, StreamLength
  <2>3. base' + received' = delivered' /\ delivered' <= StreamLength'
    <3>1. chunk.size \in Nat /\ base + received = delivered /\ delivered <= StreamLength
      BY <1>0 DEF BufferInv
    <3>2. base' + received' = base + received
      BY <1>0, <2>2, <3>1
    <3> QED BY <2>2, <3>1, <3>2
  <2>4. IF netPc' \in NoChunkPc THEN chunk' = NoChunk
                                ELSE 0 < chunk'.size /\ chunk'.size <= received'
    BY <1>0, <1>5, <2>1, CutChunkResult DEF Shift, NoChunkPc
  <2> QED BY <2>3, <2>4 DEF BufferInv
<1>6. CASE LoadTag
  <2>1. UNCHANGED <<base, received, delivered, at>> /\ chunk'.size = chunk.size
    BY <1>0, <1>6 DEF LoadTag, serverVars
  <2>2. netPc \notin NoChunkPc /\ netPc' \notin NoChunkPc
    BY <1>6 DEF LoadTag, NoChunkPc
  <2> QED BY <2>1, <2>2 DEF BufferInv, StreamLength
<1>7. CASE \/ AcceptAuthentication \/ ClearBusy \/ SendMsgRequestHubItems \/ SetBusyHubItems
           \/ QueueHubRequest \/ RejectChunk \/ ReadHeader \/ ReadBody \/ ClearBusyHub \/ Pair
           \/ RequestNextHeader \/ DropBody \/ IgnoreChunk \/ WriteTag
  <2>1. UNCHANGED <<base, received, delivered, chunk, at>>
    BY <1>7 DEF AcceptAuthentication, ClearBusy, SendMsgRequestHubItems, SetBusyHubItems,
       QueueHubRequest, RejectChunk, ReadHeader, ReadBody, ClearBusyHub, Pair, RequestNextHeader,
       DropBody, IgnoreChunk, WriteTag, serverVars
  <2>2. netPc \notin NoChunkPc /\ netPc' \notin NoChunkPc
    BY <1>7, Writes DEF AcceptAuthentication, ClearBusy, SendMsgRequestHubItems, SetBusyHubItems,
       QueueHubRequest, RejectChunk, ReadHeader, ReadBody, ClearBusyHub, Pair, RequestNextHeader,
       DropBody, IgnoreChunk, WriteTag, RequestForData, NoChunkPc
  <2> QED BY <2>1, <2>2 DEF BufferInv, StreamLength
<1>8. CASE UNCHANGED vars
  BY <1>8 DEF vars, BufferInv, StreamLength
<1> QED
  BY <1>1, <1>2, <1>3, <1>4, <1>5, <1>6, <1>7, <1>8 DEF Next, NetContinues, Process

\* What the server does to its log and its state, in each of its steps.
LEMMA ServerStep ==
    ASSUME TypeOK, Server
    PROVE  /\ Requested' = Requested
           /\ Len(serverLog') = Len(serverLog) + 1
           /\ \A i \in 1..Len(serverLog) : serverLog'[i] = serverLog[i]
           /\ serverLog'[Len(serverLog) + 1] = Head(toServer)
           /\ Len(serverLog) + 1 \in 1..Len(Requested)
           /\ Requested[Len(serverLog) + 1] = Head(toServer)
           /\ UNCHANGED <<authenticated, netPc, mainPc>>
<1>1. ServerReads /\ UNCHANGED <<queue, authenticated, netPc, mainPc>>
  BY DEF Server, ServerAuthenticates, ServerSendsHubItems, ServerIgnores, sessionVars
<1>2. toServer # << >>
  BY <1>1 DEF ServerReads
<1> QED BY <1>1, <1>2, ServerReadsKeeps, HeadIsRequested

\* The client asks for the hub items once, when its authentication is accepted.
LEMMA RequestKeeps == TypeOK /\ UpInv /\ RequestInv /\ AnswerInv /\ [Next]_vars => RequestInv'
<1> SUFFICES ASSUME TypeOK, UpInv, RequestInv, AnswerInv, [Next]_vars PROVE RequestInv'
  OBVIOUS
<1> USE DEF NetStep, MainStep, mainRest, sessionVars, serverVars
<1>0. /\ Requested \in Seq(Requests) /\ Len(Requested) \in Nat /\ Len(serverLog) \in Nat
      /\ serverLog \in Seq(Requests)
  BY RequestedType DEF TypeOK
<1>1. CASE Server
  <2>1. /\ Requested' = Requested
        /\ Len(serverLog') = Len(serverLog) + 1
        /\ \A i \in 1..Len(serverLog) : serverLog'[i] = serverLog[i]
        /\ serverLog'[Len(serverLog) + 1] = Head(toServer)
        /\ Requested[Len(serverLog) + 1] = Head(toServer)
        /\ Len(serverLog) + 1 \in 1..Len(Requested)
        /\ UNCHANGED <<authenticated, netPc, mainPc>>
    BY <1>1, ServerStep
  <2>2. serverAuth => serverAuth'
    BY <1>1 DEF Server, ServerAuthenticates, ServerSendsHubItems, ServerIgnores
  <2>3. ASSUME serverAuth'
        PROVE  Len(serverLog') > 0 /\ serverLog'[1] = AUTHENTICATION
    <3>1. CASE serverAuth
      <4>1. Len(serverLog) > 0 /\ serverLog[1] = AUTHENTICATION
        BY <3>1 DEF RequestInv
      <4> QED BY <1>0, <2>1, <4>1
    <3>2. CASE ~serverAuth
      <4>1. Head(toServer) = AUTHENTICATION
        BY <1>1, <2>3, <3>2 DEF Server, ServerAuthenticates, ServerSendsHubItems, ServerIgnores
      <4>2. CASE Len(serverLog) = 0
        BY <2>1, <4>1, <4>2
      <4>3. CASE Len(serverLog) > 0
        <5>1. 1 \in 1..Len(serverLog) /\ 1 \in 1..Len(Requested)
          BY <1>0, <2>1, <4>3
        <5>2. ~HubAsked
          BY <3>2 DEF RequestInv
        <5>3. serverLog[1] = Requested[1] /\ Requested[1] \in Requests
          BY <1>0, <5>1, RequestedType
        <5>4. serverLog[1] = AUTHENTICATION
          BY <5>1, <5>2, <5>3 DEF HubAsked, Requests
        <5> QED BY <2>1, <4>3, <5>1, <5>4
      <4> QED BY <1>0, <4>2, <4>3
    <3> QED BY <3>1, <3>2
  <2> QED BY <2>1, <2>2, <2>3 DEF RequestInv, HubAsked
<1>2. CASE SendMsgAuthentication
  <2>1. UNCHANGED <<netPc, authenticated, serverAuth, serverLog>>
    BY <1>2 DEF SendMsgAuthentication
  <2>2. CASE Requested' = Requested
    BY <2>1, <2>2 DEF RequestInv, HubAsked
  <2>3. CASE /\ Len(Requested') = Len(Requested) + 1
             /\ \A i \in 1..Len(Requested) : Requested'[i] = Requested[i]
             /\ Requested'[Len(Requested) + 1] = AUTHENTICATION
    <3>1. \A i \in 1..Len(Requested') : Requested'[i] = HUB_REQUEST =>
             i \in 1..Len(Requested) /\ Requested[i] = HUB_REQUEST
      BY <1>0, <2>3 DEF AUTHENTICATION, HUB_REQUEST
    <3> QED BY <2>1, <3>1 DEF RequestInv, HubAsked
  <2> QED BY <1>2, <2>2, <2>3, DialogAsks
<1>3. CASE QueueHubRequest
  <2>1. /\ connectState = "CONNECTED" /\ ~kill /\ AddMessageToQueue(HUB_REQUEST) /\ HUB_REQUEST \in Requests
        /\ UNCHANGED <<toServer, serverLog>> /\ netPc = "queueHub" /\ netPc' = "writeHeader"
        /\ UNCHANGED <<authenticated, serverAuth, serverLog, mainPc>>
    BY <1>3, Writes DEF QueueHubRequest, RequestForData, UpInv, Requests
  <2>2. /\ Len(Requested') = Len(Requested) + 1
        /\ \A i \in 1..Len(Requested) : Requested'[i] = Requested[i]
        /\ Requested'[Len(Requested) + 1] = HUB_REQUEST
    BY <2>1, AddKeepsRequested
  <2>3. ~HubAsked /\ authenticated
    BY <2>1 DEF RequestInv, AskingPc
  <2>4. \A i \in 1..Len(Requested') : Requested'[i] = HUB_REQUEST => i = Len(Requested) + 1
    BY <1>0, <2>2, <2>3 DEF HubAsked
  <2>5.. netPc' \notin AskingPc
    BY <2>1 DEF AskingPc
  <2> QED BY <2>1, <2>3, <2>4, <2>5 DEF RequestInv
<1>4. CASE SendMessageData \/ ThreadEnds
  <2>1. Requested' = Requested
    BY <1>4, SendKeepsRequested DEF SendMessageData, ThreadEnds
  <2>2. UNCHANGED <<authenticated, serverAuth, serverLog, mainPc>> /\ netPc' \notin AskingPc
    BY <1>4 DEF SendMessageData, ThreadEnds, AskingPc
  <2> QED BY <2>1, <2>2 DEF RequestInv, HubAsked
<1>5. CASE AcceptAuthentication
  <2>1. UNCHANGED <<queue, toServer, serverLog, serverAuth, mainPc>> /\ authenticated' /\ ~authenticated
    BY <1>5 DEF AcceptAuthentication
  <2>2. serverAuth
    BY <1>5 DEF AcceptAuthentication, Accepted, HeaderHere, AnswerInv
  <2>3. Requested' = Requested /\ ~HubAsked
    BY <2>1 DEF Requested, RequestInv
  <2> QED BY <2>1, <2>2, <2>3 DEF RequestInv, HubAsked
<1>6. CASE \/ Authentication \/ SetBusyAuthentication \/ RequestSize \/ RequestTag
           \/ ConnectToServer \/ AnnounceConnected \/ ConnectFails \/ RecvWouldBlock
           \/ RecvError \/ LoadTag
  <2>1. UNCHANGED <<queue, toServer, serverLog, serverAuth, authenticated>>
    BY <1>6 DEF Authentication, SetBusyAuthentication, RequestSize, RequestTag,
       ConnectToServer, AnnounceConnected, ConnectFails, RecvWouldBlock, RecvError, LoadTag
  <2>2. Requested' = Requested /\ (netPc' \in AskingPc => netPc \in AskingPc)
    BY <1>6, <2>1 DEF Requested, AskingPc, Authentication, SetBusyAuthentication, RequestSize, RequestTag,
       ConnectToServer, AnnounceConnected, ConnectFails, RecvWouldBlock, RecvError, LoadTag
  <2> QED BY <2>1, <2>2 DEF RequestInv, HubAsked
<1>7. CASE RecvSocketData \/ Shift
  <2>1. UNCHANGED <<queue, toServer, serverLog, serverAuth, authenticated, mainPc>> /\ netPc' \in {"loadTag", "send"}
    BY <1>7 DEF RecvSocketData, Shift, CutChunk
  <2>2. Requested' = Requested /\ netPc' \notin AskingPc
    BY <2>1 DEF Requested, AskingPc
  <2> QED BY <2>1, <2>2 DEF RequestInv, HubAsked
<1>8. CASE ClearBusy \/ SendMsgRequestHubItems \/ SetBusyHubItems
  <2>1. /\ UNCHANGED <<queue, toServer, serverLog, serverAuth, authenticated, mainPc>>
        /\ netPc \in AskingPc
    BY <1>8 DEF ClearBusy, SendMsgRequestHubItems, SetBusyHubItems, AskingPc
  <2>2. Requested' = Requested
    BY <2>1 DEF Requested
  <2> QED BY <2>1, <2>2 DEF RequestInv, HubAsked
<1>9. CASE \/ RejectChunk \/ ReadHeader \/ ReadBody \/ ClearBusyHub \/ Pair
           \/ RequestNextHeader \/ DropBody \/ IgnoreChunk \/ WriteTag
  <2>1. UNCHANGED <<queue, toServer, serverLog, serverAuth, authenticated, mainPc>>
    BY <1>9 DEF RejectChunk, ReadHeader, ReadBody, ClearBusyHub, Pair,
       RequestNextHeader, DropBody, IgnoreChunk, WriteTag
  <2>2. Requested' = Requested /\ netPc' \notin AskingPc
    BY <1>9, <2>1, Writes DEF RejectChunk, ReadHeader, ReadBody, ClearBusyHub, Pair,
       RequestNextHeader, DropBody, IgnoreChunk, WriteTag, Requested, AskingPc, RequestForData
  <2> QED BY <2>1, <2>2 DEF RequestInv, HubAsked
<1>10. CASE UNCHANGED vars
  BY <1>10 DEF vars, RequestInv, HubAsked, Requested, AskingPc
<1> QED
  BY <1>1, <1>2, <1>3, <1>4, <1>5, <1>6, <1>7, <1>8, <1>9, <1>10 DEF Next, Main, MainContinues,
     NetContinues, Process

\* Refusals, an acceptance, and the hub items once they have been asked for.
LEMMA AnswerKeeps == TypeOK /\ Layout /\ RequestInv /\ AnswerInv /\ [Next]_vars => AnswerInv'
<1> SUFFICES ASSUME TypeOK, Layout, RequestInv, AnswerInv, [Next]_vars PROVE AnswerInv'
  OBVIOUS
<1>0. Len(stream) \in Nat /\ Len(serverLog) \in Nat /\ stream \in Seq([code : Nat, size : Nat])
  BY DEF TypeOK
<1>1. CASE Server
  <2>0. /\ Requested' = Requested
        /\ Len(serverLog') = Len(serverLog) + 1
        /\ \A i \in 1..Len(serverLog) : serverLog'[i] = serverLog[i]
        /\ serverLog'[Len(serverLog) + 1] = Head(toServer)
        /\ Requested[Len(serverLog) + 1] = Head(toServer)
        /\ Len(serverLog) + 1 \in 1..Len(Requested)
    BY <1>1, ServerStep
  <2>1. ASSUME NEW i \in 1..Len(serverLog), serverLog[i] = HUB_REQUEST
        PROVE  \E j \in 1..Len(serverLog') : serverLog'[j] = HUB_REQUEST
    <3>1. i \in 1..Len(serverLog') /\ serverLog'[i] = HUB_REQUEST
      BY <1>0, <2>0, <2>1
    <3> QED BY <3>1
  <2>2. CASE ServerAuthenticates
    <3>1. PICK answer \in AuthAnswers : Answer(answer, 0) /\ serverAuth' = (answer = AUTH_SUCCESS)
      BY <2>2 DEF ServerAuthenticates
    <3>2. answer \in {AUTH_SUCCESS, AUTH_FAILED} /\ answer \in Nat /\ 0 \in Nat
      BY AnswersAssumption DEF AUTH_SUCCESS, AUTH_FAILED
    <3>3. /\ Len(stream') = Len(stream) + 1
          /\ \A k \in 1..Len(stream) : stream'[k] = stream[k]
          /\ stream'[Len(stream) + 1] = [code |-> answer, size |-> 0]
      BY <3>1, <3>2, AnswerAppends
    <3>4. ~serverAuth
      BY <2>2 DEF ServerAuthenticates
    <3>5. \A k \in 1..Len(stream) : stream[k] = [code |-> AUTH_FAILED, size |-> 0]
      <4> SUFFICES ASSUME NEW k \in 1..Len(stream) PROVE stream[k] = [code |-> AUTH_FAILED, size |-> 0]
        OBVIOUS
      <4>1. ~HubAsked
        BY <3>4 DEF RequestInv
      <4>2. \A i \in 1..Len(serverLog) : i \in 1..Len(Requested) /\ serverLog[i] = Requested[i]
        BY <1>0, <2>0, RequestedType
      <4>3. stream[k].code # HUB_ITEMS
        BY <4>1, <4>2 DEF AnswerInv, HubAsked
      <4>4. stream[k].code # AUTH_SUCCESS
        BY <3>4 DEF AnswerInv
      <4> QED BY <4>3, <4>4 DEF AnswerInv
    <3>6. \A k \in 1..Len(stream') :
            \/ k \in 1..Len(stream) /\ stream'[k] = [code |-> AUTH_FAILED, size |-> 0]
            \/ k = Len(stream') /\ stream'[k] = [code |-> answer, size |-> 0]
      BY <1>0, <3>3, <3>5
    <3>7. \A k \in 1..Len(stream') :
            /\ stream'[k].code = AUTH_SUCCESS => serverAuth' /\ k = Len(stream')
            /\ stream'[k].code # HUB_ITEMS
            /\ \/ stream'[k] = [code |-> AUTH_FAILED, size |-> 0]
               \/ stream'[k] = [code |-> AUTH_SUCCESS, size |-> 0]
      <4> TAKE k \in 1..Len(stream')
      <4>1. CASE k \in 1..Len(stream) /\ stream'[k] = [code |-> AUTH_FAILED, size |-> 0]
        <5>1. stream'[k].code = AUTH_FAILED
          BY <4>1
        <5> QED BY <4>1, <5>1 DEF AUTH_SUCCESS, AUTH_FAILED, HUB_ITEMS
      <4>2. CASE k = Len(stream') /\ stream'[k] = [code |-> answer, size |-> 0]
        <5>1. stream'[k].code = answer
          BY <4>2
        <5>2. answer = AUTH_SUCCESS => serverAuth'
          BY <3>1
        <5> QED BY <3>2, <4>2, <5>1, <5>2 DEF AUTH_SUCCESS, AUTH_FAILED, HUB_ITEMS
      <4> QED BY <3>6, <4>1, <4>2
    <3>8. serverAuth' => \E k \in 1..Len(stream') : stream'[k].code = AUTH_SUCCESS
      <4>1. Len(stream) + 1 \in 1..Len(stream') /\ stream'[Len(stream) + 1].code = answer
        BY <1>0, <3>3
      <4> QED BY <3>1, <4>1
    <3>9. Len(stream') <= Len(serverLog')
      BY <1>0, <2>0, <3>3 DEF AnswerInv
    <3> QED BY <3>7, <3>8, <3>9 DEF AnswerInv
  <2>3. CASE ServerSendsHubItems
    <3>1. /\ Answer(HUB_ITEMS, HubSize) /\ serverAuth' /\ serverAuth /\ HUB_ITEMS \in Nat /\ HubSize \in Nat
          /\ Head(toServer) = HUB_REQUEST
      BY <2>3 DEF ServerSendsHubItems, HUB_ITEMS
    <3>2. /\ Len(stream') = Len(stream) + 1
          /\ \A k \in 1..Len(stream) : stream'[k] = stream[k]
          /\ stream'[Len(stream) + 1] = [code |-> HUB_ITEMS, size |-> HubSize]
      BY <3>1, AnswerAppends
    <3>3. \A i \in 1..Len(serverLog) : serverLog[i] # HUB_REQUEST
      <4> SUFFICES ASSUME NEW i \in 1..Len(serverLog), serverLog[i] = HUB_REQUEST PROVE FALSE
        OBVIOUS
      <4>0. Requested[i] = serverLog[i]
        BY RequestedType
      <4>1. i \in 1..Len(Requested) /\ Requested[i] = HUB_REQUEST
        BY <1>0, <2>0, <4>0
      <4>2. i = Len(serverLog) + 1
        BY <2>0, <3>1, <4>1 DEF RequestInv
      <4> QED BY <1>0, <4>2
    <3>4. \A k \in 1..Len(stream) : stream[k].code # HUB_ITEMS
      BY <3>3 DEF AnswerInv
    <3>5. \A k \in 1..Len(stream) : stream[k].code = AUTH_SUCCESS => k = Len(stream)
      <4> TAKE k \in 1..Len(stream)
      <4>1. k + 1 = Len(stream) => k + 1 \in 1..Len(stream)
        BY <1>0
      <4> QED BY <3>4, <4>1 DEF AnswerInv
    <3>6. \E j \in 1..Len(serverLog') : serverLog'[j] = HUB_REQUEST
      <4>1. Len(serverLog) + 1 \in 1..Len(serverLog') /\ serverLog'[Len(serverLog) + 1] = HUB_REQUEST
        BY <1>0, <2>0, <3>1
      <4> QED BY <4>1
    <3>7. \A k \in 1..Len(stream') :
            \/ stream'[k] = [code |-> AUTH_FAILED, size |-> 0]
            \/ stream'[k] = [code |-> AUTH_SUCCESS, size |-> 0]
            \/ stream'[k] = [code |-> HUB_ITEMS, size |-> HubSize]
      <4> TAKE k \in 1..Len(stream')
      <4>1. k \in 1..Len(stream) \/ k = Len(stream) + 1
        BY <1>0, <3>2
      <4> QED BY <3>2, <4>1 DEF AnswerInv
    <3>8. \A k \in 1..Len(stream') : stream'[k].code = AUTH_SUCCESS =>
             k + 1 = Len(stream') /\ stream'[k + 1].code = HUB_ITEMS
      <4> TAKE k \in 1..Len(stream')
      <4>1. stream'[Len(stream) + 1].code = HUB_ITEMS /\ HUB_ITEMS # AUTH_SUCCESS
        BY <3>2 DEF AUTH_SUCCESS, HUB_ITEMS
      <4>2. k = Len(stream) + 1 \/ (k \in 1..Len(stream) /\ stream'[k] = stream[k])
        BY <1>0, <3>2
      <4> QED BY <1>0, <3>2, <3>5, <4>1, <4>2
    <3>9. \E k \in 1..Len(stream') : stream'[k].code = AUTH_SUCCESS
      <4>1. PICK k \in 1..Len(stream) : stream[k].code = AUTH_SUCCESS
        BY <3>1 DEF AnswerInv
      <4>2. k \in 1..Len(stream') /\ stream'[k].code = AUTH_SUCCESS
        BY <1>0, <3>2, <4>1
      <4> QED BY <4>2
    <3>10. Len(stream') <= Len(serverLog')
      BY <1>0, <2>0, <3>2 DEF AnswerInv
    <3> QED BY <3>1, <3>6, <3>7, <3>8, <3>9, <3>10 DEF AnswerInv
  <2>4. CASE ServerIgnores
    <3>1. UNCHANGED <<stream, serverAuth>>
      BY <2>4 DEF ServerIgnores
    <3>2. Len(stream) <= Len(serverLog')
      BY <1>0, <2>0 DEF AnswerInv
    <3> QED BY <2>1, <3>1, <3>2 DEF AnswerInv
  <2> QED BY <1>1, <2>2, <2>3, <2>4 DEF Server
<1>2. CASE ~Server
  <2>1. UNCHANGED <<stream, serverLog, serverAuth>>
    BY <1>2 DEF Next, Main, MainContinues, Authentication, SetBusyAuthentication,
       SendMsgAuthentication, RequestSize, RequestTag, RecvSocketData, NetContinues, ConnectToServer,
       AnnounceConnected, ConnectFails, RecvWouldBlock, RecvError, SendMessageData, ThreadEnds,
       Process, LoadTag,
       AcceptAuthentication, ClearBusy, SendMsgRequestHubItems, SetBusyHubItems, QueueHubRequest,
       RejectChunk, ReadHeader, ReadBody, ClearBusyHub, Pair, RequestNextHeader, DropBody,
       IgnoreChunk, WriteTag, Shift, serverVars, mainRest, vars
  <2> QED BY <2>1 DEF AnswerInv
<1> QED BY <1>1, <1>2

LEMMA InitWire == Init => WireInv
<1> SUFFICES ASSUME Init PROVE WireInv
  OBVIOUS
<1>1. TypeOK
  <2>1. /\ << >> \in Seq(Requests) /\ << >> \in Seq([from : Nat, size : Nat])
        /\ << >> \in Seq([code : Nat, size : Nat]) /\ <<0>> \in Seq(Nat)
    OBVIOUS
  <2> QED BY <2>1 DEF Init, TypeOK, NetPc, Tags, NoMessage, NoChunk
<1>2. Requested = << >>
  BY DEF Init, Requested
<1>3. UpInv /\ BufferInv
  BY DEF Init, UpInv, BufferInv, StreamLength, NoChunkPc
<1>4. RequestInv
  BY <1>2 DEF Init, RequestInv, HubAsked, AskingPc
<1>5. Layout /\ AnswerInv
  BY DEF Init, Layout, AnswerInv
<1> QED BY <1>1, <1>3, <1>4, <1>5 DEF WireInv

LEMMA WireKeeps == WireInv /\ [Next]_vars => WireInv'
  BY TypeKeeps, UpKeeps, BufferKeeps, LayoutKeeps, RequestKeeps, AnswerKeeps DEF WireInv

-----------------------------------------------------------------------------
(* The second layer is kept.                                               *)

\* The hub items are not in the stream before they are asked for, and without
\* them it is all headers.
LEMMA OnlyHeaders ==
    ASSUME WireInv, ~authenticated
    PROVE  /\ \A k \in 1..Len(stream) : stream[k].code # HUB_ITEMS /\ stream[k].size = 0
           /\ \A k \in 1..Len(stream) : at[k + 1] = at[k] + HeaderSize
<1>0. Len(serverLog) \in Nat /\ Len(toServer) \in Nat /\ Len(queue) \in Nat
  BY DEF WireInv, TypeOK
<1>1. ASSUME NEW i \in 1..Len(serverLog)
      PROVE  serverLog[i] # HUB_REQUEST
  <2>1. i \in 1..Len(Requested) /\ Requested[i] = serverLog[i]
    BY <1>0, RequestedType DEF WireInv
  <2> QED BY <2>1 DEF WireInv, RequestInv, HubAsked
<1>2. ASSUME NEW k \in 1..Len(stream)
      PROVE  stream[k].code # HUB_ITEMS /\ stream[k].size = 0
  <2>1. stream[k].code # HUB_ITEMS
    BY <1>1 DEF WireInv, AnswerInv
  <2> QED BY <2>1 DEF WireInv, AnswerInv
<1>3. ASSUME NEW k \in 1..Len(stream)
      PROVE  at[k + 1] = at[k] + HeaderSize
  <2>1. at[k + 1] = at[k] + HeaderSize + stream[k].size /\ at[k] \in Nat
    BY Reaches DEF WireInv, Layout
  <2> QED BY <1>2, <2>1
<1> QED BY <1>2, <1>3

\* What has come before the client said what it waits for is one header at most.
LEMMA OneHeader ==
    ASSUME WireInv, NotAskedInv, waitFor = 0
    PROVE  StreamLength <= HeaderSize
<1>1. /\ Len(stream) \in Nat /\ Len(stream) <= 1
  <2>1. Len(stream) <= Len(serverLog) /\ Len(serverLog) <= Len(Requested) /\ Len(Requested) <= 1
    BY RequestedType DEF WireInv, TypeOK, AnswerInv, NotAskedInv
  <2> QED BY <2>1 DEF WireInv, TypeOK
<1>2. ~authenticated
  BY DEF NotAskedInv
<1>3. CASE Len(stream) = 0
  BY <1>3, Reaches DEF WireInv, Layout
<1>4. CASE Len(stream) = 1
  <2>1. at[2] = at[1] + HeaderSize /\ at[1] = 0 /\ StreamLength = at[2]
    BY <1>2, <1>4, OnlyHeaders, Reaches DEF WireInv, Layout
  <2> QED BY <2>1
<1>5. Len(stream) = 0 \/ Len(stream) = 1
  <2>1. \A n \in Nat : n <= 1 => n = 0 \/ n = 1
    OBVIOUS
  <2> QED BY <1>1, <2>1
<1> QED BY <1>3, <1>4, <1>5

\* Around the answer that was accepted.
LEMMA Around ==
    ASSUME WireInv, NEW s \in 1..Len(stream), Welcome(s)
    PROVE  /\ Len(stream) \in Nat
           /\ at[s] \in Nat /\ at[s + 1] \in Nat /\ StreamLength \in Nat
           /\ at[s + 1] = at[s] + HeaderSize
           /\ Len(stream) = s => StreamLength = at[s + 1]
           /\ Len(stream) = s + 1 =>
                /\ stream[s + 1] = [code |-> HUB_ITEMS, size |-> HubSize]
                /\ StreamLength = at[s + 1] + HeaderSize + HubSize
           /\ HeaderHere \subseteq {k \in {s + 1} : Len(stream) = s + 1} \/ base # at[s + 1]
           /\ Len(stream) = s + 1 /\ base = at[s + 1] => HeaderHere = {s + 1}
<1>1. /\ Len(stream) \in Nat /\ Len(at) = Len(stream) + 1
      /\ StreamLength = at[Len(stream) + 1] /\ StreamLength \in Nat
      /\ at[s] \in Nat /\ at[s + 1] \in Nat
  BY Reaches DEF WireInv
<1>2. stream[s].size = 0
  BY DEF WireInv, AnswerInv, Welcome, AUTH_SUCCESS, AUTH_FAILED, HUB_ITEMS
<1>3. at[s + 1] = at[s] + HeaderSize
  <2>1. at[s + 1] = at[s] + HeaderSize + stream[s].size
    BY DEF WireInv, Layout
  <2> QED BY <1>1, <1>2, <2>1
<1>4. ASSUME Len(stream) = s + 1
      PROVE  /\ stream[s + 1] = [code |-> HUB_ITEMS, size |-> HubSize]
             /\ StreamLength = at[s + 1] + HeaderSize + HubSize
  <2>1. s + 1 \in 1..Len(stream) /\ s # Len(stream)
    BY <1>1, <1>4
  <2>2. stream[s + 1].code = HUB_ITEMS
    BY <2>1 DEF WireInv, AnswerInv, Welcome
  <2>3. stream[s + 1] = [code |-> HUB_ITEMS, size |-> HubSize]
    <3>1. stream[s + 1] # [code |-> AUTH_FAILED, size |-> 0]
      BY <2>2 DEF AUTH_FAILED, HUB_ITEMS
    <3>2. stream[s + 1] # [code |-> AUTH_SUCCESS, size |-> 0]
      BY <2>2 DEF AUTH_SUCCESS, HUB_ITEMS
    <3> QED BY <2>1, <3>1, <3>2 DEF WireInv, AnswerInv
  <2>4. at[(s + 1) + 1] = at[s + 1] + HeaderSize + stream[s + 1].size
    BY <2>1 DEF WireInv, Layout
  <2>5. stream[s + 1].size = HubSize /\ (s + 1) + 1 = Len(stream) + 1
    BY <1>4, <2>3
  <2> QED BY <1>1, <2>3, <2>4, <2>5
<1>5. ASSUME base = at[s + 1], NEW k \in HeaderHere
      PROVE  k = s + 1 /\ Len(stream) = s + 1
  <2>1. k \in 1..Len(stream) /\ at[k] = at[s + 1] /\ s + 1 \in 1..Len(at) /\ k \in 1..Len(at)
    BY <1>1, <1>5 DEF HeaderHere
  <2>2. at[k] \in Nat /\ ~(at[k] < at[s + 1]) /\ ~(at[s + 1] < at[k])
    BY <1>1, <2>1
  <2>3. k = s + 1
    BY <1>1, <2>1, <2>2 DEF WireInv, Layout
  <2> QED BY <1>1, <2>1, <2>3 DEF Welcome
<1>6. Len(stream) = s + 1 /\ base = at[s + 1] => s + 1 \in HeaderHere
  BY <1>1 DEF HeaderHere
<1> QED BY <1>1, <1>3, <1>4, <1>5, <1>6

\* What is waited for is nothing, a header or the body.
LEMMA WaitSizes ==
    ASSUME PlaceInv
    PROVE  waitFor \in {0, HeaderSize, HubSize}
  BY DEF PlaceInv, RefusedInv, AcceptedInv, Stage, Accepting, HeaderDue, HeaderRead, BodyDue,
     HubLost, Decoded, Waits

\* The server and the main thread leave the stage as it is: the one has nothing but
\* the hub items to add, the other writes what HeaderDue and BodyDue allow for.
LEMMA OthersKeepStage ==
    ASSUME IInv, Server \/ Main \/ UNCHANGED vars, authenticated,
           NEW s \in 1..Len(stream), Welcome(s), Stage(s)
    PROVE  s \in 1..Len(stream') /\ Welcome(s)' /\ Stage(s)'
<1> USE DEF IInv, WireInv, Waits, NotPaired
<1>0. /\ Len(stream) \in Nat /\ Len(at) = Len(stream) + 1 /\ StreamLength = at[Len(stream) + 1]
      /\ s + 1 \in 1..Len(at) /\ s \in 1..Len(at)
  BY Reaches
<1>1. CASE Main
  <2>1. /\ UNCHANGED <<stream, at, netPc, base, received, chunk, tmpMessage, hubItems, sessionState>>
        /\ waitFor' = waitFor \/ waitFor' = HeaderSize
        /\ tag' = tag \/ tag' = "AUTHEN"
    BY <1>1 DEF Main, MainContinues, Authentication, SetBusyAuthentication, SendMsgAuthentication,
       RequestSize, RequestTag, MainStep, mainRest, bufferVars, waitVars, serverVars
  <2>2. StreamLength' = StreamLength /\ Welcome(s)' /\ s \in 1..Len(stream')
    BY <2>1 DEF StreamLength, Welcome
  <2>3. Accepting(s) => Stage(s)'
    BY <2>1 DEF Stage, Accepting
  <2>4. HeaderDue(s) => Stage(s)'
    <3> SUFFICES ASSUME HeaderDue(s) PROVE HeaderDue(s)'
      BY DEF Stage
    <3>1. tag \in {"none", "AUTHEN", "HEADER"} /\ tag' \in {tag, "AUTHEN"}
      BY <2>1 DEF HeaderDue, TypeOK, Tags
    <3>2. netPc = "process" => chunk.tag \in {tag', "none", "AUTHEN", "HEADER"}
      BY <3>1 DEF HeaderDue
    <3>3. netPc = "process" /\ chunk.tag # "HEADER" => tag' # "HEADER"
      BY <3>1 DEF HeaderDue
    <3> QED BY <2>1, <3>1, <3>2, <3>3 DEF HeaderDue
  <2>5. HeaderRead(s) => Stage(s)'
    BY <2>1 DEF Stage, HeaderRead
  <2>6. BodyDue(s) => Stage(s)'
    BY <2>1 DEF Stage, BodyDue
  <2>7. HubLost => Stage(s)'
    BY <2>1 DEF Stage, HubLost
  <2>8. Decoded(s) => Stage(s)'
    BY <2>1, <2>2 DEF Stage, Decoded
  <2> QED BY  <2>2, <2>3, <2>4, <2>5, <2>6, <2>7, <2>8 DEF Stage
<1>2. CASE ServerSendsHubItems
  <2>1. /\ Answer(HUB_ITEMS, HubSize) /\ HUB_ITEMS \in Nat /\ HubSize \in Nat /\ Head(toServer) = HUB_REQUEST
        /\ UNCHANGED <<netPc, base, waitFor, chunk, tag, tmpMessage, hubItems, sessionState>>
    BY <1>2 DEF ServerSendsHubItems, HUB_ITEMS, managerVars, sessionVars, bufferVars, waitVars
  <2>2. /\ Len(stream') = Len(stream) + 1 /\ Len(at') = Len(at) + 1
        /\ \A k \in 1..Len(stream) : stream'[k] = stream[k]
        /\ \A k \in 1..Len(at) : at'[k] = at[k]
        /\ stream'[Len(stream) + 1] = [code |-> HUB_ITEMS, size |-> HubSize]
    BY <2>1, AnswerAppends
  <2>3. AnswerInv'
    BY AnswerKeeps, <1>2 DEF Next, Server
  <2>4. Len(stream) = s
    <3>1. stream'[s] = stream[s] /\ s \in 1..Len(stream')
      BY <1>0, <2>2
    <3>2. s = Len(stream') \/ s + 1 = Len(stream')
      BY <2>3, <3>1 DEF AnswerInv, Welcome
    <3> QED BY <1>0, <2>2, <3>2
  <2>5. Welcome(s)' /\ s \in 1..Len(stream')
    BY <1>0, <2>2, <2>4 DEF Welcome
  <2>6. Accepting(s) \/ HeaderDue(s) \/ HubLost
    BY <2>4 DEF Stage, HeaderRead, BodyDue, Decoded
  <2>7. at'[s] = at[s] /\ at'[s + 1] = at[s + 1]
    BY <1>0, <2>2
  <2>8. Accepting(s)' \/ HeaderDue(s)' \/ HubLost'
    BY <2>1, <2>6, <2>7 DEF Accepting, HeaderDue, HubLost
  <2> QED BY <2>5, <2>8 DEF Stage
<1>3. CASE ServerAuthenticates
  BY <1>3 DEF ServerAuthenticates, RequestInv
<1>4. CASE ServerIgnores \/ UNCHANGED vars
  <2>1. UNCHANGED <<stream, at, netPc, base, waitFor, chunk, tag, tmpMessage, hubItems, sessionState>>
    BY <1>4 DEF ServerIgnores, managerVars, sessionVars, bufferVars, waitVars, vars
  <2> QED
    BY <2>1 DEF Welcome, Stage, Accepting, HeaderDue, HeaderRead, BodyDue, HubLost, Decoded, StreamLength
<1> QED BY <1>1, <1>2, <1>3, <1>4 DEF Server

\* What a step of the network thread leaves alone.
LEMMA NetLeavesStream ==
    ASSUME RecvSocketData \/ RecvError \/ NetContinues
    PROVE  UNCHANGED <<stream, at>>
  BY DEF RecvSocketData, NetContinues, ConnectToServer,
     AnnounceConnected, ConnectFails, RecvWouldBlock, RecvError, SendMessageData, ThreadEnds,
     Process, LoadTag,
     AcceptAuthentication, ClearBusy, SendMsgRequestHubItems, SetBusyHubItems, QueueHubRequest,
     RejectChunk, ReadHeader, ReadBody, ClearBusyHub, Pair, RequestNextHeader, DropBody,
     IgnoreChunk, WriteTag, Shift, serverVars

\* Receiving, sending and loading the tag.
LEMMA RecvKeepsStage ==
    ASSUME IInv, RecvSocketData \/ RecvWouldBlock \/ RecvError \/ SendMessageData \/ ThreadEnds
           \/ LoadTag, authenticated,
           NEW s \in 1..Len(stream), Welcome(s), Stage(s)
    PROVE  Stage(s)'
<1> USE DEF IInv, WireInv, Waits, NotPaired, NetStep, managerVars, sessionVars, bufferVars, waitVars
<1>0. UNCHANGED <<stream, at>> /\ StreamLength' = StreamLength
  BY NetLeavesStream DEF NetContinues, Process, StreamLength
<1>1. CASE RecvSocketData
  <2>1. PICK n \in 1..BufferSize : delivered + n <= StreamLength /\ CutChunk(received + n)
    BY <1>1 DEF RecvSocketData
  <2>2. netPc = "recv" /\ UNCHANGED <<base, waitFor, tag, tmpMessage, hubItems, sessionState>>
    BY <1>1 DEF RecvSocketData
  <2>3. received + n \in Nat /\ waitFor \in Nat
    BY DEF TypeOK
  <2>4. \/ netPc' = "loadTag" /\ chunk' = [size |-> waitFor, tag |-> "none"]
        \/ netPc' = "send" /\ chunk' = [size |-> 0, tag |-> "none"]
    BY <2>1, <2>3, CutChunkResult DEF NoChunk
  <2>5. chunk'.size \in {0, waitFor}
    BY <2>4
  <2>6. CASE Decoded(s)
    <3>1. base = StreamLength /\ base \in Nat /\ delivered \in Nat /\ received \in Nat
      BY <2>2, <2>6 DEF Decoded, TypeOK
    <3> QED BY <2>1, <3>1 DEF BufferInv
  <2>7. CASE HeaderDue(s)
    BY <1>0, <2>2, <2>4, <2>5, <2>7 DEF Stage, HeaderDue
  <2>8. CASE BodyDue(s)
    BY <1>0, <2>2, <2>4, <2>8 DEF Stage, BodyDue
  <2>9. CASE HubLost
    BY <1>0, <2>2, <2>4, <2>9 DEF Stage, HubLost
  <2> QED BY <2>2, <2>6, <2>7, <2>8, <2>9 DEF Stage, Accepting, HeaderRead, AskingPc
<1>2. CASE RecvWouldBlock \/ RecvError \/ SendMessageData \/ ThreadEnds
  <2>1. /\ UNCHANGED <<base, chunk, waitFor, tag, tmpMessage, hubItems, sessionState>>
        /\ netPc \in BetweenPc /\ netPc' \in BetweenPc
    BY <1>2 DEF BetweenPc, RecvWouldBlock, RecvError, SendMessageData, ThreadEnds
  <2> QED
    BY <1>0, <2>1 DEF Stage, Accepting, HeaderDue, HeaderRead, BodyDue, HubLost, Decoded, AskingPc,
       BetweenPc
<1>3. CASE LoadTag
  <2>1. /\ UNCHANGED <<base, waitFor, tag, tmpMessage, hubItems, sessionState>>
        /\ netPc = "loadTag" /\ netPc' = "process" /\ chunk'.tag = tag /\ chunk'.size = chunk.size
    BY <1>3 DEF LoadTag, TypeOK
  <2> QED
    BY <1>0, <2>1 DEF Stage, Accepting, HeaderDue, HeaderRead, BodyDue, HubLost, Decoded, AskingPc
<1> QED BY <1>1, <1>2, <1>3

\* Asking for the hub items.
LEMMA AskKeepsStage ==
    ASSUME IInv, ClearBusy \/ SendMsgRequestHubItems \/ SetBusyHubItems \/ QueueHubRequest,
           authenticated, NEW s \in 1..Len(stream), Welcome(s), Stage(s)
    PROVE  Stage(s)'
<1> USE DEF IInv, WireInv, Waits, NotPaired, NetStep, managerVars, sessionVars, bufferVars, waitVars
<1>0. UNCHANGED <<stream, at>> /\ StreamLength' = StreamLength
  BY NetLeavesStream DEF NetContinues, Process, StreamLength
<1>1. Accepting(s) /\ UNCHANGED <<base, chunk, tag, tmpMessage>>
  BY DEF Stage, HeaderDue, HeaderRead, BodyDue, HubLost, Decoded, ClearBusy, SendMsgRequestHubItems,
     SetBusyHubItems, QueueHubRequest, RequestForData
<1>2. CASE ClearBusy \/ SetBusyHubItems
  <2>1. UNCHANGED <<waitFor, sessionState>> /\ netPc' \in AskingPc /\ hubItems' = << >>
    BY <1>1, <1>2 DEF ClearBusy, SetBusyHubItems, AskingPc, Accepting
  <2> QED BY <1>0, <1>1, <2>1 DEF Stage, Accepting
<1>3. CASE SendMsgRequestHubItems
  <2>1. UNCHANGED <<waitFor, sessionState, hubItems>> /\ netPc' \in {"setBusyHub", "shift"}
    BY <1>3 DEF SendMsgRequestHubItems
  <2> QED BY <1>0, <1>1, <2>1 DEF Stage, Accepting, HeaderDue, AskingPc
<1>4. CASE QueueHubRequest
  <2>1. UNCHANGED <<sessionState, hubItems>> /\ netPc' = "writeHeader" /\ waitFor' = HeaderSize
    BY <1>4, Writes DEF QueueHubRequest, RequestForData
  <2> QED BY <1>0, <1>1, <2>1 DEF Stage, Accepting, HeaderDue
<1> QED BY <1>2, <1>3, <1>4

\* Reading a header: the one that is due, since nothing else is tagged as one.
LEMMA ReadHeaderKeepsStage ==
    ASSUME IInv, ReadHeader, NEW s \in 1..Len(stream), Welcome(s), Stage(s)
    PROVE  Stage(s)' /\ waitFor' = HubSize
<1> USE DEF IInv, WireInv, Waits, NotPaired, managerVars, sessionVars, bufferVars, waitVars
<1>0. UNCHANGED <<stream, at>>
  BY NetLeavesStream DEF NetContinues, Process
<1>1. /\ netPc = "process" /\ chunk.tag = "HEADER" /\ UNCHANGED <<base, chunk, hubItems, sessionState>>
  BY DEF ReadHeader
<1>2. HeaderDue(s)
  BY <1>1 DEF Stage, Accepting, HeaderRead, BodyDue, HubLost, Decoded, AskingPc
<1>3. base = at[s + 1] /\ chunk.size \in {0, HeaderSize}
  BY <1>1, <1>2 DEF HeaderDue
<1>4. 0 < chunk.size /\ chunk.size <= received /\ base + received = delivered /\ delivered <= StreamLength
  BY <1>1 DEF BufferInv, NoChunkPc
<1>5. chunk.size = HeaderSize /\ base < StreamLength
  <2>1. base \in Nat /\ received \in Nat /\ delivered \in Nat /\ StreamLength \in Nat
    BY Around DEF TypeOK
  <2> QED BY <1>3, <1>4, <2>1
<1>6. Len(stream) = s + 1
  BY <1>3, <1>5, Around DEF Welcome
<1>7. HeaderHere = {s + 1} /\ stream[s + 1] = [code |-> HUB_ITEMS, size |-> HubSize]
  BY <1>3, <1>6, Around
<1>8. tmpMessage' = stream[s + 1] /\ RequestForData(HubSize, "BODY")
  BY <1>7 DEF ReadHeader
<1>9. waitFor' = HubSize /\ netPc' = "writeBody"
  BY <1>8, Writes DEF RequestForData
<1> QED BY <1>0, <1>1, <1>2, <1>3, <1>5, <1>6, <1>8, <1>9 DEF HeaderDue, Stage, HeaderRead

\* Reading or dropping a body: what is decoded is the body that is due.
LEMMA ReadBodyKeepsStage ==
    ASSUME IInv, ReadBody \/ DropBody \/ IgnoreChunk, authenticated,
           NEW s \in 1..Len(stream), Welcome(s), Stage(s)
    PROVE  Stage(s)'
<1> USE DEF IInv, WireInv, Waits, NotPaired, NetStep, managerVars, sessionVars, bufferVars, waitVars
<1>0. UNCHANGED <<stream, at>>
  BY NetLeavesStream DEF NetContinues, Process
<1>1. /\ netPc = "process" /\ UNCHANGED <<base, chunk, waitFor, tag, sessionState>>
  BY DEF ReadBody, DropBody, IgnoreChunk
<1>2. HeaderDue(s) \/ BodyDue(s) \/ HubLost
  BY <1>1 DEF Stage, Accepting, HeaderRead, Decoded, AskingPc
<1>3. 0 < chunk.size
  BY <1>1 DEF BufferInv, NoChunkPc
<1>4. CASE ReadBody
  <2>1. chunk.tag = "BODY" /\ chunk.size = tmpMessage.size
    BY <1>4 DEF ReadBody, BodyExpected
  <2>2. ~HubLost
    BY <1>1, <1>3, <2>1 DEF HubLost, NoMessage
  <2>3. BodyDue(s)
    BY <1>1, <1>2, <2>1, <2>2 DEF HeaderDue
  <2>4. tmpMessage = [code |-> HUB_ITEMS, size |-> HubSize]
    BY <2>3, Around DEF BodyDue
  <2>5. netPc' = "clearHub" /\ hubItems' = <<[from |-> base, size |-> chunk.size]>>
    BY <1>4, <2>3, <2>4 DEF ReadBody, BodyDue
  <2>6. chunk.size = HubSize
    BY <2>1, <2>4
  <2> QED BY <1>0, <1>1, <2>3, <2>5, <2>6 DEF Stage, BodyDue, Decoded
<1>5. CASE DropBody
  <2>1. chunk.tag = "BODY" /\ netPc' = "shift" /\ tmpMessage' = NoMessage /\ hubItems' = hubItems
    BY <1>5 DEF DropBody
  <2>2. BodyDue(s) \/ HubLost
    BY <1>1, <1>2, <2>1 DEF HeaderDue
  <2> QED BY <1>0, <1>1, <2>1, <2>2 DEF Stage, BodyDue, HubLost
<1>6. CASE IgnoreChunk
  <2>1. chunk.tag \notin {"HEADER", "BODY"} /\ netPc' = "shift" /\ UNCHANGED <<tmpMessage, hubItems>>
    BY <1>6 DEF IgnoreChunk
  <2>2. HubLost'
    BY <1>0, <1>1, <1>2, <2>1 DEF HeaderDue, BodyDue, HubLost
  <2> QED BY <2>2 DEF Stage
<1> QED BY <1>4, <1>5, <1>6

\* The tag of a request is written, or the hub items are shown.
LEMMA WriteKeepsStage ==
    ASSUME IInv, WriteTag \/ ClearBusyHub \/ Pair \/ RequestNextHeader, authenticated,
           NEW s \in 1..Len(stream), Welcome(s), Stage(s)
    PROVE  Stage(s)'
<1> USE DEF IInv, WireInv, Waits, NotPaired, NetStep, managerVars, sessionVars, bufferVars, waitVars
<1>0. UNCHANGED <<stream, at>> /\ StreamLength' = StreamLength
  BY NetLeavesStream DEF NetContinues, Process, StreamLength
<1>1. CASE WriteTag
  <2>1. /\ UNCHANGED <<base, chunk, waitFor, sessionState, hubItems, tmpMessage>> /\ netPc' = "shift"
        /\ \/ netPc = "writeAuthen" /\ tag' = "AUTHEN"
           \/ netPc = "writeHeader" /\ tag' = "HEADER"
           \/ netPc = "writeBody" /\ tag' = "BODY"
    BY <1>1, Writes DEF WriteTag
  <2>2. CASE HeaderDue(s)
    BY <1>0, <2>1, <2>2 DEF Stage, HeaderDue
  <2>3. CASE HeaderRead(s)
    BY <1>0, <2>1, <2>3 DEF Stage, HeaderRead
  <2>4. CASE Decoded(s)
    BY <1>0, <2>1, <2>4 DEF Stage, Decoded
  <2> QED BY <2>1, <2>2, <2>3, <2>4 DEF Stage, Accepting, BodyDue, HubLost, AskingPc
<1>2. CASE ClearBusyHub \/ Pair \/ RequestNextHeader
  <2>1. Decoded(s)
    BY <1>2 DEF Stage, Accepting, HeaderDue, HeaderRead, BodyDue, HubLost, AskingPc,
       ClearBusyHub, Pair, RequestNextHeader
  <2>2. /\ netPc \in {"clearHub", "pair", "nextHeader"} /\ netPc' \in {"pair", "nextHeader", "writeHeader"}
        /\ UNCHANGED <<base, chunk, hubItems>> /\ waitFor' \in {waitFor, HeaderSize}
    BY <1>2, Writes DEF ClearBusyHub, Pair, RequestNextHeader, RequestForData
  <2> QED BY <1>0, <2>1, <2>2 DEF Stage, Decoded
<1> QED BY <1>1, <1>2

\* Behind the chunk in hands the next one begins.
LEMMA ShiftKeepsStage ==
    ASSUME IInv, Shift, authenticated, NEW s \in 1..Len(stream), Welcome(s), Stage(s)
    PROVE  Stage(s)'
<1> USE DEF IInv, WireInv, Waits, NotPaired, managerVars, sessionVars, waitVars
<1>0. UNCHANGED <<stream, at>> /\ StreamLength' = StreamLength
  BY NetLeavesStream DEF NetContinues, Process, StreamLength
<1>1. /\ base \in Nat /\ received \in Nat /\ delivered \in Nat /\ waitFor \in Nat /\ chunk.size \in Nat
      /\ 0 < chunk.size /\ chunk.size <= received
      /\ base + received = delivered /\ delivered <= StreamLength
  BY DEF Shift, TypeOK, BufferInv, NoChunkPc
<1>2. /\ netPc = "shift" /\ UNCHANGED <<tag, waitFor, tmpMessage, hubItems, sessionState>>
      /\ base' = base + chunk.size
  BY DEF Shift
<1>3. \/ /\ received - chunk.size >= waitFor /\ waitFor # 0
         /\ netPc' = "loadTag" /\ chunk' = [size |-> waitFor, tag |-> "none"]
      \/ netPc' = "send" /\ chunk' = [size |-> 0, tag |-> "none"]
  BY <1>1, CutChunkResult DEF Shift, NoChunk
<1>4. chunk'.size \in {0, waitFor}
  BY <1>3
<1>5. CASE HeaderDue(s)
  <2>1. base' = at[s + 1]
    BY <1>2, <1>5, Around DEF HeaderDue
  <2> QED BY <1>0, <1>2, <1>3, <1>4, <1>5, <2>1 DEF Stage, HeaderDue
<1>6. CASE HeaderRead(s)
  <2>1. base' = at[s + 1] + HeaderSize
    BY <1>2, <1>6 DEF HeaderRead
  <2> QED BY <1>0, <1>2, <1>3, <1>6, <2>1 DEF Stage, HeaderRead, BodyDue
<1>7. CASE HubLost
  BY <1>0, <1>2, <1>3, <1>7 DEF Stage, HubLost
<1>8. CASE Decoded(s)
  <2>1. base + chunk.size = StreamLength
    BY <1>2, <1>8, Around DEF Decoded
  <2>2. received = chunk.size
    BY <1>1, <2>1, Reaches
  <2>3. netPc' = "send"
    BY <1>1, <1>3, <2>2
  <2> QED BY <1>0, <1>2, <1>8, <2>1, <2>3 DEF Stage, Decoded
<1> QED BY <1>2, <1>5, <1>6, <1>7, <1>8 DEF Stage, Accepting, BodyDue, AskingPc

\* Once an answer is accepted, the pairing stays in its stages.
LEMMA StageKeeps ==
    ASSUME IInv, [Next]_vars, authenticated
    PROVE  AcceptedInv'
<1>0. PICK s \in 1..Len(stream) : Welcome(s) /\ Stage(s)
  BY DEF IInv, PlaceInv, AcceptedInv
<1>1. CASE Server \/ Main \/ UNCHANGED vars
  <2>1. authenticated' = authenticated
    BY <1>1 DEF Server, ServerAuthenticates, ServerSendsHubItems, ServerIgnores, Main, MainContinues,
       Authentication, SetBusyAuthentication, SendMsgAuthentication, RequestSize, RequestTag, mainRest,
       sessionVars, vars
  <2>2. s \in 1..Len(stream') /\ Welcome(s)' /\ Stage(s)'
    BY <1>0, <1>1, OthersKeepStage
  <2> QED BY <2>1, <2>2 DEF AcceptedInv
<1>2. CASE RecvSocketData \/ RecvError \/ NetContinues
  <2>1. UNCHANGED <<stream, at>>
    BY <1>2, NetLeavesStream
  <2>2. s \in 1..Len(stream') /\ Welcome(s)'
    BY <1>0, <2>1 DEF Welcome
  <2>3. netPc \notin {"connect", "announce"}
    BY <1>0 DEF Stage, Accepting, HeaderDue, HeaderRead, BodyDue, HubLost, Decoded, AskingPc
  <2>4. \/ RecvSocketData \/ RecvWouldBlock \/ RecvError \/ SendMessageData \/ ThreadEnds \/ LoadTag
        \/ ClearBusy \/ SendMsgRequestHubItems \/ SetBusyHubItems \/ QueueHubRequest
        \/ ReadHeader
        \/ ReadBody \/ DropBody \/ IgnoreChunk
        \/ WriteTag \/ ClearBusyHub \/ Pair \/ RequestNextHeader
        \/ Shift
    BY <1>2, <2>3 DEF NetContinues, Process, ConnectToServer, AnnounceConnected, ConnectFails,
       AcceptAuthentication, RejectChunk, NetStep
  <2>5. Stage(s)'
    BY <1>0, <2>4, RecvKeepsStage, AskKeepsStage, ReadHeaderKeepsStage, ReadBodyKeepsStage,
       WriteKeepsStage, ShiftKeepsStage
  <2>6. authenticated'
    BY <2>4 DEF RecvSocketData, RecvWouldBlock, RecvError, SendMessageData, ThreadEnds, LoadTag,
       ClearBusy,
       SendMsgRequestHubItems, SetBusyHubItems, QueueHubRequest, ReadHeader, ReadBody, DropBody,
       IgnoreChunk, WriteTag, ClearBusyHub, Pair, RequestNextHeader, Shift, sessionVars
  <2> QED BY <2>2, <2>5, <2>6 DEF AcceptedInv
<1> QED BY <1>1, <1>2 DEF Next

\* Accepting it is the first of them.
LEMMA AcceptKeeps ==
    ASSUME IInv, AcceptAuthentication
    PROVE  AcceptedInv'
<1> USE DEF IInv, WireInv, PlaceInv
<1>1. /\ netPc = "process" /\ ~authenticated /\ netPc' = "authenticated" /\ authenticated'
      /\ UNCHANGED <<stream, at, base, waitFor, tag, chunk, tmpMessage, hubItems, sessionState>>
  BY DEF AcceptAuthentication, NetStep, managerVars, bufferVars, waitVars, serverVars
<1>2. PICK k \in HeaderHere : stream[k].code = AUTH_SUCCESS
  BY DEF AcceptAuthentication, Accepted
<1>3. k \in 1..Len(stream) /\ at[k] = base
  BY DEF HeaderHere
<1>4. Welcome(k)
  BY <1>2, <1>3 DEF AnswerInv, Welcome
<1>5. waitFor = HeaderSize
  BY <1>1 DEF NotAskedInv, NoChunkPc, RefusedInv
<1>6. chunk.size = HeaderSize
  BY <1>1 DEF BufferInv, NoChunkPc, RefusedInv
<1>7. tag \in {"none", "AUTHEN"} /\ tmpMessage = NoMessage /\ NotPaired
  BY <1>1 DEF RefusedInv, AcceptedInv
<1>8. Accepting(k)'
  BY <1>1, <1>3, <1>5, <1>6, <1>7 DEF Accepting, AskingPc, NotPaired
<1>9. Welcome(k)' /\ k \in 1..Len(stream')
  BY <1>1, <1>3, <1>4 DEF Welcome
<1> QED BY <1>1, <1>8, <1>9 DEF AcceptedInv, Stage

\* The steps that are left while no answer is accepted.
LEMMA RefusedSteps ==
    ASSUME IInv, [Next]_vars, ~authenticated, ~AcceptAuthentication
    PROVE  /\ \/ Server \/ Main
              \/ ConnectToServer \/ AnnounceConnected \/ ConnectFails
              \/ RecvSocketData \/ RecvWouldBlock \/ RecvError \/ SendMessageData \/ ThreadEnds
              \/ LoadTag \/ RejectChunk \/ WriteTag \/ Shift \/ UNCHANGED vars
           /\ ~authenticated'
           /\ UNCHANGED hubItems
           /\ sessionState' # "PAIRED"
<1>1. netPc \in NoChunkPc \cup {"loadTag", "process", "writeAuthen", "shift"}
  BY DEF IInv, PlaceInv, RefusedInv
<1>2. \/ Server \/ Main
      \/ ConnectToServer \/ AnnounceConnected \/ ConnectFails
      \/ RecvSocketData \/ RecvWouldBlock \/ RecvError \/ SendMessageData \/ ThreadEnds
      \/ LoadTag \/ RejectChunk \/ WriteTag \/ Shift \/ UNCHANGED vars
  BY <1>1 DEF Next, NetContinues, Process, ClearBusy, SendMsgRequestHubItems, SetBusyHubItems,
     QueueHubRequest, ReadHeader, ReadBody, DropBody, IgnoreChunk, ClearBusyHub, Pair,
     RequestNextHeader, NetStep, NoChunkPc
<1>3. sessionState # "PAIRED"
  BY DEF IInv, PlaceInv, AcceptedInv, NotPaired
<1>4. /\ UNCHANGED <<authenticated, hubItems>>
      /\ sessionState' \in {sessionState, "CONNECTED", "FAILED"}
  BY <1>2 DEF Server, ServerAuthenticates, ServerSendsHubItems, ServerIgnores, Main, MainContinues,
     Authentication, SetBusyAuthentication, SendMsgAuthentication, RequestSize, RequestTag, mainRest,
     ConnectToServer, AnnounceConnected, ConnectFails, RecvSocketData, RecvWouldBlock, RecvError,
     SendMessageData, ThreadEnds,
     LoadTag, RejectChunk, WriteTag, Shift, managerVars, sessionVars, vars
<1> QED BY <1>2, <1>3, <1>4

LEMMA AcceptedKeeps == IInv /\ [Next]_vars => AcceptedInv'
<1> SUFFICES ASSUME IInv, [Next]_vars, ~authenticated, ~AcceptAuthentication PROVE AcceptedInv'
  BY StageKeeps, AcceptKeeps
<1>1. ~authenticated' /\ UNCHANGED hubItems /\ sessionState' # "PAIRED"
  BY RefusedSteps
<1>2. NotPaired
  BY DEF IInv, PlaceInv, AcceptedInv
<1> QED BY <1>1, <1>2 DEF AcceptedInv, NotPaired

\* What the server writes leaves the offsets of the messages before it.
LEMMA ServerKeepsAt ==
    ASSUME TypeOK, Layout, Server
    PROVE  \A k \in 1..Len(at) : k \in 1..Len(at') /\ at'[k] = at[k]
<1>0. Len(at) \in Nat
  BY DEF TypeOK
<1>1. CASE ServerAuthenticates
  <2>1. PICK answer \in AuthAnswers : Answer(answer, 0)
    BY <1>1 DEF ServerAuthenticates
  <2>2. answer \in Nat /\ 0 \in Nat
    BY AnswersAssumption DEF AUTH_SUCCESS, AUTH_FAILED
  <2>3. Len(at') = Len(at) + 1 /\ \A k \in 1..Len(at) : at'[k] = at[k]
    BY <2>1, <2>2, AnswerAppends
  <2> QED BY <1>0, <2>3
<1>2. CASE ServerSendsHubItems
  <2>1. Answer(HUB_ITEMS, HubSize) /\ HUB_ITEMS \in Nat /\ HubSize \in Nat
    BY <1>2 DEF ServerSendsHubItems, HUB_ITEMS
  <2>2. Len(at') = Len(at) + 1 /\ \A k \in 1..Len(at) : at'[k] = at[k]
    BY <2>1, AnswerAppends
  <2> QED BY <1>0, <2>2
<1>3. CASE ServerIgnores
  BY <1>3 DEF ServerIgnores
<1> QED BY <1>1, <1>2, <1>3 DEF Server

\* Before an answer is accepted, the chunk shifted out is a whole message.
LEMMA ShiftsMessage ==
    ASSUME IInv, Shift, ~authenticated
    PROVE  \E j \in 1..Len(at) : base + chunk.size = at[j]
<1> USE DEF IInv, WireInv, PlaceInv
<1>1. PICK j \in 1..Len(at) : base = at[j]
  BY DEF RefusedInv
<1>2. 0 < chunk.size /\ chunk.size <= received /\ base + received = delivered /\ delivered <= StreamLength
  BY DEF Shift, BufferInv, NoChunkPc
<1>3. chunk.size = HeaderSize
  BY <1>2 DEF RefusedInv
<1>4. /\ Len(stream) \in Nat /\ Len(at) = Len(stream) + 1 /\ StreamLength = at[Len(stream) + 1]
      /\ base \in Nat /\ received \in Nat /\ delivered \in Nat
  BY Reaches DEF TypeOK
<1>5. j # Len(stream) + 1
  BY <1>1, <1>2, <1>3, <1>4
<1>6. j \in 1..Len(stream) /\ j + 1 \in 1..Len(at)
  BY <1>1, <1>4, <1>5
<1>7. at[j + 1] = at[j] + HeaderSize
  BY <1>6, OnlyHeaders
<1> QED BY <1>1, <1>3, <1>6, <1>7

LEMMA RefusedKeeps == IInv /\ [Next]_vars => RefusedInv'
<1> SUFFICES ASSUME IInv, [Next]_vars, ~authenticated, ~AcceptAuthentication PROVE RefusedInv'
  <2>1. ASSUME authenticated \/ AcceptAuthentication, IInv, [Next]_vars
        PROVE  authenticated'
    <3>1. CASE authenticated
      BY <2>1, <3>1 DEF Next, Server, ServerAuthenticates, ServerSendsHubItems, ServerIgnores, Main,
         MainContinues, Authentication, SetBusyAuthentication, SendMsgAuthentication, RequestSize,
         RequestTag, mainRest, RecvSocketData, NetContinues, ConnectToServer, AnnounceConnected,
         ConnectFails, RecvWouldBlock, RecvError, SendMessageData, ThreadEnds, Process, LoadTag,
         AcceptAuthentication,
         ClearBusy, SendMsgRequestHubItems, SetBusyHubItems, QueueHubRequest, RejectChunk, ReadHeader,
         ReadBody, ClearBusyHub, Pair, RequestNextHeader, DropBody, IgnoreChunk, WriteTag, Shift,
         sessionVars, vars
    <3>2. CASE AcceptAuthentication
      BY <3>2 DEF AcceptAuthentication
    <3> QED BY <2>1, <3>1, <3>2
  <2> QED BY <2>1 DEF RefusedInv
<1> USE DEF IInv, WireInv, PlaceInv, NetStep, managerVars, sessionVars, bufferVars, waitVars, serverVars
<1>0. /\ netPc \in NoChunkPc \cup {"loadTag", "process", "writeAuthen", "shift"}
      /\ waitFor \in {0, HeaderSize}
      /\ chunk.size \in {0, HeaderSize}
      /\ tag \in {"none", "AUTHEN"}
      /\ chunk.tag \in {"none", "AUTHEN"}
      /\ tmpMessage = NoMessage
  BY DEF RefusedInv
<1>1. PICK j \in 1..Len(at) : base = at[j]
  BY DEF RefusedInv
<1>2. CASE Server
  <2>1. UNCHANGED <<netPc, base, waitFor, chunk, tag, tmpMessage>>
    BY <1>2 DEF Server, ServerAuthenticates, ServerSendsHubItems, ServerIgnores
  <2>2. j \in 1..Len(at') /\ at'[j] = at[j]
    BY <1>2, ServerKeepsAt
  <2> QED BY <1>0, <1>1, <2>1, <2>2 DEF RefusedInv
<1>3. CASE Main
  <2>1. /\ UNCHANGED <<at, netPc, base, chunk, tmpMessage>>
        /\ waitFor' \in {waitFor, HeaderSize}
        /\ tag' \in {tag, "AUTHEN"}
    BY <1>3 DEF Main, MainContinues, Authentication, SetBusyAuthentication, SendMsgAuthentication,
       RequestSize, RequestTag, MainStep, mainRest
  <2> QED BY <1>0, <1>1, <2>1 DEF RefusedInv
<1>4. CASE ConnectToServer \/ AnnounceConnected \/ ConnectFails \/ RecvWouldBlock \/ RecvError
           \/ SendMessageData \/ ThreadEnds
  <2>1. UNCHANGED <<at, base, chunk, tmpMessage, waitFor, tag>> /\ netPc' \in NoChunkPc
    BY <1>4 DEF ConnectToServer, AnnounceConnected, ConnectFails, RecvWouldBlock, RecvError,
       SendMessageData, ThreadEnds,
       NoChunkPc
  <2> QED BY <1>0, <1>1, <2>1 DEF RefusedInv
<1>5. CASE RecvSocketData
  <2>1. PICK n \in 1..BufferSize : CutChunk(received + n)
    BY <1>5 DEF RecvSocketData
  <2>2. UNCHANGED <<at, base, tmpMessage, waitFor, tag>>
    BY <1>5 DEF RecvSocketData
  <2>3. received + n \in Nat /\ waitFor \in Nat
    BY DEF TypeOK
  <2>4. \/ netPc' = "loadTag" /\ chunk' = [size |-> waitFor, tag |-> "none"]
        \/ netPc' = "send" /\ chunk' = [size |-> 0, tag |-> "none"]
    BY <2>1, <2>3, CutChunkResult DEF NoChunk
  <2>5. chunk'.size \in {0, waitFor} /\ chunk'.tag = "none"
    BY <2>4
  <2> QED BY <1>0, <1>1, <2>2, <2>4, <2>5 DEF RefusedInv, NoChunkPc
<1>6. CASE LoadTag
  <2>1. /\ UNCHANGED <<at, base, tmpMessage, waitFor, tag>> /\ netPc' = "process"
        /\ chunk'.tag = tag /\ chunk'.size = chunk.size
    BY <1>6 DEF LoadTag, TypeOK
  <2> QED BY <1>0, <1>1, <2>1 DEF RefusedInv
<1>7. CASE RejectChunk
  <2>1. UNCHANGED <<at, base, chunk, tmpMessage, tag>> /\ netPc' = "writeAuthen" /\ waitFor' = HeaderSize
    BY <1>7, Writes DEF RejectChunk, RequestForData
  <2> QED BY <1>0, <1>1, <2>1 DEF RefusedInv
<1>8. CASE WriteTag
  <2>1. UNCHANGED <<at, base, chunk, tmpMessage, waitFor>> /\ netPc' = "shift" /\ tag' = "AUTHEN"
    BY <1>0, <1>8, Writes DEF WriteTag, NoChunkPc
  <2> QED BY <1>0, <1>1, <2>1 DEF RefusedInv
<1>9. CASE Shift
  <2>1. UNCHANGED <<at, tmpMessage, waitFor, tag>> /\ base' = base + chunk.size
        /\ CutChunk(received - chunk.size)
    BY <1>9 DEF Shift
  <2>2. received - chunk.size \in Nat /\ waitFor \in Nat
    <3>1. received \in Nat /\ chunk.size \in Nat /\ waitFor \in Nat
      BY DEF TypeOK
    <3>2. chunk.size <= received
      BY <1>9 DEF Shift, BufferInv, NoChunkPc
    <3> QED BY <3>1, <3>2
  <2>3. \/ netPc' = "loadTag" /\ chunk' = [size |-> waitFor, tag |-> "none"]
        \/ netPc' = "send" /\ chunk' = [size |-> 0, tag |-> "none"]
    BY <2>1, <2>2, CutChunkResult DEF NoChunk
  <2>4. chunk'.size \in {0, waitFor} /\ chunk'.tag = "none"
    BY <2>3
  <2>5. \E i \in 1..Len(at) : base + chunk.size = at[i]
    BY <1>9, ShiftsMessage
  <2> QED BY <1>0, <2>1, <2>3, <2>4, <2>5 DEF RefusedInv, NoChunkPc
<1>10. CASE UNCHANGED vars
  BY <1>10 DEF vars, RefusedInv
<1> QED BY RefusedSteps, <1>2, <1>3, <1>4, <1>5, <1>6, <1>7, <1>8, <1>9, <1>10

\* A chunk is cut as soon as it is there, so less is left than is waited for, or
\* nothing was ever waited for and one header is all there is.
LEMMA CutLeavesRoom ==
    ASSUME WireInv, NotAskedInv, waitFor \in {0, HeaderSize, HubSize},
           NEW n \in Nat, n <= StreamLength, CutChunk(n), netPc' \in NoChunkPc
    PROVE  n <= HeaderSize \/ n < HubSize
<1>1. waitFor \in Nat /\ StreamLength \in Nat
  BY Reaches DEF WireInv, TypeOK
<1>2. n < waitFor \/ waitFor = 0
  <2>1. \/ n >= waitFor /\ waitFor # 0 /\ netPc' = "loadTag"
        \/ n < waitFor \/ waitFor = 0
    BY <1>1, CutChunkResult
  <2> QED BY <2>1 DEF NoChunkPc
<1>3. waitFor = 0 => StreamLength <= HeaderSize
  BY OneHeader
<1> QED BY <1>1, <1>2, <1>3

LEMMA RoomKeeps == IInv /\ [Next]_vars => RoomInv'
<1> SUFFICES ASSUME IInv, [Next]_vars, netPc' \in NoChunkPc
             PROVE  received' <= HeaderSize \/ received' < HubSize
  BY DEF RoomInv
<1> USE DEF IInv, PlaceInv, NetStep, managerVars, sessionVars, bufferVars
<1>0. /\ waitFor \in {0, HeaderSize, HubSize}
      /\ base \in Nat /\ received \in Nat /\ delivered \in Nat /\ StreamLength \in Nat
      /\ base + received = delivered /\ delivered <= StreamLength
  BY WaitSizes, Reaches DEF WireInv, TypeOK, BufferInv
<1>1. CASE RecvSocketData
  <2>1. PICK n \in 1..BufferSize :
          delivered + n <= StreamLength /\ received' = received + n /\ CutChunk(received + n)
    BY <1>1 DEF RecvSocketData
  <2>2. received + n \in Nat /\ received + n <= StreamLength
    BY <1>0, <2>1
  <2> QED BY <1>0, <2>1, <2>2, CutLeavesRoom
<1>2. CASE Shift
  <2>1. received' = received - chunk.size /\ CutChunk(received - chunk.size)
    BY <1>2 DEF Shift
  <2>2. chunk.size \in Nat /\ chunk.size <= received
    BY <1>2 DEF Shift, WireInv, TypeOK, BufferInv, NoChunkPc
  <2>3. received - chunk.size \in Nat /\ received - chunk.size <= StreamLength
    BY <1>0, <2>2
  <2> QED BY <1>0, <2>1, <2>3, CutLeavesRoom
<1>3. CASE ~RecvSocketData /\ ~Shift
  <2>1. received' = received /\ netPc \in NoChunkPc
    BY <1>3, Writes DEF Next, Server, ServerAuthenticates, ServerSendsHubItems, ServerIgnores, Main,
       MainContinues, Authentication, SetBusyAuthentication, SendMsgAuthentication, RequestSize,
       RequestTag, mainRest, NetContinues, ConnectToServer, AnnounceConnected, ConnectFails,
       RecvWouldBlock, RecvError, SendMessageData, ThreadEnds, Process, LoadTag,
       AcceptAuthentication, ClearBusy,
       SendMsgRequestHubItems, SetBusyHubItems, QueueHubRequest, RejectChunk, ReadHeader, ReadBody,
       ClearBusyHub, Pair, RequestNextHeader, DropBody, IgnoreChunk, WriteTag, RequestForData,
       NoChunkPc, vars
  <2> QED BY <2>1 DEF RoomInv
<1> QED BY <1>1, <1>2, <1>3

\* Nothing is waited for only until the first RequestForData.
LEMMA NotAskedSteps ==
    ASSUME IInv, [Next]_vars, waitFor' = 0
    PROVE  /\ waitFor = 0
           /\ \/ Server
              \/ Authentication \/ SetBusyAuthentication \/ SendMsgAuthentication
              \/ ConnectToServer \/ AnnounceConnected \/ ConnectFails
              \/ RecvSocketData \/ RecvWouldBlock \/ RecvError \/ SendMessageData \/ ThreadEnds
              \/ UNCHANGED vars
<1> USE DEF IInv, PlaceInv
<1>1. ASSUME ReadHeader
      PROVE  FALSE
  <2>1. authenticated
    BY <1>1 DEF ReadHeader
  <2>2. PICK s \in 1..Len(stream) : Welcome(s) /\ Stage(s)
    BY <2>1 DEF AcceptedInv
  <2>3. waitFor' = HubSize
    BY <1>1, <2>2, ReadHeaderKeepsStage
  <2> QED BY <2>3
<1>2. waitFor = 0
  BY <1>1 DEF Next, Server, ServerAuthenticates, ServerSendsHubItems, ServerIgnores, Main,
     MainContinues, Authentication, SetBusyAuthentication, SendMsgAuthentication, RequestSize,
     RequestTag, RecvSocketData, NetContinues, ConnectToServer, AnnounceConnected, ConnectFails,
     RecvWouldBlock, RecvError, SendMessageData, ThreadEnds, Process, LoadTag,
     AcceptAuthentication, ClearBusy,
     SendMsgRequestHubItems, SetBusyHubItems, QueueHubRequest, RejectChunk, ReadBody,
     ClearBusyHub, Pair, RequestNextHeader, DropBody, IgnoreChunk, WriteTag, Shift, RequestForData,
     waitVars, vars
<1>3. netPc \in NoChunkPc /\ mainPc # "setTag" /\ ~RequestSize
  BY <1>2 DEF NotAskedInv, RequestSize
<1>4. ~Process
  BY <1>3, Writes DEF Process, LoadTag, AcceptAuthentication, ClearBusy, SendMsgRequestHubItems,
     SetBusyHubItems, QueueHubRequest, RejectChunk, ReadHeader, ReadBody, ClearBusyHub, Pair,
     RequestNextHeader, DropBody, IgnoreChunk, WriteTag, Shift, NetStep, NoChunkPc
<1>5. ~RequestTag
  BY <1>3 DEF RequestTag, MainStep
<1> QED BY <1>2, <1>3, <1>4, <1>5 DEF Next, Main, MainContinues, NetContinues

LEMMA NotAskedKeeps == IInv /\ [Next]_vars => NotAskedInv'
<1> SUFFICES ASSUME IInv, [Next]_vars, waitFor' = 0 PROVE NotAskedInv'
  BY DEF NotAskedInv
<1> USE DEF IInv, WireInv, PlaceInv, NetStep, MainStep, mainRest, managerVars, sessionVars, serverVars
<1>0. /\ ~authenticated
      /\ netPc \in NoChunkPc
      /\ Len(Requested) <= 1
      /\ mainPc \in {"idle", "setBusy", "addMessage"} => Requested = << >>
      /\ mainPc # "setTag"
      /\ waitFor = 0
  BY NotAskedSteps DEF NotAskedInv
<1>1. CASE Server
  <2>1. Requested' = Requested /\ UNCHANGED <<authenticated, netPc, mainPc>>
    BY <1>1, ServerStep
  <2> QED BY <1>0, <2>1 DEF NotAskedInv
<1>2. CASE Authentication \/ SetBusyAuthentication
  <2>1. /\ UNCHANGED <<authenticated, netPc, queue, toServer, serverLog>>
        /\ mainPc \in {"idle", "setBusy"} /\ mainPc' \in {"setBusy", "addMessage"}
    BY <1>2 DEF Authentication, SetBusyAuthentication
  <2>2. Requested' = Requested
    BY <2>1 DEF Requested
  <2> QED BY <1>0, <2>1, <2>2 DEF NotAskedInv
<1>3. CASE SendMsgAuthentication
  <2>1. /\ AddMessageToQueue(AUTHENTICATION) /\ mainPc = "addMessage" /\ mainPc' = "setWait"
        /\ UNCHANGED <<authenticated, netPc, toServer, serverLog>>
    BY <1>3 DEF SendMsgAuthentication
  <2>3. Len(Requested') \in {Len(Requested), Len(Requested) + 1}
    BY <1>3, DialogAsks
  <2>4. Len(Requested) = 0
    BY <1>0, <2>1
  <2> QED BY <1>0, <2>1, <2>3, <2>4 DEF NotAskedInv
<1>4. CASE ConnectToServer \/ AnnounceConnected \/ ConnectFails \/ RecvWouldBlock \/ RecvError
           \/ UNCHANGED vars
  <2>1. UNCHANGED <<authenticated, mainPc, queue, toServer, serverLog>> /\ netPc' \in NoChunkPc
    BY <1>0, <1>4 DEF ConnectToServer, AnnounceConnected, ConnectFails, RecvWouldBlock, RecvError,
       NoChunkPc, vars
  <2>2. Requested' = Requested
    BY <2>1 DEF Requested
  <2> QED BY <1>0, <2>1, <2>2 DEF NotAskedInv
<1>5. CASE RecvSocketData
  <2>1. PICK n \in 1..BufferSize : CutChunk(received + n)
    BY <1>5 DEF RecvSocketData
  <2>2. UNCHANGED <<authenticated, mainPc, queue, toServer, serverLog>>
    BY <1>5 DEF RecvSocketData
  <2>3. netPc' = "send"
    BY <1>0, <2>1 DEF CutChunk, ChunkReady
  <2>4. Requested' = Requested
    BY <2>2 DEF Requested
  <2> QED BY <1>0, <2>2, <2>3, <2>4 DEF NotAskedInv, NoChunkPc
<1>6. CASE SendMessageData \/ ThreadEnds
  <2>1. UNCHANGED <<authenticated, mainPc>> /\ netPc' \in {"recv", "end", "ended"}
    BY <1>6 DEF SendMessageData, ThreadEnds
  <2>2. Requested' = Requested
    BY <1>6, SendKeepsRequested DEF SendMessageData, ThreadEnds
  <2> QED BY <1>0, <2>1, <2>2 DEF NotAskedInv, NoChunkPc
<1> QED BY NotAskedSteps, <1>1, <1>2, <1>3, <1>4, <1>5, <1>6

LEMMA InitPlace == Init => PlaceInv
<1> SUFFICES ASSUME Init PROVE PlaceInv
  OBVIOUS
<1>1. NotAskedInv
  <2>1. Requested = << >>
    BY DEF Init, Requested
  <2> QED BY <2>1 DEF Init, NotAskedInv, NoChunkPc
<1>2. RefusedInv
  <2>1. 1 \in 1..Len(at) /\ base = at[1]
    BY DEF Init
  <2> QED BY <2>1 DEF Init, RefusedInv, NoChunkPc, NoChunk
<1>3. RoomInv /\ AcceptedInv
  BY DEF Init, RoomInv, AcceptedInv, NotPaired
<1> QED BY <1>1, <1>2, <1>3 DEF PlaceInv

LEMMA PlaceKeeps == IInv /\ [Next]_vars => PlaceInv'
  BY NotAskedKeeps, RoomKeeps, RefusedKeeps, AcceptedKeeps DEF PlaceInv

-----------------------------------------------------------------------------
(* The theorems.                                                           *)

\* Both layers hold in every state the two threads and the server can reach.
THEOREM Invariance == Spec => []IInv
<1>1. Init => IInv
  BY InitWire, InitPlace DEF IInv
<1>2. IInv /\ [Next]_vars => IInv'
  BY WireKeeps, PlaceKeeps DEF IInv
<1> QED BY <1>1, <1>2, PTL DEF Spec

\* The variables have the types the code gives them.
THEOREM SessionTypes == Spec => []TypeOK
<1>1. IInv => TypeOK
  BY DEF IInv, WireInv
<1> QED BY Invariance, <1>1, PTL

\* The receive buffer has no gap, and never less than the chunk being read.
THEOREM BufferIsContiguous == Spec => []BufferContiguous
<1>1. ASSUME IInv
      PROVE  BufferContiguous
  <2>1. received \in Nat /\ BufferInv
    BY <1>1 DEF IInv, WireInv, TypeOK
  <2> QED BY <2>1 DEF BufferInv, BufferContiguous, NoChunk
<1> QED BY Invariance, <1>1, PTL

\* recv, which is always handed BUFFERSIZE bytes, never writes behind the pool: what
\* is left in it is less than what is waited for, and before anything is waited for
\* the server has no more to say than one header.
THEOREM PoolIsLargeEnough == Spec => []PoolBound
<1>1. ASSUME IInv
      PROVE  PoolBound
  <2>1. netPc = "recv" => received <= HeaderSize \/ received < HubSize
    BY <1>1 DEF IInv, PlaceInv, RoomInv, NoChunkPc
  <2>2. received \in Nat
    BY <1>1 DEF IInv, WireInv, TypeOK
  <2> QED BY <2>1, <2>2, PoolAssumption DEF PoolBound
<1> QED BY Invariance, <1>1, PTL

\* The authentications can be counted.
LEMMA CountType ==
    ASSUME TypeOK
    PROVE  /\ IsFiniteSet({i \in 1..Len(Requested) : Requested[i] = AUTHENTICATION})
           /\ Authentications \in Nat
<1> DEFINE places == {i \in 1..Len(Requested) : Requested[i] = AUTHENTICATION}
<1>1. Requested \in Seq(Requests) /\ Len(Requested) \in Nat
  BY RequestedType
<1>2. IsFiniteSet(1..Len(Requested))
  BY <1>1, FS_Interval
<1>3. places \subseteq 1..Len(Requested)
  OBVIOUS
<1>4. IsFiniteSet(places) /\ Cardinality(places) \in Nat
  <2> HIDE DEF places
  <2> QED BY <1>2, <1>3, FS_Subset, FS_CardinalityType
<1> QED BY <1>4 DEF Authentications

\* A request more is an authentication more, or it is not one.
LEMMA CountRequest ==
    ASSUME TypeOK, NEW code \in Requests, Requested' = Append(Requested, code)
    PROVE  /\ Authentications \in Nat
           /\ code = AUTHENTICATION => Authentications' = Authentications + 1
           /\ code # AUTHENTICATION => Authentications' = Authentications
<1> DEFINE places == {i \in 1..Len(Requested) : Requested[i] = AUTHENTICATION}
           n == Len(Requested) + 1
<1>1. /\ Requested \in Seq(Requests) /\ Len(Requested) \in Nat
      /\ Len(Requested') = n /\ Requested'[n] = code
      /\ \A i \in 1..Len(Requested) : Requested'[i] = Requested[i]
  BY RequestedType, AppendProperties
<1>2. IsFiniteSet(places) /\ Authentications \in Nat
  BY CountType
<1>3. n \notin places
  BY <1>1
<1>4. places' = IF code = AUTHENTICATION THEN places \cup {n} ELSE places
  BY <1>1
<1>5. Authentications = Cardinality(places) /\ Authentications' = Cardinality(places')
  BY DEF Authentications
<1> HIDE DEF places, n
<1>6. Cardinality(places \cup {n}) = Cardinality(places) + 1
  BY <1>2, <1>3, FS_AddElement
<1> QED BY <1>2, <1>4, <1>5, <1>6

\* Only the dialog asks for authentications, and a session that is to end is never
\* told to go on.
LEMMA OthersKeepAsked ==
    ASSUME IInv, [Next]_vars, ~SendMsgAuthentication
    PROVE  /\ Requested' = Requested \/ Requested' = Append(Requested, HUB_REQUEST)
           /\ asked' = asked
           /\ kill => kill'
<1>0. TypeOK /\ UpInv
  BY DEF IInv, WireInv
<1>1. asked' = asked /\ (kill => kill')
  <2>1. CASE RecvError
    BY <2>1 DEF RecvError
  <2>2. CASE ~RecvError
    <3>1. UNCHANGED <<asked, kill>>
      BY <2>2, StepCases DEF ServerAuthenticates, ServerSendsHubItems, ServerIgnores, Authentication,
       SetBusyAuthentication, RequestSize, RequestTag, ConnectToServer, AnnounceConnected, ConnectFails,
       RecvSocketData, RecvWouldBlock, SendMessageData, ThreadEnds, LoadTag,
       AcceptAuthentication, ClearBusy, SendMsgRequestHubItems, SetBusyHubItems, QueueHubRequest,
       RejectChunk, ReadHeader, ReadBody, ClearBusyHub, Pair, RequestNextHeader, DropBody, IgnoreChunk,
       WriteTag, Shift, mainRest, sessionVars, vars
    <3> QED BY <3>1
  <2> QED BY <2>1, <2>2
<1>2. CASE QueueHubRequest
  <2>1. /\ netPc = "queueHub" /\ AddMessageToQueue(HUB_REQUEST) /\ HUB_REQUEST \in Requests
        /\ UNCHANGED <<toServer, serverLog>>
    BY <1>2 DEF QueueHubRequest, serverVars, Requests
  <2>2. connectState = "CONNECTED" /\ ~kill
    BY <1>0, <2>1 DEF UpInv
  <2> QED BY <1>0, <1>1, <2>1, <2>2, AddKeepsRequested
<1>3. CASE Server
  BY <1>0, <1>1, <1>3, ServerStep
<1>4. CASE SendMessageData \/ ThreadEnds
  BY <1>0, <1>1, <1>4, SendKeepsRequested DEF SendMessageData, ThreadEnds
<1>5. CASE ~QueueHubRequest /\ ~Server /\ ~SendMessageData /\ ~ThreadEnds
  <2>1. UNCHANGED <<queue, toServer, serverLog>>
    BY <1>5, StepCases DEF Server, Authentication,
     SetBusyAuthentication, RequestSize, RequestTag, ConnectToServer, AnnounceConnected, ConnectFails,
     RecvSocketData, RecvWouldBlock, RecvError, LoadTag,
     AcceptAuthentication, ClearBusy, SendMsgRequestHubItems, SetBusyHubItems,
     RejectChunk, ReadHeader, ReadBody, ClearBusyHub, Pair, RequestNextHeader, DropBody, IgnoreChunk,
     WriteTag, Shift, mainRest, sessionVars, serverVars, vars
  <2> QED BY <1>1, <2>1 DEF Requested
<1> QED BY <1>2, <1>3, <1>4, <1>5

LEMMA AskedKeeps ==
    ASSUME IInv, AuthenticationNotDropped, [Next]_vars
    PROVE  AuthenticationNotDropped'
<1> USE DEF AuthenticationNotDropped
<1>0. TypeOK /\ UpInv /\ asked \in Nat
  BY DEF IInv, WireInv, TypeOK
<1>1. Authentications \in Nat
  BY <1>0, CountType
<1>2. CASE SendMsgAuthentication
  <2>1. asked' = asked + 1 /\ kill' = kill
    BY <1>2 DEF SendMsgAuthentication, mainRest
  <2>2. CASE kill /\ Requested' = Requested
    BY <1>0, <1>1, <2>1, <2>2 DEF Authentications
  <2>3. CASE ~kill /\ Requested' = Append(Requested, AUTHENTICATION)
    <3>1. Authentications' = Authentications + 1
      BY <1>0, <2>3, CountRequest DEF Requests
    <3> QED BY <1>0, <1>1, <2>1, <2>3, <3>1
  <2> QED BY <1>0, <1>2, <2>2, <2>3, DialogAsks
<1>3. CASE ~SendMsgAuthentication
  <2>1. /\ Requested' = Requested \/ Requested' = Append(Requested, HUB_REQUEST)
        /\ asked' = asked
        /\ kill => kill'
    BY <1>3, OthersKeepAsked
  <2>2. Authentications' = Authentications
    <3>1. CASE Requested' = Requested
      BY <3>1 DEF Authentications
    <3>2. CASE Requested' = Append(Requested, HUB_REQUEST)
      BY <1>0, <3>2, CountRequest DEF Requests, AUTHENTICATION, HUB_REQUEST
    <3> QED BY <2>1, <3>1, <3>2
  <2>3. kill \in BOOLEAN
    BY <1>0 DEF TypeOK
  <2> QED BY <2>1, <2>2, <2>3
<1> QED BY <1>2, <1>3

\* Every authentication the dialog asks for reaches the queue and is not lost from it, unless
\* recv has met an error: AddMessageToQueue lets it through, because the dialog waits for
\* SS_CONNECTED, which comes second, and nothing but the end of the thread takes
\* the connection's state back.
THEOREM AuthenticationKept == Spec => []AuthenticationNotDropped
<1>1. Init => AuthenticationNotDropped
  <2> SUFFICES ASSUME Init PROVE AuthenticationNotDropped
    OBVIOUS
  <2>1. Requested = << >> /\ asked = 0
    BY DEF Init, Requested
  <2>2. {i \in 1..Len(Requested) : Requested[i] = AUTHENTICATION} = {}
    BY <2>1
  <2> QED BY <2>1, <2>2, FS_EmptySet DEF AuthenticationNotDropped, Authentications
<1>2. IInv /\ AuthenticationNotDropped /\ [Next]_vars => AuthenticationNotDropped'
  BY AskedKeeps
<1> QED BY <1>1, <1>2, Invariance, PTL DEF Spec

\* The hub items are asked for once at most, and only behind an authentication that
\* the server has accepted, however often the dialog authenticates.
THEOREM HandshakeInOrder == Spec => []HandshakeOrder
<1>1. ASSUME IInv
      PROVE  HandshakeOrder
  <2> USE <1>1 DEF IInv, WireInv
  <2> DEFINE hubRequests == {i \in 1..Len(Requested) : Requested[i] = HUB_REQUEST}
  <2>1. \A i, j \in hubRequests : i = j
    BY DEF RequestInv
  <2>2. ASSUME NEW i \in hubRequests
        PROVE  i # 1 /\ Requested[1] = AUTHENTICATION /\ serverAuth
    <3>1. serverAuth
      BY <2>2 DEF RequestInv, HubAsked
    <3>2. Len(serverLog) > 0 /\ serverLog[1] = AUTHENTICATION /\ Len(serverLog) \in Nat
      BY <3>1 DEF RequestInv, TypeOK
    <3>3. Requested[1] = AUTHENTICATION
      BY <3>2, RequestedType
    <3> QED BY <3>1, <3>3 DEF AUTHENTICATION, HUB_REQUEST
  <2>3. authenticated => serverAuth
    BY DEF RequestInv
  <2> QED BY <2>1, <2>2, <2>3 DEF HandshakeOrder
<1> QED BY Invariance, <1>1, PTL

\* When the dialog sees SS_PAIRED, the hub items are those of the server's one
\* message, decoded from its first byte to its last: the race on g_waitForSize and
\* g_msgTag can keep the client from pairing, but not make it pair with other bytes.
THEOREM PairsWithItems == Spec => []PairedWithItems
<1>1. ASSUME IInv, sessionState = "PAIRED"
      PROVE  /\ serverAuth
             /\ \E k \in 1..Len(stream) :
                  /\ stream[k].code = HUB_ITEMS
                  /\ hubItems = <<[from |-> at[k] + HeaderSize, size |-> stream[k].size]>>
  <2> USE <1>1 DEF IInv, PlaceInv
  <2>1. authenticated
    BY DEF AcceptedInv, NotPaired
  <2>2. PICK s \in 1..Len(stream) : Welcome(s) /\ Stage(s)
    BY <2>1 DEF AcceptedInv
  <2>3. Decoded(s)
    BY <2>2 DEF Stage, Accepting, HeaderDue, HeaderRead, BodyDue, HubLost, NotPaired
  <2>4. /\ Len(stream) = s + 1 /\ Len(stream) \in Nat
        /\ stream[s + 1] = [code |-> HUB_ITEMS, size |-> HubSize]
    BY <2>2, <2>3, Around DEF Decoded
  <2>5. s + 1 \in 1..Len(stream) /\ stream[s + 1].code = HUB_ITEMS /\ stream[s + 1].size = HubSize
    BY <2>4
  <2>6. serverAuth
    BY <2>1 DEF WireInv, RequestInv
  <2> QED BY <2>3, <2>5, <2>6 DEF Decoded
<1> QED BY Invariance, <1>1, PTL DEF PairedWithItems

-----------------------------------------------------------------------------
(* The refinement of PairingProtocol.                                      *)

\* What the dialog is shown follows the network thread's connection, and the main
\* thread is in Authentication only once it was shown that the connection is up.
ShownInv ==
    /\ netPc \in {"connect", "announce"} => sessionState = "CONNECTING"
    /\ netPc = "failed" => sessionState = "FAILED"
    /\ netPc \notin {"connect", "announce", "failed"} => sessionState \in {"CONNECTED", "PAIRED"}
    /\ mainPc # "idle" => netPc \notin {"connect", "announce", "failed"}

LEMMA ShownKeeps ==
    ASSUME TypeOK, UpInv, ShownInv, [Next]_vars
    PROVE  ShownInv'
<1>1. CASE ServerAuthenticates \/ ServerSendsHubItems \/ ServerIgnores \/ UNCHANGED vars
  <2>1. UNCHANGED <<netPc, sessionState, mainPc>>
    BY <1>1 DEF ServerAuthenticates, ServerSendsHubItems, ServerIgnores, managerVars, vars
  <2> QED BY <2>1 DEF ShownInv
<1>2. CASE Authentication \/ SetBusyAuthentication \/ SendMsgAuthentication \/ RequestSize \/ RequestTag
  <2>1. UNCHANGED <<netPc, sessionState>> /\ (mainPc = "idle" => sessionState = "CONNECTED")
    BY <1>2 DEF Authentication, AuthenticationNeeded, SetBusyAuthentication, SendMsgAuthentication,
       RequestSize, RequestTag, MainStep, mainRest
  <2> QED BY <2>1 DEF ShownInv
<1>3. CASE ConnectToServer \/ AnnounceConnected \/ ConnectFails
  <2>1. /\ mainPc' = mainPc
        /\ \/ netPc = "connect" /\ netPc' = "announce" /\ sessionState' = sessionState
           \/ netPc = "announce" /\ netPc' = "recv" /\ sessionState' = "CONNECTED"
           \/ netPc = "connect" /\ netPc' = "failed" /\ sessionState' = "FAILED"
    BY <1>3 DEF ConnectToServer, AnnounceConnected, ConnectFails, NetStep, managerVars
  <2> QED BY <2>1 DEF ShownInv
<1>4. CASE Pair
  <2>1. mainPc' = mainPc /\ netPc = "pair" /\ netPc' = "nextHeader" /\ sessionState' = "PAIRED"
    BY <1>4 DEF Pair, NetStep
  <2> QED BY <2>1 DEF ShownInv
<1>5. CASE RecvSocketData \/ RecvWouldBlock \/ RecvError \/ SendMessageData \/ ThreadEnds
           \/ LoadTag \/ AcceptAuthentication
           \/ ClearBusy \/ SendMsgRequestHubItems \/ SetBusyHubItems \/ QueueHubRequest \/ RejectChunk
           \/ ReadHeader \/ ReadBody \/ ClearBusyHub \/ RequestNextHeader \/ DropBody \/ IgnoreChunk
           \/ WriteTag \/ Shift
  <2>1. UNCHANGED <<mainPc, sessionState>>
    BY <1>5 DEF RecvSocketData, RecvWouldBlock, RecvError, SendMessageData, ThreadEnds, LoadTag,
       AcceptAuthentication, ClearBusy,
       SendMsgRequestHubItems, SetBusyHubItems, QueueHubRequest, RejectChunk, ReadHeader, ReadBody,
       ClearBusyHub, RequestNextHeader, DropBody, IgnoreChunk, WriteTag, Shift, managerVars
  <2>2. netPc \notin {"connect", "announce", "failed"}
    BY <1>5 DEF RecvSocketData, RecvWouldBlock, RecvError, SendMessageData, ThreadEnds, LoadTag,
       AcceptAuthentication, ClearBusy,
       SendMsgRequestHubItems, SetBusyHubItems, QueueHubRequest, RejectChunk, ReadHeader, ReadBody,
       ClearBusyHub, RequestNextHeader, DropBody, IgnoreChunk, WriteTag, Shift, NetStep, WriteOf
  <2>3. netPc' \notin {"connect", "announce", "failed"}
    BY <1>5, Writes DEF RecvSocketData, RecvWouldBlock, RecvError, SendMessageData, ThreadEnds,
       LoadTag, AcceptAuthentication,
       ClearBusy, SendMsgRequestHubItems, SetBusyHubItems, QueueHubRequest, RejectChunk, ReadHeader,
       ReadBody, ClearBusyHub, RequestNextHeader, DropBody, IgnoreChunk, WriteTag, Shift, NetStep,
       RequestForData, CutChunk
  <2> QED BY <2>1, <2>2, <2>3 DEF ShownInv
<1> QED BY StepCases, <1>1, <1>2, <1>3, <1>4, <1>5

\* The server has accepted the client when it has said so.
LEMMA SaysWelcome ==
    ASSUME WireInv
    PROVE  Protocol!Contains(stream, [code |-> AUTH_SUCCESS, size |-> 0]) <=> serverAuth
<1>1. ASSUME NEW k \in 1..Len(stream)
      PROVE  stream[k].code = AUTH_SUCCESS <=> stream[k] = [code |-> AUTH_SUCCESS, size |-> 0]
  <2>1. \/ stream[k] = [code |-> AUTH_FAILED, size |-> 0]
        \/ stream[k] = [code |-> AUTH_SUCCESS, size |-> 0]
        \/ stream[k] = [code |-> HUB_ITEMS, size |-> HubSize]
    BY DEF WireInv, AnswerInv
  <2> QED BY <2>1 DEF AUTH_SUCCESS, AUTH_FAILED, HUB_ITEMS
<1>2. /\ serverAuth => \E k \in 1..Len(stream) : stream[k].code = AUTH_SUCCESS
      /\ \A k \in 1..Len(stream) : stream[k].code = AUTH_SUCCESS => serverAuth
  BY DEF WireInv, AnswerInv
<1> QED BY <1>1, <1>2 DEF Protocol!Contains

\* What was decoded is nothing or the server's last message, its hub items.
BodiesKnown ==
    \/ hubItems = << >> /\ Bodies = << >>
    \/ /\ hubItems # << >>
       /\ Bodies = <<Len(stream)>>
       /\ Len(stream) \in 1..Len(stream)
       /\ stream[Len(stream)] = [code |-> HUB_ITEMS, size |-> HubSize]
       /\ Len(stream) - 1 \in 1..Len(stream)
       /\ stream[Len(stream) - 1].code = AUTH_SUCCESS

LEMMA BodiesAre == IInv => BodiesKnown
<1> SUFFICES ASSUME IInv PROVE BodiesKnown
  OBVIOUS
<1> USE DEF BodiesKnown
<1>1. CASE hubItems = << >>
  <2>1. Bodies = [i \in 1..0 |-> BodyOf(hubItems[i])]
    BY <1>1 DEF Bodies
  <2>2. Bodies = << >>
    BY <2>1, SMTT(30)
  <2> QED BY <1>1, <2>2
<1>2. CASE hubItems # << >>
  <2> USE DEF IInv, PlaceInv
  <2>1. PICK s \in 1..Len(stream) : Welcome(s) /\ Decoded(s)
    <3>1. authenticated
      BY <1>2 DEF AcceptedInv, NotPaired
    <3>2. PICK s \in 1..Len(stream) : Welcome(s) /\ Stage(s)
      BY <3>1 DEF AcceptedInv
    <3>3. Decoded(s)
      BY <1>2, <3>2 DEF Stage, Accepting, HeaderDue, HeaderRead, BodyDue, HubLost, NotPaired
    <3> QED BY <3>2, <3>3
  <2> DEFINE region == [from |-> at[s + 1] + HeaderSize, size |-> HubSize]
  <2>2. /\ Len(stream) = s + 1 /\ Len(stream) \in Nat
        /\ stream[s + 1] = [code |-> HUB_ITEMS, size |-> HubSize]
    BY <2>1, Around DEF Decoded
  <2>3. /\ s + 1 \in 1..Len(stream) /\ Len(stream) - 1 = s /\ stream[s].code = AUTH_SUCCESS
        /\ hubItems = <<region>>
    BY <2>1, <2>2 DEF Welcome, Decoded
  <2>4. region = [from |-> at[s + 1] + HeaderSize, size |-> stream[s + 1].size]
    BY <2>2
  <2>5. ASSUME NEW k \in 1..Len(stream),
               region = [from |-> at[k] + HeaderSize, size |-> stream[k].size]
        PROVE  k = s + 1
    <3>1. at[s + 1] + HeaderSize = at[k] + HeaderSize
      BY <2>5
    <3>2. k \in 1..Len(at) /\ s + 1 \in 1..Len(at) /\ at[k] \in Nat /\ at[s + 1] \in Nat
      <4>1. at \in Seq(Nat) /\ Len(at) = Len(stream) + 1
        BY DEF WireInv, TypeOK, Layout
      <4>2. k \in 1..Len(at) /\ s + 1 \in 1..Len(at)
        BY <2>2, <2>3, <4>1
      <4> QED BY <4>1, <4>2, ElementOfSeq
    <3>3. ~(at[k] < at[s + 1]) /\ ~(at[s + 1] < at[k])
      BY <3>1, <3>2
    <3> QED BY <2>2, <3>2, <3>3 DEF WireInv, Layout
  <2>6. BodyOf(region) = s + 1
    <3> HIDE DEF region
    <3> QED BY <2>3, <2>4, <2>5 DEF BodyOf
  <2>7. Bodies = <<s + 1>>
    <3> HIDE DEF region
    <3>1. Bodies = [i \in 1..1 |-> BodyOf(hubItems[i])] /\ hubItems[1] = region
      BY <2>3 DEF Bodies
    <3> QED BY <2>6, <3>1, SMTT(30)
  <2> QED BY <1>2, <2>2, <2>3, <2>7
<1> QED BY <1>1, <1>2

LEMMA BodiesAreThen == IInv' => BodiesKnown'
  BY BodiesAre, PTL

\* No step of the server changes which message was decoded: the hub items are the
\* last thing it has to say.
LEMMA ServerKeepsBodies ==
    ASSUME IInv, IInv', Server
    PROVE  Bodies' = Bodies
<1>1. hubItems' = hubItems
  BY DEF Server, ServerAuthenticates, ServerSendsHubItems, ServerIgnores, sessionVars
<1>2. CASE hubItems = << >>
  BY <1>1, <1>2, BodiesAre, BodiesAreThen DEF BodiesKnown
<1>3. CASE hubItems # << >>
  <2> DEFINE n == Len(stream)
             m == Len(stream')
  <2>1. Bodies = <<n>> /\ n \in 1..n /\ n - 1 \in 1..n /\ stream[n - 1].code = AUTH_SUCCESS
        /\ stream[n] = [code |-> HUB_ITEMS, size |-> HubSize]
    BY <1>3, BodiesAre DEF BodiesKnown
  <2>2. /\ Bodies' = <<m>> /\ m \in 1..m /\ m - 1 \in 1..m /\ stream'[m - 1].code = AUTH_SUCCESS
    BY <1>1, <1>3, BodiesAreThen DEF BodiesKnown
  <2>3. TypeOK /\ Layout /\ n \in Nat
    BY DEF IInv, WireInv, TypeOK
  <2>4. stream' = stream \/ (m = n + 1 /\ stream'[n] = stream[n])
    <3>1. CASE ServerAuthenticates
      <4>1. PICK answer \in AuthAnswers : Answer(answer, 0)
        BY <3>1 DEF ServerAuthenticates
      <4>2. answer \in Nat /\ 0 \in Nat
        BY AnswersAssumption DEF AUTH_SUCCESS, AUTH_FAILED
      <4> QED BY <2>1, <2>3, <4>1, <4>2, AnswerAppends
    <3>2. CASE ServerSendsHubItems
      <4>1. Answer(HUB_ITEMS, HubSize) /\ HUB_ITEMS \in Nat /\ HubSize \in Nat
        BY <3>2 DEF ServerSendsHubItems, HUB_ITEMS
      <4> QED BY <2>1, <2>3, <4>1, AnswerAppends
    <3>3. CASE ServerIgnores
      BY <3>3 DEF ServerIgnores
    <3> QED BY <3>1, <3>2, <3>3 DEF Server
  <2>5. ~(m = n + 1 /\ stream'[n] = stream[n])
    <3> SUFFICES ASSUME m = n + 1, stream'[n] = stream[n] PROVE FALSE
      OBVIOUS
    <3>1. m - 1 = n
      BY <2>3
    <3>2. stream'[n].code = AUTH_SUCCESS
      BY <2>2, <3>1
    <3>3. stream[n].code = HUB_ITEMS
      BY <2>1
    <3> QED BY <3>2, <3>3 DEF AUTH_SUCCESS, HUB_ITEMS
  <2>6. stream' = stream
    BY <2>4, <2>5
  <2> QED BY <2>1, <2>2, <2>6
<1> QED BY <1>2, <1>3

\* Every step of the two threads and of the server is a step of PairingProtocol, or none.
LEMMA StepImplements ==
    ASSUME IInv, IInv', ShownInv, [Next]_vars
    PROVE  [Protocol!Next]_(Protocol!vars)
<1> USE DEF Protocol!vars, Protocol!client
<1>0. /\ TypeOK /\ Layout /\ UpInv /\ WireInv
      /\ Requested \in Seq(Requests) /\ Len(serverLog) \in Nat /\ Len(Requested) \in Nat
  <2>1. TypeOK /\ Layout /\ UpInv /\ WireInv
    BY DEF IInv, WireInv
  <2> QED BY <2>1, RequestedType DEF TypeOK
<1>1. CASE Server
  <2>1. /\ Requested' = Requested
        /\ Len(serverLog') = Len(serverLog) + 1
        /\ Requested[Len(serverLog) + 1] = Head(toServer)
        /\ Len(serverLog) < Len(Requested)
    BY <1>0, <1>1, ServerStep
  <2>2. UNCHANGED <<sessionState, authenticated, Bodies>>
    BY <1>1, ServerKeepsBodies DEF Server, ServerAuthenticates, ServerSendsHubItems, ServerIgnores,
       sessionVars, managerVars
  <2>3. Protocol!Contains(stream, [code |-> AUTH_SUCCESS, size |-> 0]) <=> serverAuth
    BY <1>0, SaysWelcome
  <2>4. \/ /\ Head(toServer) = AUTHENTICATION /\ ~serverAuth
           /\ \E answer \in {AUTH_SUCCESS, AUTH_FAILED} :
                stream' = Append(stream, [code |-> answer, size |-> 0])
        \/ Head(toServer) = AUTHENTICATION /\ serverAuth /\ stream' = stream
        \/ /\ Head(toServer) = HUB_REQUEST /\ serverAuth
           /\ stream' = Append(stream, [code |-> HUB_ITEMS, size |-> HubSize])
    BY <1>1, AnswersAssumption DEF Server, ServerAuthenticates, ServerSendsHubItems, ServerIgnores, Answer
  <2>5. Protocol!Respond
    BY <2>1, <2>2, <2>3, <2>4 DEF Protocol!Respond
  <2> QED BY <2>5 DEF Protocol!Next
<1>2. CASE SendMsgAuthentication
  <2>1. UNCHANGED <<sessionState, serverLog, toServer, stream, at, authenticated, hubItems>>
    BY <1>2 DEF SendMsgAuthentication, mainRest, serverVars
  <2>2. sessionState \in {"CONNECTED", "PAIRED"}
    BY <1>2 DEF SendMsgAuthentication, MainStep, ShownInv
  <2>3. Bodies' = Bodies
    BY <2>1 DEF Bodies, BodyOf
  <2>4. CASE Requested' = Requested
    BY <2>1, <2>3, <2>4
  <2>5. CASE Requested' = Append(Requested, AUTHENTICATION)
    <3>1. Protocol!Authenticate
      BY <2>1, <2>2, <2>3, <2>5 DEF Protocol!Authenticate
    <3> QED BY <3>1 DEF Protocol!Next
  <2> QED BY <1>0, <1>2, <2>4, <2>5, DialogAsks
<1>3. CASE QueueHubRequest
  <2>1. UNCHANGED <<sessionState, serverLog, toServer, stream, at, authenticated, hubItems>>
    BY <1>3 DEF QueueHubRequest, managerVars, serverVars
  <2>2. netPc = "queueHub" /\ AddMessageToQueue(HUB_REQUEST)
    BY <1>3 DEF QueueHubRequest
  <2>3. connectState = "CONNECTED" /\ ~kill /\ authenticated /\ ~HubAsked
    BY <1>0, <2>2 DEF UpInv, WireInv, RequestInv, AskingPc
  <2>4. Requested' = Append(Requested, HUB_REQUEST)
    BY <1>0, <2>1, <2>2, <2>3, AddKeepsRequested DEF Requests
  <2>5. Bodies' = Bodies
    BY <2>1 DEF Bodies, BodyOf
  <2>6. Protocol!AskForItems
    BY <2>1, <2>3, <2>4, <2>5 DEF Protocol!AskForItems, Protocol!Contains, HubAsked
  <2> QED BY <2>6 DEF Protocol!Next
<1>4. CASE AnnounceConnected \/ ConnectFails
  <2>1. UNCHANGED <<serverLog, toServer, queue, stream, at, authenticated, hubItems>>
    BY <1>4 DEF AnnounceConnected, ConnectFails, serverVars, sessionVars
  <2>2. sessionState = "CONNECTING" /\ sessionState' \in {"CONNECTED", "FAILED"}
    BY <1>4 DEF AnnounceConnected, ConnectFails, NetStep, ShownInv
  <2>3. Bodies' = Bodies /\ Requested' = Requested
    BY <2>1 DEF Bodies, BodyOf, Requested
  <2>4. Protocol!Connect
    BY <2>1, <2>2, <2>3 DEF Protocol!Connect
  <2> QED BY <2>4 DEF Protocol!Next
<1>5. CASE AcceptAuthentication
  <2>1. UNCHANGED <<sessionState, serverLog, toServer, queue, stream, at, hubItems>>
    BY <1>5 DEF AcceptAuthentication, serverVars, managerVars
  <2>2. netPc = "process" /\ ~authenticated /\ authenticated' = TRUE /\ Accepted
    BY <1>5 DEF AcceptAuthentication, NetStep
  <2>3. serverAuth
    BY <2>2 DEF IInv, WireInv, AnswerInv, Accepted, HeaderHere
  <2>4. sessionState = "CONNECTED"
    BY <2>2 DEF ShownInv, IInv, PlaceInv, AcceptedInv, NotPaired
  <2>5. Bodies' = Bodies /\ Requested' = Requested
    BY <2>1 DEF Bodies, BodyOf, Requested
  <2>6. Protocol!Accept
    BY <1>0, <2>1, <2>2, <2>3, <2>4, <2>5, SaysWelcome DEF Protocol!Accept
  <2> QED BY <2>6 DEF Protocol!Next
<1>6. CASE Pair
  <2>1. UNCHANGED <<serverLog, toServer, queue, stream, at, authenticated, hubItems>>
    BY <1>6 DEF Pair, serverVars, sessionVars
  <2>2. netPc = "pair" /\ sessionState' = "PAIRED"
    BY <1>6 DEF Pair, NetStep
  <2>3. hubItems' # << >>
    <3>1. authenticated' /\ netPc' = "nextHeader"
      BY <1>6, <2>2 DEF Pair, NetStep, IInv, PlaceInv, AcceptedInv, RefusedInv, NoChunkPc, sessionVars
    <3>2. ~NotPaired'
      BY <2>2 DEF NotPaired
    <3>3. \E s \in 1..Len(stream') : Decoded(s)'
      BY <3>1, <3>2 DEF IInv, PlaceInv, AcceptedInv, Stage, Accepting, HeaderDue, HeaderRead, BodyDue,
         HubLost
    <3> QED BY <3>3 DEF Decoded
  <2>4. Bodies' = Bodies /\ Requested' = Requested
    BY <2>1 DEF Bodies, BodyOf, Requested
  <2>5. Bodies # << >>
    <3>1. hubItems # << >>
      BY <2>1, <2>3
    <3>2. Bodies = <<Len(stream)>>
      BY <3>1, BodiesAre DEF BodiesKnown
    <3>3. ASSUME NEW n
          PROVE  <<n>> # << >>
      OBVIOUS
    <3> HIDE DEF Bodies
    <3> QED BY <3>2, <3>3
  <2>6. CASE sessionState = "CONNECTED"
    <3>1. Protocol!Pair
      BY <2>1, <2>2, <2>4, <2>5, <2>6 DEF Protocol!Pair
    <3> QED BY <3>1 DEF Protocol!Next
  <2>7. CASE sessionState # "CONNECTED"
    <3>1. sessionState' = sessionState
      BY <2>2, <2>7 DEF ShownInv
    <3> QED BY <2>1, <2>4, <3>1
  <2> QED BY <2>6, <2>7
<1>7. CASE ReadBody
  <2>1. UNCHANGED <<sessionState, serverLog, toServer, queue, stream, at, authenticated>>
    BY <1>7 DEF ReadBody, serverVars, managerVars
  <2>2. netPc = "process" /\ authenticated
    BY <1>7 DEF ReadBody
  <2>3. Requested' = Requested
    BY <2>1 DEF Requested
  <2>4. hubItems = << >>
    BY <2>2 DEF IInv, PlaceInv, AcceptedInv, Stage, Accepting, HeaderDue, HeaderRead, BodyDue,
       HubLost, Decoded, NotPaired
  <2>5. CASE hubItems' = << >>
    <3>1. Bodies' = Bodies
      BY <2>4, <2>5, BodiesAre, BodiesAreThen DEF BodiesKnown
    <3> QED BY <2>1, <2>3, <3>1
  <2>6. CASE hubItems' # << >>
    <3>1. Bodies = << >>
      BY <2>4, BodiesAre DEF BodiesKnown
    <3>2. /\ Bodies' = <<Len(stream)>> /\ Len(stream) \in 1..Len(stream)
          /\ stream[Len(stream)] = [code |-> HUB_ITEMS, size |-> HubSize]
      BY <2>1, <2>6, BodiesAreThen DEF BodiesKnown
    <3>3. Protocol!Decode
      BY <2>1, <2>2, <2>3, <3>1, <3>2 DEF Protocol!Decode
    <3> QED BY <3>3 DEF Protocol!Next
  <2> QED BY <2>5, <2>6
<1>8. CASE SetBusyHubItems
  <2>1. UNCHANGED <<sessionState, serverLog, toServer, queue, stream, at, authenticated>>
    BY <1>8 DEF SetBusyHubItems, serverVars
  <2>2. netPc = "setBusyHub" /\ hubItems' = << >>
    BY <1>8 DEF SetBusyHubItems, NetStep
  <2>3. hubItems = << >>
    BY <2>2 DEF IInv, PlaceInv, AcceptedInv, Stage, Accepting, HeaderDue, HeaderRead, BodyDue,
       HubLost, Decoded, NotPaired
  <2>4. Bodies' = Bodies /\ Requested' = Requested
    BY <2>1, <2>2, <2>3 DEF Bodies, BodyOf, Requested
  <2> QED BY <2>1, <2>4
<1>9. CASE SendMessageData \/ ThreadEnds
  <2>1. UNCHANGED <<sessionState, serverLog, stream, at, authenticated, hubItems>>
    BY <1>9 DEF SendMessageData, ThreadEnds, managerVars
  <2>2. Bodies' = Bodies /\ Requested' = Requested
    BY <1>0, <1>9, <2>1, SendKeepsRequested DEF SendMessageData, ThreadEnds, Bodies, BodyOf
  <2> QED BY <2>1, <2>2
<1>10. CASE Authentication \/ SetBusyAuthentication \/ RequestSize \/ RequestTag \/ ConnectToServer
            \/ RecvSocketData \/ RecvWouldBlock \/ RecvError \/ LoadTag \/ ClearBusy
            \/ SendMsgRequestHubItems
            \/ RejectChunk \/ ReadHeader \/ ClearBusyHub \/ RequestNextHeader \/ DropBody
            \/ IgnoreChunk \/ WriteTag \/ Shift \/ UNCHANGED vars
  <2>1. UNCHANGED <<sessionState, serverLog, toServer, queue, stream, at, authenticated, hubItems>>
    BY <1>10 DEF Authentication, SetBusyAuthentication, RequestSize, RequestTag, ConnectToServer,
       RecvSocketData, RecvWouldBlock, RecvError, LoadTag, ClearBusy, SendMsgRequestHubItems,
       RejectChunk,
       ReadHeader, ClearBusyHub, RequestNextHeader, DropBody, IgnoreChunk, WriteTag, Shift, mainRest,
       managerVars, sessionVars, serverVars, vars
  <2>2. Bodies' = Bodies /\ Requested' = Requested
    BY <2>1 DEF Bodies, BodyOf, Requested
  <2> QED BY <2>1, <2>2
<1> QED BY StepCases, <1>1, <1>2, <1>3, <1>4, <1>5, <1>6, <1>7, <1>8, <1>9, <1>10 DEF Server

\* What is shown follows the connection in every reachable state.
LEMMA ShownInvariance == Spec => []ShownInv
<1>1. Init => ShownInv
  BY DEF Init, ShownInv
<1>2. IInv /\ ShownInv /\ [Next]_vars => ShownInv'
  BY ShownKeeps DEF IInv, WireInv
<1> QED BY <1>1, <1>2, Invariance, PTL DEF Spec

\* Out of two threads that race for what is waited for, bytes and a buffer, pairing
\* is the protocol of whole messages.
THEOREM PairingRefinement == Spec => ImplementsPairing
<1>1. Init => Protocol!Init
  <2> SUFFICES ASSUME Init PROVE Protocol!Init
    OBVIOUS
  <2>1. Requested = << >> /\ Len(serverLog) = 0
    BY DEF Init, Requested
  <2>2. IInv
    BY InitWire, InitPlace DEF IInv
  <2>3. Bodies = << >>
    BY <2>2, BodiesAre DEF BodiesKnown, Init
  <2> QED BY <2>1, <2>3 DEF Init, Protocol!Init
<1>2. IInv /\ IInv' /\ ShownInv /\ [Next]_vars => [Protocol!Next]_(Protocol!vars)
  BY StepImplements
<1> QED BY <1>1, <1>2, Invariance, ShownInvariance, PTL DEF Spec, Protocol!Spec, ImplementsPairing

-----------------------------------------------------------------------------
(* The handshake that is lost.                                             *)

\* The dialog has made the manager busy before SendMsgRequestHubItems looked: the
\* answer was accepted, and the hub items were not asked for.
NotAskedFor == authenticated /\ netPc \notin AskingPc /\ ~HubAsked

\* Nothing asks for them later: only an answer that is accepted does, and no second
\* one is.
LEMMA NotAskedForStays ==
    ASSUME IInv, NotAskedFor, [Next]_vars
    PROVE  NotAskedFor'
<1>0. /\ TypeOK /\ UpInv /\ authenticated /\ netPc \notin AskingPc
      /\ \A i \in 1..Len(Requested) : Requested[i] # HUB_REQUEST
      /\ Requested \in Seq(Requests) /\ Len(Requested) \in Nat
  <2>1. TypeOK /\ UpInv
    BY DEF IInv, WireInv
  <2> QED BY <2>1, RequestedType DEF NotAskedFor, HubAsked
<1>1. CASE SendMsgAuthentication
  <2>1. UNCHANGED <<authenticated, netPc>>
    BY <1>1 DEF SendMsgAuthentication, mainRest
  <2>2. CASE Requested' = Requested
    BY <1>0, <2>1, <2>2 DEF NotAskedFor, HubAsked
  <2>3. CASE /\ Len(Requested') = Len(Requested) + 1
             /\ \A i \in 1..Len(Requested) : Requested'[i] = Requested[i]
             /\ Requested'[Len(Requested) + 1] = AUTHENTICATION
    <3>1. \A i \in 1..Len(Requested') : Requested'[i] # HUB_REQUEST
      <4> SUFFICES ASSUME NEW i \in 1..Len(Requested') PROVE Requested'[i] # HUB_REQUEST
        OBVIOUS
      <4>1. i \in 1..Len(Requested) \/ i = Len(Requested) + 1
        BY <1>0, <2>3
      <4> QED BY <1>0, <2>3, <4>1 DEF AUTHENTICATION, HUB_REQUEST
    <3> QED BY <1>0, <2>1, <3>1 DEF NotAskedFor, HubAsked
  <2> QED BY <1>0, <1>1, <2>2, <2>3, DialogAsks
<1>2. CASE Server
  BY <1>0, <1>2, ServerStep DEF NotAskedFor, HubAsked
<1>3. CASE SendMessageData \/ ThreadEnds
  <2>1. authenticated' = authenticated /\ netPc' \in {"recv", "end", "ended"}
    BY <1>3 DEF SendMessageData, ThreadEnds, NetStep
  <2> QED BY <1>0, <1>3, <2>1, SendKeepsRequested DEF SendMessageData, ThreadEnds, NotAskedFor,
     HubAsked,
             AskingPc
<1>4. CASE AcceptAuthentication \/ ClearBusy \/ SendMsgRequestHubItems \/ SetBusyHubItems \/ QueueHubRequest
  BY <1>0, <1>4 DEF AcceptAuthentication, ClearBusy, SendMsgRequestHubItems, SetBusyHubItems,
     QueueHubRequest, NetStep, AskingPc
<1>5. CASE Authentication \/ SetBusyAuthentication \/ RequestSize \/ RequestTag \/ ConnectToServer
           \/ AnnounceConnected \/ ConnectFails \/ RecvSocketData \/ RecvWouldBlock \/ RecvError
           \/ LoadTag
           \/ RejectChunk \/ ReadHeader \/ ReadBody \/ ClearBusyHub \/ Pair \/ RequestNextHeader
           \/ DropBody \/ IgnoreChunk \/ WriteTag \/ Shift \/ UNCHANGED vars
  <2>1. UNCHANGED <<serverLog, toServer, queue, authenticated>>
    BY <1>5 DEF Authentication, SetBusyAuthentication, RequestSize, RequestTag, ConnectToServer,
       AnnounceConnected, ConnectFails, RecvSocketData, RecvWouldBlock, RecvError, LoadTag,
       RejectChunk, ReadHeader,
       ReadBody, ClearBusyHub, Pair, RequestNextHeader, DropBody, IgnoreChunk, WriteTag, Shift, mainRest,
       sessionVars, serverVars, vars
  <2>2. netPc' \notin AskingPc
    BY <1>0, <1>5, Writes DEF Authentication, SetBusyAuthentication, RequestSize, RequestTag,
       ConnectToServer, AnnounceConnected, ConnectFails, RecvSocketData, RecvWouldBlock, RecvError,
       LoadTag,
       RejectChunk, ReadHeader, ReadBody, ClearBusyHub, Pair, RequestNextHeader, DropBody, IgnoreChunk,
       WriteTag, Shift, CutChunk, RequestForData, NetStep, MainStep, mainRest, AskingPc, vars
  <2>3. Requested' = Requested
    BY <2>1 DEF Requested
  <2> QED BY <1>0, <2>1, <2>2, <2>3 DEF NotAskedFor, HubAsked
<1> QED BY StepCases, <1>1, <1>2, <1>3, <1>4, <1>5 DEF Server

\* A pairing whose request for the hub items was skipped is lost for ever, for every size,
\* server and schedule: the dialog goes on showing SS_CONNECTED, which has neither a
\* timeout nor a cancel.
THEOREM LostForEver == Spec => [](NotAskedFor => [](sessionState = "CONNECTED"))
<1>1. ASSUME IInv, NotAskedFor
      PROVE  sessionState # "PAIRED"
  <2> SUFFICES ASSUME sessionState = "PAIRED" PROVE FALSE
    OBVIOUS
  <2>1. hubItems # << >>
    BY <1>1 DEF NotAskedFor, IInv, PlaceInv, AcceptedInv, Stage, Accepting, HeaderDue, HeaderRead, BodyDue,
       HubLost, Decoded, NotPaired
  <2>2. /\ Len(stream) \in 1..Len(stream)
        /\ stream[Len(stream)] = [code |-> HUB_ITEMS, size |-> HubSize]
    BY <1>1, <2>1, BodiesAre DEF BodiesKnown
  <2>3. stream[Len(stream)].code = HUB_ITEMS
    BY <2>2
  <2>4. PICK i \in 1..Len(serverLog) : serverLog[i] = HUB_REQUEST
    BY <1>1, <2>2, <2>3 DEF IInv, WireInv, AnswerInv
  <2>5. /\ TypeOK /\ Len(Requested) = Len(serverLog) + Len(toServer) + Len(queue)
        /\ \A j \in 1..Len(serverLog) : Requested[j] = serverLog[j]
    BY <1>1, RequestedType DEF IInv, WireInv
  <2>6. i \in 1..Len(Requested) /\ Requested[i] = HUB_REQUEST
    BY <2>4, <2>5 DEF TypeOK
  <2> QED BY <1>1, <2>6 DEF NotAskedFor, HubAsked
<1>2. IInv /\ NotAskedFor /\ [Next]_vars => NotAskedFor'
  BY NotAskedForStays
<1>3. IInv /\ NotAskedFor => netPc \notin {"connect", "announce", "failed"}
  BY DEF NotAskedFor, IInv, PlaceInv, AcceptedInv, Stage, Accepting, HeaderDue, HeaderRead, BodyDue,
     HubLost, Decoded
<1>4. IInv /\ ShownInv /\ NotAskedFor => sessionState = "CONNECTED"
  BY <1>1, <1>3 DEF ShownInv
<1> QED BY <1>2, <1>4, Invariance, ShownInvariance, PTL DEF Spec

================================================================================
