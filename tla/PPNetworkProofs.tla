---------------------------- MODULE PPNetworkProofs ----------------------------
(***************************************************************************)
(* The test client's receiving for all sizes of headers, recvs and frames, *)
(* any number of frames, starts and stops, and any cut of the stream.      *)
(***************************************************************************)
EXTENDS PPNetwork, TLAPS

USE SizesAssumption, AnswersAssumption, BoundsAssumption

-----------------------------------------------------------------------------
(* Types.                                                                  *)

LEMMA InitTypes == Init => TypeOK
<1> SUFFICES ASSUME Init PROVE TypeOK
  OBVIOUS
<1>1. frames \in Seq(Region) /\ stream \in Seq(Message) /\ at \in Seq(Nat)
  BY DEF Init
<1>2. Len(at) = Len(stream) + 1
  BY DEF Init
<1>3. ask \in [size : Nat, tag : Tag] /\ tmp \in Region /\ tmpMessage \in Message
  BY DEF Init, Tag, Message, Region, NoTmp, NoAsk, NoMessage
<1>4. chunk \in [from : Nat, size : Nat, tag : Tag, back : {"send", "recv"}]
  BY DEF Init, Tag, NoChunk
<1> QED
  BY <1>1, <1>2, <1>3, <1>4 DEF Init, TypeOK, Tag

\* What the callback may take for a header.
LEMMA ParsedTypes == TypeOK => Parsed \subseteq Message
<1> SUFFICES ASSUME TypeOK PROVE Parsed \subseteq Message
  OBVIOUS
<1>1. CASE HeaderIn = {}
  <2>1. {0, FRAME} \subseteq Nat /\ FrameSizes \subseteq Nat
    BY DEF FRAME
  <2>2. [code : {0, FRAME}, size : FrameSizes] \subseteq [code : Nat, size : Nat]
    BY <2>1
  <2> QED
    BY <1>1, <2>2 DEF Parsed, Message
<1>2. CASE HeaderIn # {}
  <2>1. \A k \in HeaderIn : stream[k] \in Message
    BY DEF TypeOK, HeaderIn
  <2> QED
    BY <1>2, <2>1 DEF Parsed
<1> QED
  BY <1>1, <1>2

LEMMA ServerTypes == TypeOK /\ Server => TypeOK'
<1> SUFFICES ASSUME TypeOK, Server PROVE TypeOK'
  OBVIOUS
<1> USE DEF serverRest, waitVars, bufferVars, sessionVars, countVars
<1>1. ASSUME NEW code \in Nat, NEW size \in Nat, ServerWrites(code, size)
      PROVE  stream' \in Seq(Message) /\ at' \in Seq(Nat) /\ Len(at') = Len(stream') + 1
  <2>1. StreamLength \in Nat
    BY DEF TypeOK, StreamLength
  <2> QED
    BY <1>1, <2>1 DEF TypeOK, ServerWrites, Message
<1>2. CASE ServerReads
  <2>1. Answers \subseteq Nat
    BY DEF AUTH_SUCCESS, AUTH_FAILED
  <2>2. stream' \in Seq(Message) /\ at' \in Seq(Nat) /\ Len(at') = Len(stream') + 1
    BY <1>1, <1>2, <2>1 DEF ServerReads, TypeOK
  <2> QED
    BY <1>2, <2>2 DEF ServerReads, TypeOK
<1>3. CASE ServerSendsFrame
  <2>1. stream' \in Seq(Message) /\ at' \in Seq(Nat) /\ Len(at') = Len(stream') + 1
    BY <1>1, <1>3 DEF ServerSendsFrame, FRAME
  <2> QED
    BY <1>3, <2>1 DEF ServerSendsFrame, TypeOK
<1>4. CASE LinkEnds
  BY <1>4 DEF LinkEnds, TypeOK
<1> QED
  BY <1>2, <1>3, <1>4 DEF Server

LEMMA MainTypes == TypeOK /\ Main => TypeOK'
<1> SUFFICES ASSUME TypeOK, Main PROVE TypeOK'
  OBVIOUS
<1> USE DEF TypeOK, mainRest, waitVars, bufferVars, sessionVars, countVars, serverVars
<1>1. CASE Start
  BY <1>1 DEF Start
<1>2. CASE StopStream
  BY <1>2 DEF StopStream
<1>3. CASE StopWritesSize
  BY <1>3 DEF StopWritesSize
<1>4. CASE StopWritesTag
  BY <1>4 DEF StopWritesTag, Tag
<1> QED
  BY <1>1, <1>2, <1>3, <1>4 DEF Main

\* Connecting, sending and the steps of SetRequestData.
LEMMA ConnectionTypes ==
    TypeOK /\ (WriteSize \/ WriteTag \/ ConnectFails \/ Connected \/ Hello \/ SendMessage)
        => TypeOK'
<1> SUFFICES ASSUME TypeOK,
                    WriteSize \/ WriteTag \/ ConnectFails \/ Connected \/ Hello \/ SendMessage
             PROVE  TypeOK'
  OBVIOUS
<1> USE DEF TypeOK, netRest, waitVars, bufferVars, sessionVars, countVars, serverVars
<1>1. CASE WriteSize
  BY <1>1 DEF WriteSize
<1>2. CASE WriteTag
  BY <1>2 DEF WriteTag, AfterCallback, NoAsk, Tag
<1>3. CASE ConnectFails
  BY <1>3 DEF ConnectFails
<1>4. CASE Connected
  BY <1>4 DEF Connected, NoChunk, Tag
<1>5. CASE Hello
  BY <1>5 DEF Hello, SetRequestData, NoAsk, Tag
<1>6. CASE SendMessage
  BY <1>6 DEF SendMessage
<1> QED
  BY <1>1, <1>2, <1>3, <1>4, <1>5, <1>6

LEMMA ListenTypes ==
    TypeOK /\ (Listen \/ UseAllTmp \/ CutTmp \/ Receive \/ ReceiveNothing \/ ReceiveEnd)
        => TypeOK'
<1> SUFFICES ASSUME TypeOK,
                    Listen \/ UseAllTmp \/ CutTmp \/ Receive \/ ReceiveNothing \/ ReceiveEnd
             PROVE  TypeOK'
  OBVIOUS
<1> USE DEF TypeOK, listenRest, netRest, waitVars, bufferVars, sessionVars, countVars,
            serverVars, Tag, Region, NoTmp, Keep, Complete, BaseWith
<1>1. CASE Listen
  BY <1>1 DEF Listen
<1>2. tmp.from \in Nat /\ tmp.size \in Nat
  OBVIOUS
<1>3. CASE UseAllTmp
  <2>1. received' \in Nat /\ base' \in Nat /\ tmp' \in Region
    BY <1>2, <1>3, SMTT(30) DEF UseAllTmp
  <2> QED
    BY <1>3, <2>1 DEF UseAllTmp
<1>4. CASE CutTmp
  <2>1. base' \in Nat
    BY <1>2, <1>4, SMTT(30) DEF CutTmp
  <2>2. tmp' \in Region
    <3>1. CASE tmp.size = waitFor
      BY <1>4, <3>1 DEF CutTmp
    <3>2. CASE tmp.size # waitFor
      BY <1>2, <1>4, <3>2, SMTT(30) DEF CutTmp
    <3> QED
      BY <3>1, <3>2
  <2>3. chunk' \in [from : Nat, size : Nat, tag : Tag, back : {"send", "recv"}]
    BY <1>2, <1>4 DEF CutTmp
  <2> QED
    BY <1>4, <2>2, <2>1, <2>3 DEF CutTmp
<1>5. CASE Receive
  <2>1. PICK n \in 1..RecvSize :
          /\ delivered' = delivered + n
          /\ \/ Keep(delivered, n) /\ netPc' = "send" /\ tmp' = tmp
             \/ /\ Complete(BaseWith(delivered), waitFor, "send")
                /\ tmp' = IF received + n > waitFor
                           THEN [from |-> delivered + (waitFor - received),
                                 size |-> received + n - waitFor]
                           ELSE tmp
                /\ received <= waitFor
             \/ netPc' = "crashed" /\ UNCHANGED <<base, received, waitVars, chunk, tmp>>
    BY <1>5 DEF Receive
  <2>2. tmp' \in Region
    BY <2>1, SMTT(30)
  <2>3. chunk' \in [from : Nat, size : Nat, tag : Tag, back : {"send", "recv"}]
    <3>1. CASE UNCHANGED chunk
      BY <3>1
    <3>2. CASE chunk' = [from |-> BaseWith(delivered), size |-> waitFor, tag |-> tag,
                         back |-> "send"]
      BY <3>2
    <3> QED
      BY <2>1, <3>1, <3>2
  <2>4. n \in Nat /\ BaseWith(delivered) \in Nat
    OBVIOUS
  <2>5. base' \in Nat
    BY <2>1, <2>4, SMTT(30)
  <2>6. received' \in Nat /\ waitFor' \in Nat /\ delivered' \in Nat
    <3>1. delivered' \in Nat
      BY <2>1, <2>4
    <3>2. waitFor' = waitFor \/ waitFor' = 0
      BY <2>1
    <3>3. received' = received \/ received' = received + n \/ received' = 0
      BY <2>1
    <3> QED
      BY <2>4, <3>1, <3>2, <3>3, SMTT(30)
  <2>7. netPc' \in {"send", "callback", "crashed"} /\ tag' \in Tag
    BY <2>1
  <2>8. UNCHANGED <<listenRest, lost>>
    BY <1>5 DEF Receive
  <2> QED
    BY <2>2, <2>3, <2>7, <2>8, <2>5, <2>6
<1>6. CASE ReceiveNothing
  BY <1>6 DEF ReceiveNothing
<1>7. CASE ReceiveEnd
  BY <1>7 DEF ReceiveEnd
<1> QED
  BY <1>1, <1>3, <1>4, <1>5, <1>6, <1>7

LEMMA CallbackTypes == TypeOK /\ Callback => TypeOK'
<1> SUFFICES ASSUME TypeOK, Callback PROVE TypeOK'
  OBVIOUS
<1> USE DEF TypeOK, callbackRest, netRest, waitVars, bufferVars, sessionVars, countVars,
            serverVars, Tag, NoAsk, SetRequestData
<1>1. CASE LetIn
  BY <1>1 DEF LetIn
<1>2. CASE StartStream
  BY <1>2 DEF StartStream
<1>3. CASE TurnAway
  BY <1>3 DEF TurnAway
<1>4. CASE ReadHeader
  <2>1. PICK m \in Message : tmpMessage' = m /\ SetRequestData(m.size, "BODY", chunk.back)
    BY <1>4, ParsedTypes DEF ReadHeader
  <2> QED
    BY <1>4, <2>1 DEF ReadHeader, Message
<1>5. CASE RejectHeader
  BY <1>5 DEF RejectHeader, NoMessage, Message
<1>6. CASE ReadBody
  <2>1. frames' \in Seq(Region)
    <3>1. [from |-> chunk.from, size |-> chunk.size] \in Region
      BY DEF Region
    <3>2. Append(frames, [from |-> chunk.from, size |-> chunk.size]) \in Seq(Region)
      BY <3>1
    <3>3. frames' \in {frames, Append(frames, [from |-> chunk.from, size |-> chunk.size])}
      BY <1>6 DEF ReadBody
    <3> QED
      BY <3>2, <3>3
  <2> QED
    BY <1>6, <2>1 DEF ReadBody, NoMessage, Message
<1>7. CASE IgnoreChunk
  BY <1>7 DEF IgnoreChunk, NoMessage, Message
<1> QED
  BY <1>1, <1>2, <1>3, <1>4, <1>5, <1>6, <1>7 DEF Callback

\* Every variable keeps its type.
THEOREM NetworkTypes == Spec => []TypeOK
<1>1. TypeOK /\ [Next]_vars => TypeOK'
  <2> SUFFICES ASSUME TypeOK, [Next]_vars PROVE TypeOK'
    OBVIOUS
  <2>1. CASE Next
    BY <2>1, ServerTypes, MainTypes, ConnectionTypes, ListenTypes, CallbackTypes
       DEF Next, Network
  <2>2. CASE UNCHANGED vars
    BY <2>2 DEF vars, TypeOK
  <2> QED
    BY <2>1, <2>2
<1> QED
  BY InitTypes, <1>1, PTL DEF Spec

-----------------------------------------------------------------------------
(* Where the bytes are.                                                    *)

\* Something is left over only behind a whole request, so that nothing of the next
\* one is there yet, and listening does not go on to recv.
TmpKept ==
    /\ netPc = "recv" \/ chunk.back = "recv" => tmp.size = 0
    /\ tmp.size > 0 => received = 0

\* No request is under way where a connection begins or ends, nor where a request
\* is made.
NothingUnderWay ==
    /\ netPc \in {"none", "connect", "ended"} => received = 0 /\ tmp.size = 0
    /\ netPc \in {"hello", "callback", "writeSize"} => received = 0

\* The main thread writes to the request only in a stop that found none.
StopRaces == mainPc # "idle" => raced

\* The inductive invariant of the receiving.
ByteInv ==
    /\ TypeOK
    /\ TmpKept
    /\ NothingUnderWay
    /\ StopRaces
    /\ TmpNeverOverwritten
    /\ BytesInOrder
    /\ RequestNotShrunk

LEMMA InitByteInv == Init => ByteInv
  BY InitTypes DEF Init, ByteInv, TmpKept, NothingUnderWay, StopRaces, TmpNeverOverwritten,
                   BytesInOrder, RequestNotShrunk, NoTmp, NoChunk

\* The server and the main thread do not touch the buffers.
LEMMA OthersKeepBytes == ByteInv /\ (Server \/ Main) => ByteInv'
<1> SUFFICES ASSUME ByteInv, Server \/ Main PROVE ByteInv'
  OBVIOUS
<1> USE DEF ByteInv, TmpKept, NothingUnderWay, StopRaces, TmpNeverOverwritten,
            BytesInOrder, RequestNotShrunk
<1>1. TypeOK'
  BY ServerTypes, MainTypes
<1>2. CASE Server
  <2>1. UNCHANGED <<netPc, mainPc, waitVars, bufferVars, chunk, raced>>
    BY <1>2 DEF Server, ServerReads, ServerSendsFrame, LinkEnds, serverRest
  <2> QED
    BY <1>1, <2>1 DEF waitVars, bufferVars
<1>3. CASE Start
  BY <1>1, <1>3 DEF Start, mainRest, waitVars, bufferVars
<1>4. CASE StopStream
  <2>1. mainPc' # "idle" => waitFor = 0
    BY <1>4 DEF StopStream, TypeOK
  <2>2. (raced => raced') /\ (waitFor = 0 => raced')
    BY <1>4, Zenon DEF StopStream
  <2>3. UNCHANGED <<netPc, waitVars, bufferVars, chunk>>
    BY <1>4 DEF StopStream, mainRest
  <2> QED
    BY <1>1, <2>1, <2>2, <2>3 DEF waitVars, bufferVars
<1>5. CASE StopWritesSize
  BY <1>1, <1>5 DEF StopWritesSize, mainRest, waitVars, bufferVars
<1>6. CASE StopWritesTag
  BY <1>1, <1>6 DEF StopWritesTag, mainRest, waitVars, bufferVars
<1> QED
  BY <1>2, <1>3, <1>4, <1>5, <1>6 DEF Main

\* Nor does what the network thread does between two turns of listening.
LEMMA ConnectionKeepsBytes ==
    ByteInv /\ (WriteSize \/ WriteTag \/ ConnectFails \/ Connected \/ Hello \/ SendMessage)
        => ByteInv'
<1> SUFFICES ASSUME ByteInv,
                    WriteSize \/ WriteTag \/ ConnectFails \/ Connected \/ Hello \/ SendMessage
             PROVE  ByteInv'
  OBVIOUS
<1> USE DEF ByteInv, TmpKept, NothingUnderWay, StopRaces, TmpNeverOverwritten,
            BytesInOrder, RequestNotShrunk, netRest, bufferVars
<1>1. TypeOK'
  BY ConnectionTypes
<1>2. CASE WriteSize
  BY <1>1, <1>2 DEF WriteSize
<1>3. CASE WriteTag
  BY <1>1, <1>3 DEF WriteTag, AfterCallback, TypeOK
<1>4. CASE ConnectFails
  BY <1>1, <1>4 DEF ConnectFails, waitVars
<1>5. CASE Connected
  BY <1>1, <1>5 DEF Connected, waitVars, NoChunk
<1>6. CASE Hello
  BY <1>1, <1>6 DEF Hello, SetRequestData, waitVars
<1>7. CASE SendMessage
  BY <1>1, <1>7 DEF SendMessage, waitVars
<1> QED
  BY <1>2, <1>3, <1>4, <1>5, <1>6, <1>7

\* Bytes move from recv to the request and to what is left over, and on from there,
\* without a gap.
LEMMA ListenKeepsBytes ==
    ByteInv /\ (Listen \/ UseAllTmp \/ CutTmp \/ Receive \/ ReceiveNothing \/ ReceiveEnd)
        => ByteInv'
<1> SUFFICES ASSUME ByteInv,
                    Listen \/ UseAllTmp \/ CutTmp \/ Receive \/ ReceiveNothing \/ ReceiveEnd
             PROVE  ByteInv'
  OBVIOUS
<1> USE DEF ByteInv, TmpKept, NothingUnderWay, StopRaces, TmpNeverOverwritten,
            BytesInOrder, RequestNotShrunk, listenRest, netRest, bufferVars
<1>1. TypeOK'
  BY ListenTypes
<1>2. /\ tmp.from \in Nat /\ tmp.size \in Nat /\ base \in Nat /\ received \in Nat
      /\ delivered \in Nat /\ waitFor \in Nat
  BY DEF TypeOK, Region
<1>3. CASE Listen
  BY <1>1, <1>2, <1>3 DEF Listen, waitVars
<1>4. CASE UseAllTmp
  BY <1>1, <1>2, <1>4 DEF UseAllTmp, Keep, BaseWith, NoTmp, waitVars
<1>5. CASE CutTmp
  <2>1. received = 0 /\ tmp.from = base /\ base + tmp.size = delivered
    BY <1>2, <1>5 DEF CutTmp
  <2>2. base' = base + waitFor /\ received' = 0
    BY <1>2, <1>5, <2>1 DEF CutTmp, Complete, BaseWith
  <2>3. CASE tmp.size = waitFor
    BY <1>1, <1>2, <1>5, <2>1, <2>2, <2>3 DEF CutTmp, Complete, NoTmp
  <2>4. CASE tmp.size # waitFor
    <3>1. tmp'.from = base + waitFor /\ tmp'.size = tmp.size - waitFor
      BY <1>5, <2>1, <2>4 DEF CutTmp
    <3> QED
      BY <1>1, <1>2, <1>5, <2>1, <2>2, <2>4, <3>1 DEF CutTmp, Complete
  <2> QED
    BY <2>3, <2>4
<1>6. CASE Receive
  <2>1. tmp.size = 0 /\ base + received = delivered
    BY <1>2, <1>6 DEF Receive
  <2>2. BaseWith(delivered) = base
    BY <1>2, <2>1 DEF BaseWith
  <2>3. PICK n \in 1..RecvSize :
          /\ delivered' = delivered + n
          /\ \/ /\ received + n < waitFor
                /\ Keep(delivered, n) /\ netPc' = "send" /\ tmp' = tmp
             \/ /\ received <= waitFor
                /\ Complete(BaseWith(delivered), waitFor, "send")
                /\ received + n >= waitFor
                /\ tmp' = IF received + n > waitFor
                           THEN [from |-> delivered + (waitFor - received),
                                 size |-> received + n - waitFor]
                           ELSE tmp
             \/ /\ received > waitFor
                /\ netPc' = "crashed" /\ UNCHANGED <<base, received, waitVars, chunk, tmp>>
    BY <1>6 DEF Receive
  <2>4. n \in Nat \ {0} /\ UNCHANGED <<mainPc, raced>>
    BY <1>6 DEF Receive, countVars
  <2>5. CASE Keep(delivered, n) /\ netPc' = "send" /\ tmp' = tmp /\ received + n < waitFor
    BY <1>1, <1>2, <2>1, <2>2, <2>3, <2>4, <2>5 DEF Keep, waitVars
  <2>6. CASE /\ Complete(BaseWith(delivered), waitFor, "send")
             /\ received <= waitFor /\ received + n >= waitFor
             /\ tmp' = IF received + n > waitFor
                        THEN [from |-> delivered + (waitFor - received),
                              size |-> received + n - waitFor]
                        ELSE tmp
    <3>1. base' = base + waitFor /\ received' = 0 /\ netPc' = "callback"
      BY <2>2, <2>6 DEF Complete
    <3>2. chunk'.back = "send"
      BY <2>6 DEF Complete
    <3>3. tmp'.size = received + n - waitFor
      BY <1>2, <2>1, <2>4, <2>6
    <3>4. tmp'.size > 0 => tmp'.from = delivered + (waitFor - received)
      BY <1>2, <2>1, <2>4, <2>6
    <3>5. delivered' = delivered + n
      BY <2>3
    <3> QED
      BY <1>1, <1>2, <2>1, <2>4, <3>1, <3>2, <3>3, <3>4, <3>5
  <2>7. CASE /\ received > waitFor /\ netPc' = "crashed"
             /\ UNCHANGED <<base, received, waitVars, chunk, tmp>>
    BY <1>1, <1>2, <2>1, <2>4, <2>7 DEF waitVars
  <2> QED
    BY <2>3, <2>5, <2>6, <2>7
<1>7. CASE ReceiveNothing
  BY <1>1, <1>2, <1>7 DEF ReceiveNothing, waitVars
<1>8. CASE ReceiveEnd
  BY <1>1, <1>2, <1>8 DEF ReceiveEnd, NoTmp
<1> QED
  BY <1>3, <1>4, <1>5, <1>6, <1>7, <1>8

\* A callback finds its request complete, and goes back to where listening was.
LEMMA CallbackKeepsBytes == ByteInv /\ Callback => ByteInv'
<1> SUFFICES ASSUME ByteInv, Callback PROVE ByteInv'
  OBVIOUS
<1>1. TypeOK'
  BY CallbackTypes DEF ByteInv
<1>2. UNCHANGED <<mainPc, raced, waitVars, bufferVars, chunk>>
  BY DEF Callback, LetIn, StartStream, TurnAway, ReadHeader, RejectHeader, ReadBody,
         IgnoreChunk, callbackRest, netRest
<1>3. netPc \in {"callback", "start"}
  BY DEF Callback, LetIn, StartStream, TurnAway, ReadHeader, RejectHeader, ReadBody,
         IgnoreChunk
<1>4. netPc' \in {"start", "writeSize", chunk.back}
  BY DEF Callback, LetIn, StartStream, TurnAway, ReadHeader, RejectHeader, ReadBody,
         IgnoreChunk, SetRequestData
<1>5. netPc' = "writeSize" => netPc = "callback"
  BY DEF Callback, LetIn, StartStream, TurnAway, ReadHeader, RejectHeader, ReadBody,
         IgnoreChunk, SetRequestData, ByteInv, TypeOK
<1>6. chunk.back \in {"send", "recv"}
  BY DEF ByteInv, TypeOK
<1> QED
  BY <1>1, <1>2, <1>3, <1>4, <1>5, <1>6
     DEF ByteInv, TmpKept, NothingUnderWay, StopRaces, TmpNeverOverwritten,
         BytesInOrder, RequestNotShrunk, waitVars, bufferVars

LEMMA ByteInvStutters == ByteInv /\ UNCHANGED vars => ByteInv'
  BY DEF vars, ByteInv, TypeOK, TmpKept, NothingUnderWay, StopRaces, TmpNeverOverwritten,
         BytesInOrder, RequestNotShrunk

\* The receiving loses its place nowhere, whatever both threads do.
THEOREM ByteInvariance == Spec => []ByteInv
<1>1. ByteInv /\ [Next]_vars => ByteInv'
  <2> SUFFICES ASSUME ByteInv, [Next]_vars PROVE ByteInv'
    OBVIOUS
  <2>1. CASE Next
    BY <2>1, OthersKeepBytes, ConnectionKeepsBytes, ListenKeepsBytes, CallbackKeepsBytes
       DEF Next, Network
  <2>2. CASE UNCHANGED vars
    BY <2>2, ByteInvStutters
  <2> QED
    BY <2>1, <2>2
<1> QED
  BY InitByteInv, <1>1, PTL DEF Spec

\* What is left over of one recv is used before the next (PPNetwork.cpp:328).
THEOREM TmpUsedFirst == Spec => []TmpNeverOverwritten
<1>1. ByteInv => TmpNeverOverwritten
  BY DEF ByteInv
<1> QED
  BY ByteInvariance, <1>1, PTL

\* No byte of a connection is lost, doubled or out of its place.
THEOREM NoByteLost == Spec => []BytesInOrder
<1>1. ByteInv => BytesInOrder
  BY DEF ByteInv
<1> QED
  BY ByteInvariance, <1>1, PTL

\* The copies into the buffer of a request stay in it, unless a stop has raced.
THEOREM RequestHasRoom == Spec => []RequestNotShrunk
<1>1. ByteInv => RequestNotShrunk
  BY DEF ByteInv
<1> QED
  BY ByteInvariance, <1>1, PTL

-----------------------------------------------------------------------------
(* What the decoder is handed.                                             *)

\* The first connection, whose requests no stop has changed.
Steady == connects <= 1 /\ ~raced

\* The messages follow one another, and recv returns what was written.
StreamLaid ==
    /\ \A k \in 1..Len(stream) :
         /\ at[k + 1] = at[k] + HeaderSize + stream[k].size
         /\ IF stream[k].code = FRAME THEN stream[k].size > 0 ELSE stream[k].size = 0
    /\ delivered <= StreamLength

\* A request is for a header where a message begins, or for the body of the message
\* whose header was read last.
Wanted(t, size, from) ==
    /\ t \in {"AUTHEN", "HEADER"} => size = HeaderSize
    /\ t = "HEADER" => \E k \in 1..Len(at) : at[k] = from
    /\ t = "BODY" =>
         \E k \in 1..Len(stream) :
             stream[k] = tmpMessage /\ at[k] + HeaderSize = from /\ stream[k].size = size

RequestRight ==
    /\ IF tag = "none" THEN netPc # "writeTag" => waitFor = 0
                       ELSE Wanted(tag, waitFor, base)
    /\ netPc \in {"writeSize", "writeTag"} =>
         tag = "none" /\ ask.tag # "none" /\ Wanted(ask.tag, ask.size, base)
    /\ netPc = "writeTag" => waitFor = ask.size
    /\ netPc = "callback" =>
         /\ tag = "none"
         /\ chunk.from + chunk.size = base
         /\ Wanted(chunk.tag, chunk.size, chunk.from)

FramesRight ==
    /\ \A i \in 1..Len(frames) : IsBody(frames[i])
    /\ \A i, j \in 1..Len(frames) : i < j => frames[i].from < frames[j].from
    /\ \A i \in 1..Len(frames) : frames[i].from < (IF netPc = "callback" THEN chunk.from ELSE base)

\* The first connection begins with nothing.
Fresh ==
    /\ netPc # "none" => connects >= 1
    /\ Steady /\ netPc \in {"none", "connect", "hello"} =>
         tag = "none" /\ waitFor = 0 /\ frames = << >>

\* The inductive invariant of the session's parsing.
FrameInv ==
    /\ ByteInv
    /\ StreamLaid
    /\ Fresh
    /\ Steady => RequestRight /\ FramesRight

\* What the server has written before stays where it is.
Extended ==
    /\ \A k \in 1..Len(stream) : k \in 1..Len(stream)' /\ stream'[k] = stream[k] /\ at'[k] = at[k]
    /\ \A k \in 1..Len(at) : k \in 1..Len(at)' /\ at'[k] = at[k]

LEMMA WantedKept ==
  ASSUME Extended, tmpMessage' = tmpMessage, NEW t, NEW size, NEW from, Wanted(t, size, from)
  PROVE  Wanted(t, size, from)'
  BY DEF Extended, Wanted

LEMMA WritesExtend ==
  ASSUME TypeOK, StreamLaid, NEW code \in Nat, NEW size \in Nat, ServerWrites(code, size),
         IF code = FRAME THEN size > 0 ELSE size = 0, delivered' = delivered
  PROVE  Extended /\ StreamLaid'
<1> DEFINE n == Len(stream)
<1>1. n \in Nat /\ Len(at) = n + 1 /\ StreamLength = at[n + 1] /\ StreamLength \in Nat
  BY DEF TypeOK, StreamLength
<1>2. stream' = Append(stream, [code |-> code, size |-> size])
  BY DEF ServerWrites
<1>3. at' = Append(at, StreamLength + HeaderSize + size)
  BY DEF ServerWrites
<1>4. Len(stream') = n + 1 /\ stream'[n + 1] = [code |-> code, size |-> size]
  BY <1>1, <1>2 DEF TypeOK
<1>5. \A k \in 1..n : stream'[k] = stream[k]
  BY <1>1, <1>2 DEF TypeOK
<1> DEFINE end == StreamLength + HeaderSize + size
<1>6. Len(at') = n + 2 /\ at'[n + 2] = StreamLength + HeaderSize + size
  <2>1. at \in Seq(Nat) /\ at' = Append(at, end)
    BY <1>3 DEF TypeOK
  <2>2. Len(at') = n + 2 /\ at'[n + 2] = end
    <3> HIDE DEF end, n
    <3> QED
      BY <1>1, <2>1
  <2> QED
    BY <2>2 DEF end
<1>7. \A k \in 1..(n + 1) : at'[k] = at[k]
  BY <1>1, <1>3 DEF TypeOK
<1>8. Extended
  <2>1. ASSUME NEW k \in 1..n
        PROVE  k \in 1..Len(stream)' /\ stream'[k] = stream[k] /\ at'[k] = at[k]
    BY <1>1, <1>4, <1>5, <1>7
  <2>2. ASSUME NEW k \in 1..(n + 1) PROVE k \in 1..Len(at)' /\ at'[k] = at[k]
    BY <1>1, <1>6, <1>7
  <2> QED
    BY <1>1, <2>1, <2>2 DEF Extended
<1>9. StreamLength' = StreamLength + HeaderSize + size
  BY <1>6 DEF StreamLength
<1>10. (delivered <= StreamLength)'
  <2>1. delivered <= StreamLength /\ delivered \in Nat
    BY DEF StreamLaid, TypeOK
  <2> HIDE DEF StreamLength
  <2> QED
    BY <1>1, <1>9, <2>1, SizesAssumption
<1>11. ASSUME NEW k \in 1..(n + 1)
       PROVE  /\ at'[k + 1] = at'[k] + HeaderSize + stream'[k].size
              /\ IF stream'[k].code = FRAME THEN stream'[k].size > 0 ELSE stream'[k].size = 0
  <2>1. CASE k \in 1..n
    <3>1. at[k + 1] = at[k] + HeaderSize + stream[k].size
      BY <2>1 DEF StreamLaid
    <3>2. IF stream[k].code = FRAME THEN stream[k].size > 0 ELSE stream[k].size = 0
      BY <2>1 DEF StreamLaid
    <3>3. at'[k + 1] = at[k + 1] /\ at'[k] = at[k] /\ stream'[k] = stream[k]
      BY <1>1, <1>5, <1>7, <2>1
    <3> QED
      BY <3>1, <3>2, <3>3
  <2>2. CASE k = n + 1
    <3>1. at'[k] = StreamLength /\ at'[k + 1] = StreamLength + HeaderSize + size
      BY <1>1, <1>6, <1>7, <2>2
    <3>2. stream'[k].code = code /\ stream'[k].size = size
      BY <1>4, <2>2
    <3> QED
      BY <3>1, <3>2
  <2> QED
    BY <1>1, <2>1, <2>2
<1> QED
  BY <1>4, <1>8, <1>10, <1>11 DEF StreamLaid

LEMMA InitFrameInv == Init => FrameInv
<1> SUFFICES ASSUME Init PROVE FrameInv
  OBVIOUS
<1>1. Len(stream) = 0 /\ Len(frames) = 0 /\ StreamLength = 0
  BY DEF Init, StreamLength
<1> QED
  BY <1>1, InitByteInv DEF Init, FrameInv, StreamLaid, Fresh, Steady, RequestRight, FramesRight

\* The server adds behind what it has written.
LEMMA ServerKeepsFrames == FrameInv /\ Server => FrameInv'
<1> SUFFICES ASSUME FrameInv, Server PROVE FrameInv'
  OBVIOUS
<1>1. ByteInv'
  BY OthersKeepBytes DEF FrameInv
<1>2. UNCHANGED <<netPc, mainPc, waitVars, ask, bufferVars, chunk, sessionVars, countVars, raced>>
  BY DEF Server, ServerReads, ServerSendsFrame, LinkEnds, serverRest
<1>3. Extended /\ StreamLaid'
  <2>1. CASE UNCHANGED <<stream, at>>
    BY <1>2, <2>1 DEF Extended, FrameInv, StreamLaid, StreamLength, bufferVars
  <2>2. CASE \E code \in Answers : ServerWrites(code, 0)
    <3>1. PICK code \in Answers : ServerWrites(code, 0)
      BY <2>2
    <3>2. code \in Nat /\ code # FRAME
      BY <3>1 DEF AUTH_SUCCESS, AUTH_FAILED, FRAME
    <3> QED
      BY <1>2, <3>1, <3>2, WritesExtend DEF FrameInv, ByteInv, bufferVars
  <2>3. CASE \E size \in FrameSizes : ServerWrites(FRAME, size)
    <3>1. PICK size \in FrameSizes : ServerWrites(FRAME, size)
      BY <2>3
    <3>2. size \in Nat /\ size > 0 /\ FRAME \in Nat
      BY <3>1 DEF FRAME
    <3> QED
      BY <1>2, <3>1, <3>2, WritesExtend DEF FrameInv, ByteInv, bufferVars
  <2> QED
    BY <2>1, <2>2, <2>3 DEF Server, ServerReads, ServerSendsFrame, LinkEnds
<1>4. Fresh'
  BY <1>2 DEF FrameInv, Fresh, Steady, waitVars, sessionVars, countVars
<1>5. SUFFICES ASSUME Steady' PROVE RequestRight' /\ FramesRight'
  BY <1>1, <1>3, <1>4 DEF FrameInv
<1>6. RequestRight /\ FramesRight
  BY <1>2, <1>5 DEF FrameInv, Steady, countVars
<1>7. RequestRight'
  <2>1. tag # "none" => Wanted(tag, waitFor, base)'
    BY <1>2, <1>3, <1>6, WantedKept DEF RequestRight, waitVars, bufferVars, sessionVars
  <2>2. netPc \in {"writeSize", "writeTag"} => Wanted(ask.tag, ask.size, base)'
    BY <1>2, <1>3, <1>6, WantedKept DEF RequestRight, bufferVars, sessionVars
  <2>3. netPc = "callback" => Wanted(chunk.tag, chunk.size, chunk.from)'
    BY <1>2, <1>3, <1>6, WantedKept DEF RequestRight, sessionVars
  <2> QED
    BY <1>2, <1>6, <2>1, <2>2, <2>3 DEF RequestRight, waitVars, bufferVars
<1>8. FramesRight'
  <2>1. frames' = frames /\ base' = base /\ chunk' = chunk /\ netPc' = netPc
    BY <1>2 DEF bufferVars, sessionVars
  <2>2. \A i \in 1..Len(frames) : IsBody(frames[i])'
    <3>1. \A i \in 1..Len(frames) : IsBody(frames[i])
      BY <1>6 DEF FramesRight
    <3>2. ASSUME NEW i \in 1..Len(frames) PROVE IsBody(frames[i])'
      <4>1. PICK k \in 1..Len(stream) :
              /\ stream[k].code = FRAME
              /\ stream[k].size = frames[i].size
              /\ at[k] + HeaderSize = frames[i].from
        BY <3>1 DEF IsBody
      <4>2. k \in 1..Len(stream)' /\ stream'[k] = stream[k] /\ at'[k] = at[k]
        BY <1>3 DEF Extended
      <4> QED
        BY <2>1, <4>1, <4>2 DEF IsBody
    <3> QED
      BY <3>2
  <2> QED
    BY <1>6, <2>1, <2>2 DEF FramesRight
<1> QED
  BY <1>7, <1>8

LEMMA FramesTyped == TypeOK => \A i \in 1..Len(frames) : frames[i].from \in Nat
<1> SUFFICES ASSUME TypeOK, NEW i \in 1..Len(frames) PROVE frames[i].from \in Nat
  OBVIOUS
<1>1. frames[i] \in Region
  BY DEF TypeOK
<1> QED
  BY <1>1 DEF Region

\* A step that leaves the stream, the session and the request alone.
LEMMA SessionAlone ==
  ASSUME FrameInv, ByteInv', Fresh', Steady' => Steady,
         UNCHANGED <<waitVars, ask, base, chunk, sessionVars, stream, at>>,
         delivered' <= StreamLength,
         netPc \notin {"callback", "writeSize", "writeTag"},
         netPc' \notin {"callback", "writeSize", "writeTag"}
  PROVE  FrameInv'
<1>1. StreamLaid'
  BY DEF FrameInv, StreamLaid, StreamLength
<1> SUFFICES ASSUME Steady' PROVE RequestRight' /\ FramesRight'
  BY <1>1 DEF FrameInv
<1>2. RequestRight /\ FramesRight
  BY DEF FrameInv
<1>3. RequestRight'
  BY <1>2 DEF RequestRight, Wanted, waitVars, sessionVars
<1>4. FramesRight'
  BY <1>2 DEF FramesRight, IsBody, sessionVars
<1> QED
  BY <1>3, <1>4

\* The main thread writes to the request of a stop that has raced.
LEMMA MainKeepsFrames == FrameInv /\ Main => FrameInv'
<1> SUFFICES ASSUME FrameInv, Main PROVE FrameInv'
  OBVIOUS
<1>1. ByteInv'
  BY OthersKeepBytes DEF FrameInv
<1>2. CASE Start
  <2>1. netPc \in {"none", "ended"} /\ netPc' = "connect" /\ connects' = connects + 1
    BY <1>2 DEF Start
  <2>2. connects \in Nat
    BY DEF FrameInv, ByteInv, TypeOK
  <2>3. UNCHANGED <<waitVars, ask, bufferVars, chunk, sessionVars, stream, at, raced>>
    BY <1>2 DEF Start, mainRest, serverVars
  <2>4. Steady' => Steady /\ netPc = "none"
    BY <2>1, <2>2, <2>3 DEF FrameInv, Fresh, Steady
  <2>5. Fresh'
    BY <2>1, <2>2, <2>3, <2>4 DEF FrameInv, Fresh, waitVars, sessionVars
  <2>6. delivered' <= StreamLength
    BY <2>3 DEF FrameInv, StreamLaid, bufferVars
  <2> QED
    BY <1>1, <2>1, <2>3, <2>4, <2>5, <2>6, SessionAlone DEF bufferVars
<1>3. CASE StopStream
  <2>1. UNCHANGED <<netPc, waitVars, ask, bufferVars, chunk, sessionVars, stream, at, connects>>
    BY <1>3 DEF StopStream, mainRest, serverVars
  <2>2. raced => raced'
    BY <1>3, Zenon DEF StopStream
  <2>3. Steady' => Steady
    BY <2>1, <2>2 DEF Steady
  <2>4. Fresh'
    BY <2>1, <2>3 DEF FrameInv, Fresh, waitVars, sessionVars
  <2>5. StreamLaid'
    BY <2>1 DEF FrameInv, StreamLaid, StreamLength, bufferVars
  <2>6. RequestRight => RequestRight'
    BY <2>1 DEF RequestRight, Wanted, waitVars, sessionVars, bufferVars
  <2>7. FramesRight => FramesRight'
    BY <2>1 DEF FramesRight, IsBody, sessionVars, bufferVars
  <2> QED
    BY <1>1, <2>3, <2>4, <2>5, <2>6, <2>7 DEF FrameInv
<1>4. CASE StopWritesSize \/ StopWritesTag
  <2>1. UNCHANGED <<netPc, bufferVars, stream, at, connects, raced>>
    BY <1>4 DEF StopWritesSize, StopWritesTag, mainRest, serverVars, countVars
  <2>2. ~Steady'
    BY <1>4, <2>1 DEF StopWritesSize, StopWritesTag, FrameInv, ByteInv, StopRaces, Steady
  <2>3. Fresh'
    BY <2>1, <2>2 DEF FrameInv, Fresh
  <2>4. StreamLaid'
    BY <2>1 DEF FrameInv, StreamLaid, StreamLength, bufferVars
  <2> QED
    BY <1>1, <2>2, <2>3, <2>4 DEF FrameInv
<1> QED
  BY <1>2, <1>3, <1>4 DEF Main

\* Each connection begins with the request for the answer to the authentication.
LEMMA ConnectionKeepsFrames ==
    FrameInv /\ (WriteSize \/ WriteTag \/ ConnectFails \/ Connected \/ Hello \/ SendMessage)
        => FrameInv'
<1> SUFFICES ASSUME FrameInv,
                    WriteSize \/ WriteTag \/ ConnectFails \/ Connected \/ Hello \/ SendMessage
             PROVE  FrameInv'
  OBVIOUS
<1>1. ByteInv'
  BY ConnectionKeepsBytes DEF FrameInv
<1>2. UNCHANGED <<connects, raced, sessionVars>>
  BY DEF WriteSize, WriteTag, ConnectFails, Connected, Hello, SendMessage, netRest, countVars
<1>3. Steady' <=> Steady
  BY <1>2 DEF Steady
<1>4. CASE ConnectFails \/ SendMessage
  <2>1. UNCHANGED <<waitVars, ask, bufferVars, chunk, stream, at>>
    BY <1>4 DEF ConnectFails, SendMessage, serverVars
  <2>2. Fresh'
    BY <1>2, <1>3, <1>4, <2>1 DEF ConnectFails, SendMessage, FrameInv, Fresh
  <2>3. delivered' <= StreamLength
    BY <2>1 DEF FrameInv, StreamLaid, bufferVars
  <2> QED
    BY <1>1, <1>2, <1>3, <1>4, <2>1, <2>2, <2>3, SessionAlone
       DEF ConnectFails, SendMessage, bufferVars
<1>5. CASE Connected
  <2>1. Len(stream') = 0 /\ StreamLength' = 0 /\ delivered' = 0
    BY <1>5 DEF Connected, StreamLength
  <2>2. StreamLaid'
    BY <2>1 DEF StreamLaid
  <2>3. Fresh'
    BY <1>2, <1>3, <1>5 DEF Connected, FrameInv, Fresh, waitVars, sessionVars
  <2>4. Steady' => RequestRight' /\ FramesRight'
    <3>1. Steady' => tag' = "none" /\ waitFor' = 0 /\ Len(frames') = 0 /\ netPc' = "hello"
      BY <1>5, <2>3 DEF Connected, Fresh
    <3> QED
      BY <3>1 DEF RequestRight, FramesRight
  <2> QED
    BY <1>1, <2>2, <2>3, <2>4 DEF FrameInv
<1>6. CASE Hello
  <2>1. /\ UNCHANGED <<waitVars, bufferVars, chunk, stream, at>>
        /\ netPc = "hello" /\ netPc' = IF waitFor > 0 THEN "send" ELSE "writeSize"
        /\ ask' = IF waitFor > 0 THEN NoAsk ELSE [size |-> HeaderSize, tag |-> "AUTHEN"]
    BY <1>6 DEF Hello, SetRequestData, serverVars
  <2>2. Fresh'
    BY <1>2, <1>3, <2>1 DEF FrameInv, Fresh
  <2>3. StreamLaid'
    BY <2>1 DEF FrameInv, StreamLaid, StreamLength, bufferVars
  <2>4. ASSUME Steady' PROVE RequestRight' /\ FramesRight'
    <3>1. tag = "none" /\ waitFor = 0 /\ Len(frames) = 0
      BY <1>3, <2>1, <2>4 DEF FrameInv, Fresh
    <3>2. netPc' = "writeSize" /\ ask'.tag = "AUTHEN" /\ ask'.size = HeaderSize
      BY <2>1, <3>1
    <3> QED
      BY <1>2, <2>1, <3>1, <3>2 DEF RequestRight, FramesRight, Wanted, waitVars, sessionVars
  <2> QED
    BY <1>1, <2>2, <2>3, <2>4 DEF FrameInv
<1>7. CASE WriteSize \/ WriteTag
  <2>1. UNCHANGED <<base, delivered, chunk, stream, at>>
    BY <1>7 DEF WriteSize, WriteTag, serverVars, bufferVars
  <2>2. netPc' \notin {"none", "connect", "hello", "callback", "writeSize"} /\ netPc # "none"
    BY <1>7 DEF WriteSize, WriteTag, AfterCallback, FrameInv, ByteInv, TypeOK
  <2>3. Fresh'
    BY <1>2, <2>2 DEF FrameInv, Fresh
  <2>4. StreamLaid'
    BY <2>1 DEF FrameInv, StreamLaid, StreamLength
  <2>5. ASSUME Steady' PROVE RequestRight' /\ FramesRight'
    <3>1. RequestRight /\ FramesRight
      BY <1>3, <2>5 DEF FrameInv
    <3>2. FramesRight'
      BY <1>2, <1>7, <2>1, <2>2, <3>1 DEF FramesRight, IsBody, sessionVars, WriteSize, WriteTag
    <3>3. CASE WriteSize
      BY <1>2, <2>1, <3>1, <3>2, <3>3 DEF WriteSize, RequestRight, Wanted, sessionVars
    <3>4. CASE WriteTag
      <4>1. /\ tag' = ask.tag /\ waitFor' = ask.size /\ base' = base
            /\ netPc' # "writeTag" /\ ask.tag # "none"
        BY <2>1, <3>1, <3>4 DEF WriteTag, RequestRight, AfterCallback, FrameInv, ByteInv, TypeOK
      <4> QED
        BY <1>2, <2>1, <2>2, <3>1, <3>2, <3>4, <4>1 DEF WriteTag, RequestRight, Wanted, sessionVars
    <3> QED
      BY <1>7, <3>3, <3>4
  <2> QED
    BY <1>1, <2>3, <2>4, <2>5 DEF FrameInv
<1> QED
  BY <1>4, <1>5, <1>6, <1>7

\* A request that is complete goes to the callback.
LEMMA CompleteKeepsFrames ==
  ASSUME FrameInv, ByteInv', Fresh', Steady' => Steady, NEW back, Complete(base, waitFor, back),
         UNCHANGED <<ask, sessionVars, stream, at>>, delivered' <= StreamLength,
         netPc \notin {"callback", "writeSize", "writeTag"}
  PROVE  FrameInv'
<1>1. StreamLaid'
  BY DEF FrameInv, StreamLaid, StreamLength
<1> SUFFICES ASSUME Steady' PROVE RequestRight' /\ FramesRight'
  BY <1>1 DEF FrameInv
<1>2. RequestRight /\ FramesRight
  BY DEF FrameInv
<1>3. /\ chunk'.from = base /\ chunk'.size = waitFor /\ chunk'.tag = tag
      /\ base' = base + waitFor /\ tag' = "none" /\ waitFor' = 0 /\ netPc' = "callback"
  BY DEF Complete
<1>4. Wanted(tag, waitFor, base)
  BY <1>2 DEF RequestRight, Wanted
<1>5. Wanted(chunk.tag, chunk.size, chunk.from)'
  BY <1>3, <1>4 DEF Wanted, sessionVars
<1>6. RequestRight'
  BY <1>3, <1>5 DEF RequestRight
<1>7. FramesRight'
  <2>1. frames' = frames /\ \A i \in 1..Len(frames) : frames[i].from < base
    BY <1>2 DEF FramesRight, sessionVars
  <2>2. \A i \in 1..Len(frames) : IsBody(frames[i])'
    BY <1>2, <2>1 DEF FramesRight, IsBody
  <2> QED
    BY <1>2, <1>3, <2>1, <2>2 DEF FramesRight
<1> QED
  BY <1>6, <1>7

\* Listening takes a request to its callback, or keeps it.
LEMMA ListenKeepsFrames ==
    FrameInv /\ (Listen \/ UseAllTmp \/ CutTmp \/ Receive \/ ReceiveNothing \/ ReceiveEnd)
        => FrameInv'
<1> SUFFICES ASSUME FrameInv,
                    Listen \/ UseAllTmp \/ CutTmp \/ Receive \/ ReceiveNothing \/ ReceiveEnd
             PROVE  FrameInv'
  OBVIOUS
<1>1. ByteInv'
  BY ListenKeepsBytes DEF FrameInv
<1>2. UNCHANGED <<ask, sessionVars, stream, at, connects, raced>>
  BY DEF Listen, UseAllTmp, CutTmp, Receive, ReceiveNothing, ReceiveEnd, listenRest, netRest,
         countVars, serverVars
<1>3. Steady' <=> Steady
  BY <1>2 DEF Steady
<1>4. /\ netPc \in {"listen", "recv"}
      /\ netPc' \in {"send", "recv", "callback", "crashed", "ended"}
  BY DEF Listen, UseAllTmp, CutTmp, Receive, ReceiveNothing, ReceiveEnd, Complete
<1>5. Fresh'
  BY <1>2, <1>4 DEF FrameInv, Fresh
<1>6. delivered \in Nat /\ base \in Nat /\ received \in Nat /\ waitFor \in Nat
      /\ tmp.size \in Nat /\ tmp.from \in Nat
  BY DEF FrameInv, ByteInv, TypeOK, Region
<1>7. delivered' <= StreamLength
  <2>1. CASE Receive
    BY <2>1 DEF Receive
  <2>2. CASE ~Receive
    BY <2>2 DEF Listen, UseAllTmp, CutTmp, ReceiveNothing, ReceiveEnd, bufferVars,
                FrameInv, StreamLaid
  <2> QED
    BY <2>1, <2>2
<1>8. CASE Listen \/ ReceiveNothing
  BY <1>1, <1>2, <1>3, <1>4, <1>5, <1>7, <1>8, SessionAlone
     DEF Listen, ReceiveNothing, bufferVars
<1>9. CASE UseAllTmp
  <2>1. received = 0 /\ tmp.from = base
    BY <1>6, <1>9 DEF UseAllTmp, FrameInv, ByteInv, TmpKept, BytesInOrder
  <2>2. UNCHANGED <<waitVars, base, chunk>> /\ netPc' = "recv"
    BY <1>9, <2>1 DEF UseAllTmp, Keep, BaseWith
  <2> QED
    BY <1>1, <1>2, <1>3, <1>4, <1>5, <1>7, <2>2, SessionAlone
<1>10. CASE CutTmp
  <2>1. received = 0 /\ tmp.from = base
    BY <1>6, <1>10 DEF CutTmp, FrameInv, ByteInv, TmpKept, BytesInOrder
  <2>2. BaseWith(tmp.from) = base /\ received + waitFor = waitFor
    BY <1>6, <2>1 DEF BaseWith
  <2>3. \E back : Complete(base, waitFor, back)
    BY <1>10, <2>2 DEF CutTmp
  <2> QED
    BY <1>1, <1>2, <1>3, <1>4, <1>5, <1>7, <2>3, CompleteKeepsFrames
<1>11. CASE Receive
  <2>1. BaseWith(delivered) = base
    BY <1>6, <1>11 DEF Receive, FrameInv, ByteInv, TmpNeverOverwritten, BytesInOrder, BaseWith
  <2>2. \/ UNCHANGED <<waitVars, base, chunk>> /\ netPc' = "send"
        \/ Complete(base, waitFor, "send")
        \/ received > waitFor /\ netPc' = "crashed"
    BY <1>11, <2>1 DEF Receive, Keep
  <2>3. CASE UNCHANGED <<waitVars, base, chunk>> /\ netPc' = "send"
    BY <1>1, <1>2, <1>3, <1>4, <1>5, <1>7, <2>3, SessionAlone
  <2>4. CASE Complete(base, waitFor, "send")
    BY <1>1, <1>2, <1>3, <1>4, <1>5, <1>7, <2>4, CompleteKeepsFrames
  <2>5. CASE received > waitFor /\ netPc' = "crashed"
    <3>1. ~Steady'
      BY <1>3, <1>6, <2>5 DEF FrameInv, ByteInv, RequestNotShrunk, Steady
    <3>2. StreamLaid'
      BY <1>2, <1>7 DEF FrameInv, StreamLaid, StreamLength
    <3> QED
      BY <1>1, <1>5, <3>1, <3>2 DEF FrameInv
  <2> QED
    BY <2>2, <2>3, <2>4, <2>5
<1>12. CASE ReceiveEnd
  <2>1. StreamLaid'
    BY <1>2, <1>7 DEF FrameInv, StreamLaid, StreamLength
  <2>2. /\ netPc = "recv" /\ netPc' = "ended" /\ base' = base + received
        /\ waitFor' = (IF received > 0 THEN 0 ELSE waitFor)
        /\ tag' = (IF received > 0 THEN "none" ELSE tag)
    BY <1>12 DEF ReceiveEnd
  <2>3. ASSUME Steady' PROVE RequestRight' /\ FramesRight'
    <3>1. RequestRight /\ FramesRight
      BY <1>3, <2>3 DEF FrameInv
    <3>2. RequestRight'
      <4>1. CASE received > 0
        BY <2>2, <4>1 DEF RequestRight
      <4>2. CASE received = 0
        BY <1>2, <1>6, <2>2, <3>1, <4>2 DEF RequestRight, Wanted, sessionVars
      <4> QED
        BY <1>6, <4>1, <4>2
    <3>3. \A i \in 1..Len(frames) : frames[i].from < base + received
      <4>1. \A i \in 1..Len(frames) : frames[i].from < base
        BY <2>2, <3>1 DEF FramesRight
      <4>2. \A i \in 1..Len(frames) : frames[i].from \in Nat
        BY FramesTyped DEF FrameInv, ByteInv
      <4> QED
        BY <1>6, <4>1, <4>2
    <3>4. FramesRight'
      BY <1>2, <2>2, <3>1, <3>3 DEF FramesRight, IsBody, sessionVars
    <3> QED
      BY <3>2, <3>4
  <2> QED
    BY <1>1, <1>5, <2>1, <2>3 DEF FrameInv
<1> QED
  BY <1>8, <1>9, <1>10, <1>11, <1>12

\* A callback asks for what comes next in the stream, or for nothing more.
LEMMA CallbackKeepsFrames == FrameInv /\ Callback => FrameInv'
<1> SUFFICES ASSUME FrameInv, Callback PROVE FrameInv'
  OBVIOUS
<1> DEFINE Asking == LetIn \/ ReadHeader \/ ReadBody
<1>1. ByteInv'
  BY CallbackKeepsBytes DEF FrameInv
<1>2. UNCHANGED <<connects, raced, waitVars, bufferVars, chunk, stream, at>>
  BY DEF Callback, LetIn, StartStream, TurnAway, ReadHeader, RejectHeader, ReadBody,
         IgnoreChunk, callbackRest, netRest, countVars, serverVars
<1>3. Steady' <=> Steady
  BY <1>2 DEF Steady
<1>4. netPc' \in {"writeSize", "start", "send", "recv"} /\ netPc # "none"
  BY DEF Callback, LetIn, StartStream, TurnAway, ReadHeader, RejectHeader, ReadBody,
         IgnoreChunk, SetRequestData, FrameInv, ByteInv, TypeOK
<1>5. Fresh'
  BY <1>2, <1>4 DEF FrameInv, Fresh
<1>6. StreamLaid'
  BY <1>2 DEF FrameInv, StreamLaid, StreamLength, bufferVars
<1>7. CASE StartStream
  <2>1. netPc = "start" /\ netPc' \in {"send", "recv"} /\ UNCHANGED <<ask, sessionVars>>
    BY <1>7 DEF StartStream, FrameInv, ByteInv, TypeOK
  <2>2. delivered' <= StreamLength
    BY <1>2 DEF FrameInv, StreamLaid, bufferVars
  <2> QED
    BY <1>1, <1>2, <1>3, <1>5, <2>1, <2>2, SessionAlone DEF bufferVars
<1>8. CASE netPc = "callback"
  <2> SUFFICES ASSUME Steady' PROVE RequestRight' /\ FramesRight'
    BY <1>1, <1>5, <1>6 DEF FrameInv
  <2>1. RequestRight /\ FramesRight
    BY <1>3 DEF FrameInv
  <2>2. tag = "none" /\ waitFor = 0 /\ chunk.from + chunk.size = base
    BY <1>8, <2>1 DEF RequestRight
  <2>3. Wanted(chunk.tag, chunk.size, chunk.from)
    BY <1>8, <2>1 DEF RequestRight
  <2>4. /\ chunk.from \in Nat /\ chunk.size \in Nat /\ base \in Nat /\ base <= delivered
        /\ delivered <= StreamLength /\ delivered \in Nat
    BY <1>8 DEF FrameInv, ByteInv, StreamLaid, TypeOK, BytesInOrder, Region
  <2>5. Len(at) = Len(stream) + 1 /\ Len(stream) \in Nat /\ \A k \in 1..Len(at) : at[k] \in Nat
    BY DEF FrameInv, ByteInv, TypeOK
  <2>6. ASSUME netPc' = "writeSize" =>
                 ask'.tag # "none" /\ Wanted(ask.tag, ask.size, base)'
        PROVE  RequestRight'
    BY <1>2, <1>4, <2>2, <2>6 DEF RequestRight, waitVars
  <2>7. ASSUME NEW k \in HeaderIn
        PROVE  k \in 1..Len(stream) /\ at[k] = chunk.from /\ at[k + 1] = base + stream[k].size
    <3>1. k \in 1..Len(stream) /\ at[k] = chunk.from /\ chunk.size = HeaderSize
      BY DEF HeaderIn
    <3>2. at[k + 1] = at[k] + HeaderSize + stream[k].size
      BY <3>1 DEF FrameInv, StreamLaid
    <3> QED
      BY <2>2, <3>1, <3>2
  <2>8. ASSUME frames' = frames PROVE FramesRight'
    <3>1. \A i \in 1..Len(frames) : frames[i].from < chunk.from
      BY <1>8, <2>1 DEF FramesRight
    <3>2. \A i \in 1..Len(frames) : frames[i].from \in Nat
      BY FramesTyped DEF FrameInv, ByteInv
    <3>3. \A i \in 1..Len(frames) : frames[i].from < base
      BY <2>2, <2>4, <3>1, <3>2
    <3>4. \A i \in 1..Len(frames) : IsBody(frames[i])'
      BY <1>2, <2>1, <2>8 DEF FramesRight, IsBody
    <3> QED
      BY <1>2, <1>4, <2>1, <2>8, <3>3, <3>4 DEF FramesRight, bufferVars
  <2>9. CASE LetIn
    <3>1. /\ ask' = [size |-> HeaderSize, tag |-> "HEADER"] /\ frames' = frames
          /\ \E k \in HeaderIn : stream[k].code = AUTH_SUCCESS
      BY <2>2, <2>9 DEF LetIn, LetsIn, SetRequestData
    <3>2. PICK k \in HeaderIn : stream[k].code = AUTH_SUCCESS
      BY <3>1
    <3>3. stream[k].size = 0
      BY <2>7, <3>2 DEF FrameInv, StreamLaid, AUTH_SUCCESS, FRAME
    <3>4. k + 1 \in 1..Len(at) /\ at[k + 1] = base
      BY <2>4, <2>5, <2>7, <3>2, <3>3
    <3>5. Wanted(ask.tag, ask.size, base)'
      BY <1>2, <3>1, <3>4 DEF Wanted, bufferVars
    <3> QED
      BY <2>6, <2>8, <3>1, <3>5
  <2>10. CASE ReadHeader
    <3>1. PICK m \in Parsed : /\ tmpMessage' = m
                              /\ ask' = [size |-> m.size, tag |-> "BODY"]
      BY <2>2, <2>10 DEF ReadHeader, SetRequestData
    <3>2. chunk.tag = "HEADER" /\ frames' = frames
      BY <2>10 DEF ReadHeader
    <3>3. PICK k \in 1..Len(at) : at[k] = chunk.from
      BY <2>3, <3>2 DEF Wanted
    <3>4. chunk.size = HeaderSize
      BY <2>3, <3>2 DEF Wanted
    <3>5. k # Len(at)
      BY <2>2, <2>4, <3>3, <3>4 DEF StreamLength
    <3>6. k \in HeaderIn
      BY <2>5, <3>3, <3>4, <3>5 DEF HeaderIn
    <3>7. PICK h \in HeaderIn : m = stream[h]
      BY <3>1, <3>6 DEF Parsed
    <3>8. h \in 1..Len(stream) /\ at[h] + HeaderSize = base
      BY <2>2, <2>7, <3>4, <3>7
    <3>9. Wanted(ask.tag, ask.size, base)'
      BY <1>2, <3>1, <3>7, <3>8 DEF Wanted, bufferVars
    <3> QED
      BY <2>6, <2>8, <3>1, <3>2, <3>9
  <2>11. CASE ReadBody
    <3>1. /\ chunk.tag = "BODY" /\ ask' = [size |-> HeaderSize, tag |-> "HEADER"]
          /\ frames' = IF tmpMessage.code = FRAME
                       THEN Append(frames, [from |-> chunk.from, size |-> chunk.size])
                       ELSE frames
      BY <2>2, <2>11 DEF ReadBody, SetRequestData
    <3>2. PICK k \in 1..Len(stream) :
            stream[k] = tmpMessage /\ at[k] + HeaderSize = chunk.from /\ stream[k].size = chunk.size
      BY <2>3, <3>1 DEF Wanted
    <3>3. at[k + 1] = at[k] + HeaderSize + stream[k].size
      BY <3>2 DEF FrameInv, StreamLaid
    <3>4. k + 1 \in 1..Len(at) /\ at[k + 1] = base
      BY <2>2, <2>4, <2>5, <3>2, <3>3
    <3>5. RequestRight'
      <4>1. Wanted(ask.tag, ask.size, base)'
        BY <1>2, <3>1, <3>4 DEF Wanted, bufferVars
      <4> QED
        BY <2>6, <3>1, <4>1
    <3>6. CASE tmpMessage.code # FRAME
      BY <2>8, <3>1, <3>5, <3>6
    <3>7. CASE tmpMessage.code = FRAME
      <4> DEFINE region == [from |-> chunk.from, size |-> chunk.size]
      <4>1. frames' = Append(frames, region) /\ frames \in Seq(Region) /\ region \in Region
        BY <2>4, <3>1, <3>7 DEF FrameInv, ByteInv, TypeOK, Region
      <4>2. /\ Len(frames') = Len(frames) + 1 /\ frames'[Len(frames) + 1] = region
            /\ \A i \in 1..Len(frames) : frames'[i] = frames[i]
        BY <4>1
      <4>3. Len(frames) \in Nat /\ \A i \in 1..Len(frames) : frames[i].from \in Nat
        BY <4>1, FramesTyped DEF FrameInv, ByteInv
      <4>4. \A i \in 1..Len(frames) : frames[i].from < chunk.from
        BY <1>8, <2>1 DEF FramesRight
      <4>5. chunk.size > 0
        BY <3>2, <3>7 DEF FrameInv, StreamLaid
      <4>6. \A i \in 1..Len(frames') : frames'[i].from < base
        BY <2>2, <2>4, <4>2, <4>3, <4>4, <4>5, SMTT(30)
      <4>7. \A i \in 1..Len(frames') : IsBody(frames'[i])
        <5>1. IsBody(region)
          BY <3>2, <3>7 DEF IsBody
        <5>2. \A i \in 1..Len(frames) : IsBody(frames[i])
          BY <2>1 DEF FramesRight
        <5> QED
          BY <4>2, <4>3, <5>1, <5>2
      <4>8. \A i \in 1..Len(frames') : IsBody(frames[i])'
        <5>1. stream' = stream /\ at' = at
          BY <1>2
        <5>2. ASSUME NEW i \in 1..Len(frames'), IsBody(frames'[i]) PROVE IsBody(frames[i])'
          BY <5>1, <5>2 DEF IsBody
        <5> QED
          BY <4>7, <5>2
      <4>9. \A i, j \in 1..Len(frames') : i < j => frames'[i].from < frames'[j].from
        <5>1. ASSUME NEW i \in 1..Len(frames), NEW j \in 1..Len(frames), i < j
              PROVE  frames'[i].from < frames'[j].from
          BY <2>1, <4>2, <5>1 DEF FramesRight
        <5>2. ASSUME NEW i \in 1..Len(frames) PROVE frames'[i].from < region.from
          BY <4>2, <4>4, <5>2
        <5>3. ASSUME NEW i \in 1..Len(frames'), NEW j \in 1..Len(frames'), i < j
              PROVE  frames'[i].from < frames'[j].from
          <6>1. i \in 1..Len(frames) /\ (j \in 1..Len(frames) \/ frames'[j] = region)
            BY <4>2, <4>3, <5>3
          <6> QED
            BY <5>1, <5>2, <5>3, <6>1
        <5> QED
          BY <5>3
      <4> QED
        BY <1>2, <1>4, <3>5, <4>6, <4>8, <4>9 DEF FramesRight, bufferVars
    <3> QED
      BY <3>6, <3>7
  <2>12. CASE ~Asking /\ ~StartStream
    <3>1. netPc' \in {"send", "recv"} /\ frames' = frames
      BY <2>12 DEF Callback, TurnAway, RejectHeader, IgnoreChunk, sessionVars,
                   FrameInv, ByteInv, TypeOK
    <3> QED
      BY <2>6, <2>8, <3>1
  <2> QED
    BY <1>7, <1>8, <2>9, <2>10, <2>11, <2>12 DEF StartStream
<1>9. netPc = "callback" \/ StartStream
  BY DEF Callback, LetIn, TurnAway, ReadHeader, RejectHeader, ReadBody, IgnoreChunk
<1> QED
  BY <1>7, <1>8, <1>9

\* The session asks for each header where a message begins, and for each body behind
\* its header, as long as it is the first connection and no stop has raced.
THEOREM FrameInvariance == Spec => []FrameInv
<1>1. FrameInv /\ [Next]_vars => FrameInv'
  <2> SUFFICES ASSUME FrameInv, [Next]_vars PROVE FrameInv'
    OBVIOUS
  <2>1. CASE Next
    BY <2>1, ServerKeepsFrames, MainKeepsFrames, ConnectionKeepsFrames, ListenKeepsFrames,
       CallbackKeepsFrames
       DEF Next, Network
  <2>2. CASE UNCHANGED vars
    <3> USE <2>2 DEF vars
    <3>1. ByteInv'
      BY ByteInvStutters DEF FrameInv
    <3>2. StreamLaid' /\ Fresh' /\ (Steady' <=> Steady)
      BY DEF FrameInv, StreamLaid, StreamLength, Fresh, Steady
    <3>3. RequestRight => RequestRight'
      BY DEF RequestRight, Wanted
    <3>4. FramesRight => FramesRight'
      BY DEF FramesRight, IsBody
    <3> QED
      BY <3>1, <3>2, <3>3, <3>4 DEF FrameInv
  <2> QED
    BY <2>1, <2>2
<1> QED
  BY InitFrameInv, <1>1, PTL DEF Spec

\* The decoder is handed whole bodies of frames, once and in their order, for every size
\* of frames, headers and recvs and every cut of the stream.
THEOREM WholeFrames == Spec => []FramesWhole
<1>1. FrameInv => FramesWhole
  BY DEF FrameInv, Steady, FramesRight, FramesWhole
<1> QED
  BY FrameInvariance, <1>1, PTL

=============================================================================
