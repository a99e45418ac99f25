------------------------------- MODULE PPNetwork -------------------------------
(***************************************************************************)
(* The test client's connection (PinBoxTestProject: PPNetwork.cpp, and the *)
(* session and manager that use it): the network thread connects, sends    *)
(* what is queued and receives what it was told to wait for; the main      *)
(* thread reads the keys `a', start, and `s', stop.                        *)
(*                                                                         *)
(* What recv brings beyond the request at hand waits in a second buffer    *)
(* for the next request.  A request is made by SetRequestData, on the      *)
(* network thread by the callback of the request before and on the main    *)
(* thread by a stop; nothing is locked.  Bytes are positions in the stream *)
(* of the server, which is one that lets this client in: this repository's *)
(* own refuses its code, PPClientSession.cpp:82.                           *)
(***************************************************************************)
EXTENDS Integers, Sequences

CONSTANTS
    HeaderSize,   \* MSG_COMMAND_SIZE
    RecvSize,     \* bufferSize, the most bytes one recv takes
    FrameSizes,   \* the sizes frames have
    Answers,      \* the codes servers answer an authentication with
    MaxFrames,    \* bound: frames of one connection
    MaxKeys       \* bound: keys the user presses

AUTH_SUCCESS == 5
AUTH_FAILED  == 6
FRAME        == 15

ASSUME SizesAssumption ==
    /\ HeaderSize \in Nat \ {0}
    /\ RecvSize \in Nat \ {0}
    /\ FrameSizes \subseteq Nat \ {0}

ASSUME AnswersAssumption == Answers \subseteq {AUTH_SUCCESS, AUTH_FAILED}

ASSUME BoundsAssumption == MaxFrames \in Nat /\ MaxKeys \in Nat

VARIABLES
    connectState,   \* g_connect_state
    netPc,          \* where the network thread is
    mainPc,         \* where the main thread is in SS_StopStream
    queue,          \* g_sendingMessage
    waitFor,        \* g_waitForSize
    tag,            \* g_tag
    ask,            \* what the network thread's SetRequestData is to write
    base,           \* the stream position of g_receivedBuffer[0]
    received,       \* g_receivedCounter
    tmp,            \* g_tmpReceivedBuffer: [from, size], of size 0 when it is null
    chunk,          \* what the callback is called with, and where it returns to
    authenticated,  \* g_authenticated
    tmpMessage,     \* g_tmpMessage
    frames,         \* the regions handed to the decoder
    toServer,       \* messages on their way to the server
    streaming,      \* does the server stream?
    stream,         \* the messages the server has written: [code, size]
    at,             \* at[k]: the stream position of message k
    delivered,      \* the bytes recv has returned
    link,           \* the TCP connection
    stops,          \* history: stops
    connects,       \* history: starts
    raced,          \* history: has a stop found nothing waited for?
    lost            \* history: has a message been dropped, garbled or rejected?

waitVars    == <<waitFor, tag>>
bufferVars  == <<base, received, tmp, delivered>>
sessionVars == <<authenticated, tmpMessage, frames>>
serverVars  == <<toServer, streaming, stream, at, link>>
countVars   == <<stops, connects>>
vars == <<connectState, netPc, mainPc, queue, waitFor, tag, ask, base, received, tmp, chunk,
          authenticated, tmpMessage, frames, toServer, streaming, stream, at, delivered,
          link, stops, connects, raced, lost>>

NoTmp == [from |-> 0, size |-> 0]
NoAsk == [size |-> 0, tag |-> "none"]
NoChunk == [from |-> 0, size |-> 0, tag |-> "none", back |-> "send"]
NoMessage == [code |-> 0, size |-> 0]

Init ==
    /\ connectState = "IDLE"
    /\ netPc = "none"
    /\ mainPc = "idle"
    /\ queue = << >>
    /\ waitFor = 0
    /\ tag = "none"
    /\ ask = NoAsk
    /\ base = 0
    /\ received = 0
    /\ tmp = NoTmp
    /\ chunk = NoChunk
    /\ authenticated = FALSE
    /\ tmpMessage = NoMessage
    /\ frames = << >>
    /\ toServer = << >>
    /\ streaming = FALSE
    /\ stream = << >>
    /\ at = <<0>>
    /\ delivered = 0
    /\ link = "none"
    /\ stops = 0
    /\ connects = 0
    /\ raced = FALSE
    /\ lost = FALSE

-----------------------------------------------------------------------------
(* The server, and the connection to it.                                   *)

StreamLength == at[Len(at)]

ServerWrites(code, size) ==
    /\ stream' = Append(stream, [code |-> code, size |-> size])
    /\ at' = Append(at, StreamLength + HeaderSize + size)

serverRest == <<connectState, netPc, mainPc, queue, waitVars, ask, bufferVars, chunk,
                sessionVars, countVars, raced, lost>>

\* What follows a garbled message is not read.
ServerReads ==
    /\ link = "up"
    /\ toServer # << >>
    /\ Head(toServer) # "garbled"
    /\ toServer' = Tail(toServer)
    /\ IF Head(toServer) = "auth" THEN \E code \in Answers : ServerWrites(code, 0)
                                  ELSE UNCHANGED <<stream, at>>
    /\ streaming' = (Head(toServer) = "start" \/ (streaming /\ Head(toServer) # "stop"))
    /\ UNCHANGED <<serverRest, link>>

ServerSendsFrame ==
    /\ link = "up"
    /\ streaming
    /\ Len(stream) <= MaxFrames
    /\ \E size \in FrameSizes : ServerWrites(FRAME, size)
    /\ UNCHANGED <<serverRest, toServer, streaming, link>>

\* The server closes the connection, or it breaks.
LinkEnds ==
    /\ link = "up"
    /\ link' \in {"closed", "broken"}
    /\ UNCHANGED <<serverRest, toServer, streaming, stream, at>>

Server == ServerReads \/ ServerSendsFrame \/ LinkEnds

-----------------------------------------------------------------------------
(* The main thread.                                                        *)

mainRest == <<ask, bufferVars, chunk, sessionVars, serverVars, lost>>

\* StartStreaming and Start; a network that is not idle is left alone.  (`a' pressed
\* again before the thread it starts has left IDLE makes a second thread: left out.)
Start ==
    /\ connectState = "IDLE"
    /\ netPc \in {"none", "ended"}
    /\ stops + connects < MaxKeys
    /\ queue' = << >>
    /\ netPc' = "connect"
    /\ connects' = connects + 1
    /\ UNCHANGED <<connectState, mainPc, waitVars, mainRest, stops, raced>>

\* SendMessageData; without a connection it prints a line.
Queued(message) == IF connectState = "CONNECTED" THEN Append(queue, message) ELSE queue

\* SS_StopStream, up to the comparison in SetRequestData.
StopStream ==
    /\ mainPc = "idle"
    /\ stops + connects < MaxKeys
    /\ stops' = stops + 1
    /\ queue' = Queued("stop")
    /\ mainPc' = IF waitFor > 0 THEN "idle" ELSE "writeSize"
    /\ raced' = (raced \/ waitFor = 0)
    /\ UNCHANGED <<connectState, netPc, waitVars, mainRest, connects>>

StopWritesSize ==
    /\ mainPc = "writeSize"
    /\ mainPc' = "writeTag"
    /\ waitFor' = HeaderSize
    /\ UNCHANGED <<connectState, netPc, queue, tag, mainRest, countVars, raced>>

StopWritesTag ==
    /\ mainPc = "writeTag"
    /\ mainPc' = "idle"
    /\ tag' = "HEADER"
    /\ UNCHANGED <<connectState, netPc, queue, waitFor, mainRest, countVars, raced>>

Main == Start \/ StopStream \/ StopWritesSize \/ StopWritesTag

-----------------------------------------------------------------------------
(* SetRequestData on the network thread.                                   *)

netRest == <<mainPc, countVars, raced>>

\* It refuses when something is waited for; then the thread goes on at once.
SetRequestData(size, t, next) ==
    /\ netPc' = IF waitFor > 0 THEN next ELSE "writeSize"
    /\ ask' = IF waitFor > 0 THEN NoAsk ELSE [size |-> size, tag |-> t]

WriteSize ==
    /\ netPc = "writeSize"
    /\ netPc' = "writeTag"
    /\ waitFor' = ask.size
    /\ UNCHANGED <<netRest, connectState, queue, tag, ask, bufferVars, chunk, sessionVars,
                   serverVars, lost>>

\* After an authentication the stream is still to be started.
AfterCallback == IF chunk.tag = "AUTHEN" THEN "start" ELSE chunk.back

WriteTag ==
    /\ netPc = "writeTag"
    /\ netPc' = AfterCallback
    /\ tag' = ask.tag
    /\ ask' = NoAsk
    /\ UNCHANGED <<netRest, connectState, queue, waitFor, bufferVars, chunk, sessionVars,
                   serverVars, lost>>

-----------------------------------------------------------------------------
(* ppNetwork_connectToServer, ppNetwork_sendMessage.                       *)

\* No address, no socket, or the connection is refused: the thread ends, and the
\* state that it leaves lets no other one start.
ConnectFails ==
    /\ netPc = "connect"
    /\ netPc' = "ended"
    /\ connectState' = "FAIL"
    /\ UNCHANGED <<netRest, queue, waitVars, ask, bufferVars, chunk, sessionVars, serverVars,
                   lost>>

Connected ==
    /\ netPc = "connect"
    /\ netPc' = "hello"
    /\ connectState' = "CONNECTED"
    /\ chunk' = NoChunk
    /\ toServer' = << >> /\ streaming' = FALSE /\ stream' = << >> /\ at' = <<0>>
    /\ link' = "up"
    /\ base' = 0 /\ delivered' = 0
    /\ UNCHANGED <<netRest, queue, waitVars, ask, received, tmp, sessionVars, lost>>

\* g_onConnectionSuccessed.
Hello ==
    /\ netPc = "hello"
    /\ queue' = Queued("auth")
    /\ SetRequestData(HeaderSize, "AUTHEN", "send")
    /\ UNCHANGED <<netRest, connectState, waitVars, bufferVars, chunk, sessionVars, serverVars,
                   lost>>

\* One message for each turn of the thread's loop.  An error drops it; when send takes
\* a part, the whole message is sent once more behind that part.  (The queue is popped
\* here and pushed to by both threads without a lock; what that does to it is left out.)
SendMessage ==
    /\ netPc = "send"
    /\ netPc' = "listen"
    /\ IF queue = << >>
       THEN UNCHANGED <<queue, toServer, lost>>
       ELSE /\ queue' = Tail(queue)
            /\ \/ link = "up" /\ toServer' = Append(toServer, Head(queue)) /\ lost' = lost
               \/ link = "up" /\ toServer' = Append(toServer, "garbled") /\ lost' = TRUE
               \/ toServer' = toServer /\ lost' = TRUE
    /\ UNCHANGED <<netRest, connectState, waitVars, ask, bufferVars, chunk, sessionVars,
                   streaming, stream, at, link>>

-----------------------------------------------------------------------------
(* ppNetwork_listenToServer.                                               *)

\* ppNetwork_onReceivedRequet: n bytes at `from' complete the request; the callback is
\* still to come.
Complete(from, n, back) ==
    /\ chunk' = [from |-> from, size |-> n, tag |-> tag, back |-> back]
    /\ base' = from + n
    /\ received' = 0
    /\ waitFor' = 0
    /\ tag' = "none"
    /\ netPc' = "callback"

\* Where the buffer begins once a piece at `from' is behind what it holds.
BaseWith(from) == IF received = 0 THEN from ELSE base

Keep(from, n) ==
    /\ base' = BaseWith(from)
    /\ received' = received + n
    /\ UNCHANGED <<waitVars, chunk>>

listenRest == <<netRest, connectState, queue, ask, sessionVars, serverVars>>

\* Nothing to wait for, or nothing left over from the last recv.
Listen ==
    /\ netPc = "listen"
    /\ waitFor = 0 \/ tmp.size = 0
    /\ netPc' = IF waitFor = 0 THEN "send" ELSE "recv"
    /\ UNCHANGED <<listenRest, waitVars, bufferVars, chunk, lost>>

\* ppNetwork_processTmpBufferData: less than a request is left over.
UseAllTmp ==
    /\ netPc = "listen"
    /\ 0 < tmp.size /\ tmp.size < waitFor
    /\ Keep(tmp.from, tmp.size)
    /\ tmp' = NoTmp
    /\ netPc' = "recv"
    /\ UNCHANGED <<listenRest, delivered, lost>>

\* MUTANT: what is left over is thrown away with the buffer.
CutTmpShort ==
    /\ netPc = "listen"
    /\ 0 < waitFor /\ waitFor <= tmp.size
    /\ Complete(BaseWith(tmp.from), received + waitFor, "recv")
    /\ tmp' = NoTmp
    /\ UNCHANGED <<listenRest, delivered, lost>>

\* MUTANT: listening goes on to recv though something is left over.
CutTmpGoOn ==
    /\ netPc = "listen"
    /\ 0 < waitFor /\ waitFor <= tmp.size
    /\ Complete(BaseWith(tmp.from), received + waitFor, "recv")
    /\ tmp' = IF tmp.size = waitFor
               THEN NoTmp
               ELSE [from |-> tmp.from + waitFor, size |-> tmp.size - waitFor]
    /\ UNCHANGED <<listenRest, delivered, lost>>

\* A request, or more, is left over.  The rest of it is cut off behind the callback,
\* which does not look at it; when there is no rest, listening goes on to recv.
CutTmp ==
    /\ netPc = "listen"
    /\ 0 < waitFor /\ waitFor <= tmp.size
    /\ Complete(BaseWith(tmp.from), received + waitFor,
                IF tmp.size = waitFor THEN "recv" ELSE "send")
    /\ tmp' = IF tmp.size = waitFor
               THEN NoTmp
               ELSE [from |-> tmp.from + waitFor, size |-> tmp.size - waitFor]
    /\ UNCHANGED <<listenRest, delivered, lost>>

\* MUTANT: what is received is compared with the request, and not what is there.
ReceiveUncounted ==
    /\ netPc = "recv"
    /\ link \in {"up", "closed"}
    /\ \E n \in 1..RecvSize :
         /\ delivered + n <= StreamLength
         /\ delivered' = delivered + n
         /\ \/ /\ n < waitFor
               /\ Keep(delivered, n)
               /\ netPc' = "send"
               /\ tmp' = tmp
            \/ /\ n >= waitFor /\ received <= waitFor
               /\ Complete(BaseWith(delivered), waitFor, "send")
               /\ tmp' = IF received + n > waitFor
                         THEN [from |-> delivered + (waitFor - received),
                               size |-> received + n - waitFor]
                         ELSE tmp
            \/ /\ n >= waitFor /\ received > waitFor
               /\ netPc' = "crashed"
               /\ UNCHANGED <<base, received, waitVars, chunk, tmp>>
    /\ UNCHANGED <<listenRest, lost>>

\* A piece that does not complete the request, or the end of it, the rest going to tmp;
\* or, with more bytes there than are waited for, a copy of a negative size.
Receive ==
    /\ netPc = "recv"
    /\ link \in {"up", "closed"}
    /\ \E n \in 1..RecvSize :
         /\ delivered + n <= StreamLength
         /\ delivered' = delivered + n
         /\ \/ /\ received + n < waitFor
               /\ Keep(delivered, n)
               /\ netPc' = "send"
               /\ tmp' = tmp
            \/ /\ received + n >= waitFor /\ received <= waitFor
               /\ Complete(BaseWith(delivered), waitFor, "send")
               /\ tmp' = IF received + n > waitFor
                         THEN [from |-> delivered + (waitFor - received),
                               size |-> received + n - waitFor]
                         ELSE tmp
            \/ /\ received > waitFor
               /\ netPc' = "crashed"
               /\ UNCHANGED <<base, received, waitVars, chunk, tmp>>
    /\ UNCHANGED <<listenRest, lost>>

\* recv returns -1, which an unsigned number makes the largest: nothing has arrived
\* yet, or nothing ever will.
ReceiveNothing ==
    /\ netPc = "recv"
    /\ netPc' = "send"
    /\ UNCHANGED <<listenRest, waitVars, bufferVars, chunk, lost>>

\* recv returns 0, and the thread ends with ppNetwork_closeConnection; the request
\* is forgotten only if a part of it is there.
ReceiveEnd ==
    /\ netPc = "recv"
    /\ link = "closed"
    /\ delivered = StreamLength
    /\ netPc' = "ended"
    /\ connectState' = "IDLE"
    /\ received' = 0
    /\ waitFor' = IF received > 0 THEN 0 ELSE waitFor
    /\ tag' = IF received > 0 THEN "none" ELSE tag
    /\ base' = base + received
    /\ tmp' = NoTmp
    /\ UNCHANGED <<netRest, queue, ask, delivered, chunk, sessionVars, serverVars, lost>>

-----------------------------------------------------------------------------
(* PPSession's callback for a request received.                            *)

callbackRest == <<netRest, connectState, waitVars, bufferVars, chunk, serverVars>>

\* The messages whose header the chunk is.
HeaderIn == {k \in 1..Len(stream) : at[k] = chunk.from /\ chunk.size = HeaderSize}

LetsIn == chunk.tag = "AUTHEN" /\ \E k \in HeaderIn : stream[k].code = AUTH_SUCCESS

\* The manager's only session is let in: SS_ChangeSetting.
LetIn ==
    /\ netPc = "callback"
    /\ ~authenticated
    /\ LetsIn
    /\ authenticated' = TRUE
    /\ queue' = Queued("settings")
    /\ SetRequestData(HeaderSize, "HEADER", "start")
    /\ UNCHANGED <<callbackRest, tmpMessage, frames, lost>>

\* SS_StartStream, whose own SetRequestData finds the request of SS_ChangeSetting.
StartStream ==
    /\ netPc = "start"
    /\ netPc' = chunk.back
    /\ queue' = Queued("start")
    /\ UNCHANGED <<callbackRest, ask, sessionVars, lost>>

\* Not let in, or the answer does not parse: nothing is waited for any more.  A right
\* header may fail to parse: ParseHeader compares four bytes without an end as a string
\* and takes equality, decided by the byte behind them, for the failure.
TurnAway ==
    /\ netPc = "callback"
    /\ ~authenticated
    /\ netPc' = chunk.back
    /\ lost' = TRUE
    /\ UNCHANGED <<callbackRest, queue, ask, sessionVars>>

\* What is no header parses too; Parsed is what ParseHeader makes of the chunk.
Parsed ==
    IF HeaderIn # {} THEN {stream[k] : k \in HeaderIn}
                     ELSE [code : {0, FRAME}, size : FrameSizes]

\* MUTANT: the size in a header is taken to count the header.
ReadHeaderWhole ==
    /\ netPc = "callback"
    /\ authenticated
    /\ chunk.tag = "HEADER"
    /\ \E m \in Parsed :
         /\ tmpMessage' = [m EXCEPT !.size = @ + HeaderSize]
         /\ SetRequestData(m.size + HeaderSize, "BODY", chunk.back)
    /\ UNCHANGED <<callbackRest, queue, authenticated, frames, lost>>

ReadHeader ==
    /\ netPc = "callback"
    /\ authenticated
    /\ chunk.tag = "HEADER"
    /\ \E m \in Parsed :
         /\ tmpMessage' = m
         /\ SetRequestData(m.size, "BODY", chunk.back)
    /\ UNCHANGED <<callbackRest, queue, authenticated, frames, lost>>

\* The comparison of TurnAway once more.
RejectHeader ==
    /\ netPc = "callback"
    /\ authenticated
    /\ chunk.tag = "HEADER"
    /\ tmpMessage' = NoMessage
    /\ netPc' = chunk.back
    /\ lost' = TRUE
    /\ UNCHANGED <<callbackRest, queue, ask, authenticated, frames>>

\* MUTANT: after a frame the next header is not asked for.
ReadBodyOnly ==
    /\ netPc = "callback"
    /\ authenticated
    /\ chunk.tag = "BODY"
    /\ tmpMessage # NoMessage
    /\ chunk.size = tmpMessage.size
    /\ queue' = Queued("received")
    /\ frames' = Append(frames, [from |-> chunk.from, size |-> chunk.size])
    /\ tmpMessage' = NoMessage
    /\ netPc' = chunk.back
    /\ UNCHANGED <<callbackRest, ask, authenticated, lost>>

\* A body of the announced size: a frame is acknowledged and handed to the decoder.
ReadBody ==
    /\ netPc = "callback"
    /\ authenticated
    /\ chunk.tag = "BODY"
    /\ tmpMessage # NoMessage
    /\ chunk.size = tmpMessage.size
    /\ IF tmpMessage.code = FRAME
       THEN /\ queue' = Queued("received")
            /\ frames' = Append(frames, [from |-> chunk.from, size |-> chunk.size])
       ELSE UNCHANGED <<queue, frames>>
    /\ SetRequestData(HeaderSize, "HEADER", chunk.back)
    /\ tmpMessage' = NoMessage
    /\ UNCHANGED <<callbackRest, authenticated, lost>>

\* A body of another size, or one nothing has announced, and any other tag.
IgnoreChunk ==
    /\ netPc = "callback"
    /\ authenticated
    /\ chunk.tag # "HEADER"
    /\ chunk.tag = "BODY" => tmpMessage = NoMessage \/ chunk.size # tmpMessage.size
    /\ tmpMessage' = IF chunk.tag = "BODY" THEN NoMessage ELSE tmpMessage
    /\ netPc' = chunk.back
    /\ UNCHANGED <<callbackRest, queue, ask, authenticated, frames, lost>>

Callback ==
    \/ LetIn \/ StartStream \/ TurnAway
    \/ ReadHeader \/ RejectHeader \/ ReadBody \/ IgnoreChunk

-----------------------------------------------------------------------------

Network ==
    \/ WriteSize \/ WriteTag
    \/ ConnectFails \/ Connected \/ Hello \/ SendMessage
    \/ Listen \/ UseAllTmp \/ CutTmp \/ Receive \/ ReceiveNothing \/ ReceiveEnd
    \/ Callback

Next == Server \/ Main \/ Network

\* The thread's loop goes on, and bytes that have arrived are received at some time.
Fairness == WF_vars(Network) /\ SF_vars(Receive)

Spec == Init /\ [][Next]_vars /\ Fairness

-----------------------------------------------------------------------------
(* Properties.                                                             *)

Tag == {"none", "AUTHEN", "HEADER", "BODY"}
Message == [code : Nat, size : Nat]
Region == [from : Nat, size : Nat]

TypeOK ==
    /\ connectState \in {"IDLE", "CONNECTED", "FAIL"}
    /\ netPc \in {"none", "connect", "hello", "send", "listen", "recv", "callback", "start",
                  "writeSize", "writeTag", "ended", "crashed"}
    /\ mainPc \in {"idle", "writeSize", "writeTag"}
    /\ waitFor \in Nat /\ received \in Nat /\ base \in Nat /\ delivered \in Nat
    /\ tag \in Tag
    /\ ask \in [size : Nat, tag : Tag]
    /\ tmp \in Region
    /\ chunk \in [from : Nat, size : Nat, tag : Tag, back : {"send", "recv"}]
    /\ authenticated \in BOOLEAN
    /\ tmpMessage \in Message
    /\ frames \in Seq(Region)
    /\ stream \in Seq(Message)
    /\ at \in Seq(Nat)
    /\ Len(at) = Len(stream) + 1
    /\ stops \in Nat /\ connects \in Nat
    /\ raced \in BOOLEAN /\ lost \in BOOLEAN

\* "NOTE: is it possible if going to this part without being nullptr ?": it is not;
\* recv is called, and its rest kept, only when nothing is left over from the recv
\* before, whatever the two threads do (PPNetwork.cpp:328).
TmpNeverOverwritten == netPc = "recv" => tmp.size = 0

\* No byte of a connection is lost, doubled or put out of its place: what is handed to
\* the session, what is received of the next request and what is left over are the
\* bytes recv has returned, in their order (PPNetwork.cpp:210-247, 308-336).
BytesInOrder ==
    netPc \notin {"none", "connect", "ended", "crashed"} =>
        /\ base + received + tmp.size = delivered
        /\ tmp.size > 0 => tmp.from = base + received

\* The buffer for a request, made when its first bytes come, has room for what is
\* copied into it, unless a stop has changed the request in between.
RequestNotShrunk == ~raced => received = 0 \/ received < waitFor

IsBody(region) ==
    \E k \in 1..Len(stream) :
        /\ stream[k].code = FRAME
        /\ stream[k].size = region.size
        /\ at[k] + HeaderSize = region.from

\* On its first connection the decoder is handed whole bodies of frames, each once and
\* in their order, however the stream is cut up and whenever the user stops it, as long
\* as every stop finds a request waited for (PPSession.cpp:57-113, PPNetwork.cpp:428).
FramesWhole ==
    connects = 1 /\ ~raced =>
        /\ \A i \in 1..Len(frames) : IsBody(frames[i])
        /\ \A i, j \in 1..Len(frames) : i < j => frames[i].from < frames[j].from

\* A frame the server has sent reaches the decoder, unless the connection ends, a
\* message of the session has gone wrong, or a stop has found nothing waited for.
FrameShown ==
    \A k \in 1..(MaxFrames + 1) :
        Len(stream) >= k /\ stream[k].code = FRAME /\ connects = 1
            ~> Len(frames) >= k - 1 \/ link # "up" \/ lost \/ raced

=============================================================================
