------------------------------- MODULE PPSession -------------------------------
(***************************************************************************)
(* Pairing a 3DS client with a server (PPSession.cpp, PPSessionManager.cpp *)
(* and the connect dialog of PPUI.cpp): connect, authenticate, ask for the *)
(* hub items, decode them, paired.                                         *)
(*                                                                         *)
(* Two threads of the client work on the same unguarded state.  The main   *)
(* thread runs the dialog, which polls Authentication on every frame; the  *)
(* network thread runs threadMain.  They share the manager's two states    *)
(* and what the network thread is to wait for (g_waitForSize, g_msgTag);   *)
(* only the send queue has a mutex.  A step below ends where the other     *)
(* thread can see the difference.  The server answers as PPClientSession   *)
(* does, and bytes are positions in its stream, as they are there.  A       *)
(* receive error ends the network thread and goes unnoticed by the other;  *)
(* an error of send, which hangs it, is PPSessionLifecycle's.              *)
(***************************************************************************)
EXTENDS Integers, Sequences, FiniteSets

CONSTANTS
    HeaderSize,  \* MSG_COMMAND_SIZE
    HubSize,     \* the bytes of the hub items' message body
    BufferSize,  \* BUFFERSIZE, the most bytes one recv takes
    PoolSize,    \* BUFFER_POOL_SIZE, the bytes of g_receivedBuffer
    AuthAnswers  \* the codes servers answer an authentication with: this
                 \* repository's always AUTH_SUCCESS, others may refuse

AUTHENTICATION == 1
AUTH_SUCCESS   == 5
AUTH_FAILED    == 6
HUB_REQUEST    == 60
HUB_ITEMS      == 61

ASSUME SizesAssumption ==
    /\ HeaderSize \in Nat \ {0}
    /\ HubSize \in Nat \ {0}
    /\ BufferSize \in Nat \ {0}
    /\ PoolSize \in Nat

ASSUME AnswersAssumption == AuthAnswers \subseteq {AUTH_SUCCESS, AUTH_FAILED}

\* recv is handed BUFFERSIZE bytes of room behind an answer that came too
\* early, or behind a body that lacks its last byte.
ASSUME PoolAssumption ==
    /\ HeaderSize + BufferSize <= PoolSize
    /\ HubSize - 1 + BufferSize <= PoolSize

VARIABLES
    sessionState,   \* PPSessionManager::_sessionState, without its SS_ prefix
    busyState,      \* PPSessionManager::_busyState
    mainPc,         \* where the main thread is in Authentication
    netPc,          \* where the network thread is in threadMain
    connectState,   \* _connect_state
    kill,           \* _kill; _running is set while the thread exists
    authenticated,  \* _authenticated
    tmpMessage,     \* _tmpMessage: the code and size of the header parsed last
    hubItems,       \* _hubItems: the stream regions whose items were decoded
    queue,          \* _sendingMessages
    asked,          \* history: how often the dialog has asked for an authentication
    base,           \* the stream offset of g_receivedBuffer[0]
    received,       \* g_receivedSize
    waitFor,        \* g_waitForSize
    tag,            \* g_msgTag
    chunk,          \* the size and tag processReceivedMsg is called with
    toServer,       \* messages on their way to the server
    serverLog,      \* history: the messages the server has read
    serverAuth,     \* the server session's _authenticated
    stream,         \* the messages the server has written: [code, size]
    at,             \* at[k]: the stream offset of message k
    delivered       \* the bytes of the stream that recv has returned

managerVars == <<sessionState, busyState>>
waitVars    == <<waitFor, tag>>
bufferVars  == <<base, received, delivered>>
serverVars  == <<toServer, serverLog, serverAuth, stream, at>>
linkVars    == <<connectState, kill>>
sessionVars == <<linkVars, authenticated, tmpMessage, hubItems, queue, asked>>
vars == <<sessionState, busyState, mainPc, netPc, connectState, kill, authenticated,
          tmpMessage, hubItems, queue, asked, base, received, waitFor, tag, chunk,
          toServer, serverLog, serverAuth, stream, at, delivered>>

NoMessage == [code |-> 0, size |-> 0]
NoChunk   == [size |-> 0, tag |-> "none"]

\* ConnectToServer has just created the session and its thread.
Init ==
    /\ sessionState = "CONNECTING"
    /\ busyState = "NONE"
    /\ mainPc = "idle"
    /\ netPc = "connect"
    /\ connectState = "IDLE"
    /\ kill = FALSE
    /\ authenticated = FALSE
    /\ tmpMessage = NoMessage
    /\ hubItems = << >>
    /\ queue = << >>
    /\ asked = 0
    /\ base = 0
    /\ received = 0
    /\ waitFor = 0
    /\ tag = "none"
    /\ chunk = NoChunk
    /\ toServer = << >>
    /\ serverLog = << >>
    /\ serverAuth = FALSE
    /\ stream = << >>
    /\ at = <<0>>
    /\ delivered = 0

-----------------------------------------------------------------------------
(* The server, message by message.                                         *)

StreamLength == at[Len(at)]

Answer(code, size) ==
    /\ stream' = Append(stream, [code |-> code, size |-> size])
    /\ at' = Append(at, StreamLength + HeaderSize + size)

ServerReads ==
    /\ toServer # << >>
    /\ toServer' = Tail(toServer)
    /\ serverLog' = Append(serverLog, Head(toServer))

ServerAuthenticates ==
    /\ ServerReads
    /\ Head(toServer) = AUTHENTICATION
    /\ ~serverAuth
    /\ \E answer \in AuthAnswers :
         /\ Answer(answer, 0)
         /\ serverAuth' = (answer = AUTH_SUCCESS)
    /\ UNCHANGED <<managerVars, mainPc, netPc, sessionVars, bufferVars, waitVars, chunk>>

ServerSendsHubItems ==
    /\ ServerReads
    /\ Head(toServer) = HUB_REQUEST
    /\ serverAuth
    /\ Answer(HUB_ITEMS, HubSize)
    /\ UNCHANGED <<serverAuth, managerVars, mainPc, netPc, sessionVars, bufferVars,
                   waitVars, chunk>>

\* A second authentication is a header the session does not know.
ServerIgnores ==
    /\ ServerReads
    /\ Head(toServer) = AUTHENTICATION
    /\ serverAuth
    /\ UNCHANGED <<serverAuth, stream, at, managerVars, mainPc, netPc, sessionVars,
                   bufferVars, waitVars, chunk>>

Server == ServerAuthenticates \/ ServerSendsHubItems \/ ServerIgnores

-----------------------------------------------------------------------------
(* The main thread: the connect dialog calls Authentication on every frame *)
(* once the session is connected.                                          *)

mainRest == <<netPc, linkVars, authenticated, tmpMessage, hubItems, bufferVars,
              chunk, serverVars, sessionState>>

MainStep(from, to) == mainPc = from /\ mainPc' = to

\* MUTANT: the state of the session is not looked at.
AuthenticationNeededEarly == busyState = "NONE"

\* The guard of Authentication.
AuthenticationNeeded == sessionState = "CONNECTED" /\ busyState = "NONE"

Authentication ==
    /\ MainStep("idle", "setBusy")
    /\ AuthenticationNeeded
    /\ UNCHANGED <<mainRest, busyState, queue, asked, waitVars>>

SetBusyAuthentication ==
    /\ MainStep("setBusy", "addMessage")
    /\ busyState' = "AUTHENTICATION"
    /\ UNCHANGED <<mainRest, queue, asked, waitVars>>

\* AddMessageToQueue drops what it is given while the session is down or its
\* thread is to end, and nobody learns of it.  The look and the push are one
\* step: what is let through and finds a thread that has sent for the last
\* time is as lost as what is dropped (PPSessionLifecycle takes them apart).
AddMessageToQueue(code) ==
    queue' = IF connectState = "CONNECTED" /\ ~kill THEN Append(queue, code) ELSE queue

SendMsgAuthentication ==
    /\ MainStep("addMessage", "setWait")
    /\ AddMessageToQueue(AUTHENTICATION)
    /\ asked' = asked + 1
    /\ UNCHANGED <<mainRest, busyState, waitVars>>

\* RequestForData(MSG_COMMAND_SIZE, PPREQUEST_AUTHEN), in two writes that
\* the network thread can come between.
RequestSize ==
    /\ MainStep("setWait", "setTag")
    /\ waitFor' = HeaderSize
    /\ UNCHANGED <<mainRest, busyState, queue, asked, tag>>

RequestTag ==
    /\ MainStep("setTag", "idle")
    /\ tag' = "AUTHEN"
    /\ UNCHANGED <<mainRest, busyState, queue, asked, waitFor>>

MainContinues == SetBusyAuthentication \/ SendMsgAuthentication \/ RequestSize \/ RequestTag

Main == Authentication \/ MainContinues

-----------------------------------------------------------------------------
(* The network thread: connect, then receive, process and send for ever.   *)

NetStep(from, to) == netPc = from /\ netPc' = to

\* The socket is connected: first the session's own state, which lets
\* AddMessageToQueue through, then the manager's, which wakes the dialog.
ConnectToServer ==
    /\ NetStep("connect", "announce")
    /\ connectState' = "CONNECTED"
    /\ UNCHANGED <<managerVars, mainPc, kill, authenticated, tmpMessage, hubItems, queue,
                   asked, bufferVars, waitVars, chunk, serverVars>>

AnnounceConnected ==
    /\ NetStep("announce", "recv")
    /\ sessionState' = "CONNECTED"
    /\ UNCHANGED <<busyState, mainPc, sessionVars, bufferVars, waitVars, chunk, serverVars>>

\* No socket, no address, or the connection is refused: the thread goes on
\* sleeping, and the dialog sees SS_FAILED.
ConnectFails ==
    /\ NetStep("connect", "failed")
    /\ connectState' = "FAIL"
    /\ sessionState' = "FAILED"
    /\ UNCHANGED <<busyState, mainPc, kill, authenticated, tmpMessage, hubItems, queue,
                   asked, bufferVars, waitVars, chunk, serverVars>>

\* MUTANT: the size waited for is compared one byte short.
ChunkReadyShort(n, w) == n + 1 >= w /\ w # 0

\* MUTANT: one more byte has to come before a chunk is read.
ChunkReadyStrict(n, w) == n > w /\ w # 0

\* Is a whole chunk of size w there, in a buffer of n bytes?
ChunkReady(n, w) == n >= w /\ w # 0

\* With n bytes in the buffer, cut the next chunk or go on to send.  The
\* size is loaded once for the comparisons, the tag only for the call.
CutChunk(n) ==
    /\ netPc' = IF ChunkReady(n, waitFor) THEN "loadTag" ELSE "send"
    /\ chunk' = IF ChunkReady(n, waitFor) THEN [NoChunk EXCEPT !.size = waitFor] ELSE NoChunk

RecvSocketData ==
    /\ netPc = "recv"
    /\ \E n \in 1..BufferSize :
         /\ delivered + n <= StreamLength
         /\ delivered' = delivered + n
         /\ received' = received + n
         /\ CutChunk(received + n)
    /\ UNCHANGED <<managerVars, mainPc, sessionVars, base, waitVars, serverVars>>

\* EWOULDBLOCK: nothing has arrived, and what is in the buffer is left alone.
RecvWouldBlock ==
    /\ NetStep("recv", "send")
    /\ UNCHANGED <<managerVars, mainPc, sessionVars, bufferVars, waitVars, chunk, serverVars>>

\* Any other error: the loop is to end.  The states stay as they are.
RecvError ==
    /\ NetStep("recv", "send")
    /\ kill' = TRUE
    /\ UNCHANGED <<managerVars, mainPc, connectState, authenticated, tmpMessage, hubItems,
                   queue, asked, bufferVars, waitVars, chunk, serverVars>>

\* sendMessageData empties the queue, with the mutex held.
SendQueue ==
    /\ toServer' = toServer \o queue
    /\ queue' = << >>
    /\ UNCHANGED <<managerVars, mainPc, kill, authenticated, tmpMessage, hubItems, asked,
                   bufferVars, waitVars, chunk, serverLog, serverAuth, stream, at>>

SendMessageData ==
    /\ netPc = "send"
    /\ netPc' = IF kill THEN "end" ELSE "recv"
    /\ SendQueue
    /\ UNCHANGED connectState

\* Behind the loop: what is left is sent, and the connection closed.
ThreadEnds ==
    /\ NetStep("end", "ended")
    /\ SendQueue
    /\ connectState' = "IDLE"

-----------------------------------------------------------------------------
(* processReceivedMsg, on the chunk at base.                               *)

LoadTag ==
    /\ NetStep("loadTag", "process")
    /\ chunk' = [chunk EXCEPT !.tag = tag]
    /\ UNCHANGED <<managerVars, mainPc, sessionVars, bufferVars, waitVars, serverVars>>

\* RequestForData(size, t), again in two writes.
WriteOf == [AUTHEN |-> "writeAuthen", HEADER |-> "writeHeader", BODY |-> "writeBody"]

RequestForData(size, t) ==
    /\ waitFor' = size
    /\ netPc' = WriteOf[t]
    /\ UNCHANGED tag

WriteTag ==
    /\ \E t \in DOMAIN WriteOf : NetStep(WriteOf[t], "shift") /\ tag' = t
    /\ UNCHANGED <<managerVars, mainPc, sessionVars, bufferVars, waitFor, chunk, serverVars>>

\* The messages whose header stands at base; ParseHeader fails without one.
HeaderHere == {k \in 1..Len(stream) : at[k] = base}

\* MUTANT: whatever answer parses is taken for a success.
AcceptedAny == chunk.tag = "AUTHEN" /\ HeaderHere # {}

Accepted ==
    /\ chunk.tag = "AUTHEN"
    /\ \E k \in HeaderHere : stream[k].code = AUTH_SUCCESS

AcceptAuthentication ==
    /\ NetStep("process", "authenticated")
    /\ ~authenticated
    /\ Accepted
    /\ authenticated' = TRUE
    /\ UNCHANGED <<managerVars, mainPc, linkVars, tmpMessage, hubItems, queue, asked,
                   bufferVars, waitVars, chunk, serverVars>>

RejectChunk ==
    /\ netPc = "process"
    /\ ~authenticated
    /\ ~Accepted
    /\ RequestForData(HeaderSize, "AUTHEN")
    /\ UNCHANGED <<managerVars, mainPc, sessionVars, bufferVars, chunk, serverVars>>

ClearBusy ==
    /\ NetStep("authenticated", "askHub")
    /\ busyState' = "NONE"
    /\ UNCHANGED <<sessionState, mainPc, sessionVars, bufferVars, waitVars, chunk, serverVars>>

\* SendMsgRequestHubItems, unless the dialog has made the manager busy again.
SendMsgRequestHubItems ==
    /\ netPc = "askHub"
    /\ netPc' = IF connectState = "CONNECTED" /\ authenticated /\ busyState = "NONE"
                  THEN "setBusyHub" ELSE "shift"
    /\ UNCHANGED <<managerVars, mainPc, sessionVars, bufferVars, waitVars, chunk, serverVars>>

SetBusyHubItems ==
    /\ NetStep("setBusyHub", "queueHub")
    /\ busyState' = "HUB_ITEMS"
    /\ hubItems' = << >>
    /\ UNCHANGED <<sessionState, mainPc, linkVars, authenticated, tmpMessage, queue, asked,
                   bufferVars, waitVars, chunk, serverVars>>

\* MUTANT: the header of the answer is not asked for.
QueueHubRequestOnly ==
    /\ NetStep("queueHub", "shift")
    /\ AddMessageToQueue(HUB_REQUEST)
    /\ UNCHANGED <<managerVars, mainPc, linkVars, authenticated, tmpMessage, hubItems, asked,
                   bufferVars, waitVars, chunk, serverVars>>

QueueHubRequest ==
    /\ netPc = "queueHub"
    /\ AddMessageToQueue(HUB_REQUEST)
    /\ RequestForData(HeaderSize, "HEADER")
    /\ UNCHANGED <<managerVars, mainPc, linkVars, authenticated, tmpMessage, hubItems, asked,
                   bufferVars, chunk, serverVars>>

\* MUTANT: the size in a header is taken to count the header.
ReadHeaderWhole ==
    /\ netPc = "process"
    /\ authenticated
    /\ chunk.tag = "HEADER"
    /\ \E k \in HeaderHere :
         tmpMessage' = stream[k] /\ RequestForData(HeaderSize + stream[k].size, "BODY")
    /\ UNCHANGED <<managerVars, mainPc, linkVars, authenticated, hubItems, queue, asked,
                   bufferVars, chunk, serverVars>>

\* A header makes the session wait for the body; anything else is cleared.
ReadHeader ==
    /\ netPc = "process"
    /\ authenticated
    /\ chunk.tag = "HEADER"
    /\ IF HeaderHere = {}
         THEN tmpMessage' = NoMessage /\ RequestForData(HeaderSize, "HEADER")
         ELSE \E k \in HeaderHere :
                tmpMessage' = stream[k] /\ RequestForData(stream[k].size, "BODY")
    /\ UNCHANGED <<managerVars, mainPc, linkVars, authenticated, hubItems, queue, asked,
                   bufferVars, chunk, serverVars>>

\* MUTANT: the items of every body are decoded, whatever its size.
BodyComplete(size) == TRUE

\* A body of another size than the header announced is not decoded.
BodyExpected(size) == size = tmpMessage.size

\* processMessageData decodes the hub items; it has no use for the bodies
\* of the other codes a server sends before the stream is started.
ReadBody ==
    /\ netPc = "process"
    /\ authenticated
    /\ chunk.tag = "BODY"
    /\ BodyExpected(chunk.size)
    /\ IF tmpMessage.code = HUB_ITEMS
         THEN /\ hubItems' = Append(hubItems, [from |-> base, size |-> chunk.size])
              /\ netPc' = "clearHub"
         ELSE UNCHANGED hubItems /\ netPc' = "nextHeader"
    /\ UNCHANGED <<managerVars, mainPc, linkVars, authenticated, tmpMessage, queue, asked,
                   bufferVars, waitVars, chunk, serverVars>>

DropBody ==
    /\ NetStep("process", "shift")
    /\ authenticated
    /\ chunk.tag = "BODY"
    /\ ~BodyExpected(chunk.size)
    /\ tmpMessage' = NoMessage
    /\ UNCHANGED <<managerVars, mainPc, linkVars, authenticated, hubItems, queue, asked,
                   bufferVars, waitVars, chunk, serverVars>>

ClearBusyHub ==
    /\ NetStep("clearHub", "pair")
    /\ busyState' = "NONE"
    /\ UNCHANGED <<sessionState, mainPc, sessionVars, bufferVars, waitVars, chunk, serverVars>>

Pair ==
    /\ NetStep("pair", "nextHeader")
    /\ sessionState' = "PAIRED"
    /\ UNCHANGED <<busyState, mainPc, sessionVars, bufferVars, waitVars, chunk, serverVars>>

RequestNextHeader ==
    /\ netPc = "nextHeader"
    /\ tmpMessage' = NoMessage
    /\ RequestForData(HeaderSize, "HEADER")
    /\ UNCHANGED <<managerVars, mainPc, linkVars, authenticated, hubItems, queue, asked,
                   bufferVars, chunk, serverVars>>

\* A tag that is neither, once authenticated: the chunk is dropped.
IgnoreChunk ==
    /\ NetStep("process", "shift")
    /\ authenticated
    /\ chunk.tag \notin {"HEADER", "BODY"}
    /\ UNCHANGED <<managerVars, mainPc, sessionVars, bufferVars, waitVars, chunk, serverVars>>

\* MUTANT: the buffer is shifted by what is waited for now.
ShiftByWait ==
    /\ netPc = "shift"
    /\ base' = base + waitFor
    /\ received' = received - chunk.size
    /\ CutChunk(received - chunk.size)
    /\ UNCHANGED <<managerVars, mainPc, sessionVars, delivered, waitVars, serverVars>>

\* Move what is left to the front and look for the next chunk in it.
Shift ==
    /\ netPc = "shift"
    /\ base' = base + chunk.size
    /\ received' = received - chunk.size
    /\ CutChunk(received - chunk.size)
    /\ UNCHANGED <<managerVars, mainPc, sessionVars, delivered, waitVars, serverVars>>

Process ==
    \/ LoadTag
    \/ AcceptAuthentication
    \/ ClearBusy
    \/ SendMsgRequestHubItems
    \/ SetBusyHubItems
    \/ QueueHubRequest
    \/ RejectChunk
    \/ ReadHeader
    \/ ReadBody
    \/ ClearBusyHub
    \/ Pair
    \/ RequestNextHeader
    \/ DropBody
    \/ IgnoreChunk
    \/ WriteTag
    \/ Shift

\* All of threadMain but the arrival of data and errors, which the network decides.
NetContinues ==
    \/ ConnectToServer
    \/ AnnounceConnected
    \/ ConnectFails
    \/ RecvWouldBlock
    \/ SendMessageData
    \/ ThreadEnds
    \/ Process

Next == Server \/ Main \/ RecvSocketData \/ RecvError \/ NetContinues

Spec == Init /\ [][Next]_vars

\* Both threads and the server keep running, and what a server writes on a
\* connection that stays up arrives: recv cannot miss it for ever.
Fairness ==
    /\ WF_vars(Server)
    /\ WF_vars(Main)
    /\ WF_vars(NetContinues)
    /\ SF_vars(RecvSocketData)

FairSpec == Spec /\ Fairness

-----------------------------------------------------------------------------
(* Properties.                                                             *)

NetPc == {"connect", "announce", "failed", "recv", "send", "end", "ended", "loadTag", "process",
          "authenticated", "askHub", "setBusyHub", "queueHub", "clearHub", "pair",
          "nextHeader", "writeAuthen", "writeHeader", "writeBody", "shift"}

Tags == {"none", "AUTHEN", "HEADER", "BODY"}

Requests == {AUTHENTICATION, HUB_REQUEST}

TypeOK ==
    /\ sessionState \in {"CONNECTING", "CONNECTED", "FAILED", "PAIRED"}
    /\ busyState \in {"NONE", "AUTHENTICATION", "HUB_ITEMS"}
    /\ mainPc \in {"idle", "setBusy", "addMessage", "setWait", "setTag"}
    /\ netPc \in NetPc
    /\ connectState \in {"IDLE", "CONNECTED", "FAIL"}
    /\ kill \in BOOLEAN
    /\ authenticated \in BOOLEAN
    /\ tmpMessage \in [code : Nat, size : Nat]
    /\ hubItems \in Seq([from : Nat, size : Nat])
    /\ queue \in Seq(Requests)
    /\ asked \in Nat
    /\ base \in Nat
    /\ received \in Nat
    /\ waitFor \in Nat
    /\ tag \in Tags
    /\ chunk \in [size : Nat, tag : Tags]
    /\ toServer \in Seq(Requests)
    /\ serverLog \in Seq(Requests)
    /\ serverAuth \in BOOLEAN
    /\ stream \in Seq([code : Nat, size : Nat])
    /\ at \in Seq(Nat)
    /\ delivered \in Nat

\* Whatever the two threads do to what is waited for, g_receivedBuffer holds
\* the bytes delivered last, without a gap, and never less than the chunk
\* that is being read (recvSocketData).
BufferContiguous ==
    /\ base + received = delivered
    /\ chunk.size <= received

\* recv always has room for BUFFERSIZE bytes behind what is in the buffer,
\* which no line of recvSocketData checks.
PoolBound == netPc = "recv" => received + BufferSize <= PoolSize

\* The requests of the session, from the oldest to the one queued last.
Requested == serverLog \o toServer \o queue

Authentications == Cardinality({i \in 1..Len(Requested) : Requested[i] = AUTHENTICATION})

\* AddMessageToQueue tells nobody what it drops.  As long as recv has met no
\* error, every authentication the dialog has asked for, the second as well as
\* the first, has been put into the queue and is still there, on its way or
\* read; and none is ever there twice.
AuthenticationNotDropped ==
    /\ Authentications <= asked
    /\ ~kill => Authentications = asked

\* The hub items are asked for once, after an authentication the server has
\* accepted: SendMsgRequestHubItems never runs ahead of the handshake.
HandshakeOrder ==
    LET hubRequests == {i \in 1..Len(Requested) : Requested[i] = HUB_REQUEST} IN
    /\ \A i, j \in hubRequests : i = j
    /\ \A i \in hubRequests : i # 1 /\ Requested[1] = AUTHENTICATION /\ serverAuth
    /\ authenticated => serverAuth

\* The dialog closes on SS_PAIRED: the hub items on the screen behind it are
\* those of the one message the server sent, decoded from its first byte to
\* its last, whatever the interleaving and however the bytes were cut.
PairedWithItems ==
    sessionState = "PAIRED" =>
        /\ serverAuth
        /\ \E k \in 1..Len(stream) :
             /\ stream[k].code = HUB_ITEMS
             /\ hubItems = <<[from |-> at[k] + HeaderSize, size |-> stream[k].size]>>

\* The number of the message whose body a decoded region is; 0 if it is none's.
BodyOf(region) ==
    LET whole == {k \in 1..Len(stream) :
                    region = [from |-> at[k] + HeaderSize, size |-> stream[k].size]} IN
    IF whole = {} THEN 0 ELSE CHOOSE k \in whole : TRUE

Bodies == [i \in 1..Len(hubItems) |-> BodyOf(hubItems[i])]

\* Message by message, the two threads and the server are a PairingProtocol.
Protocol == INSTANCE PairingProtocol WITH
    AuthRequest <- AUTHENTICATION,
    HubRequest  <- HUB_REQUEST,
    Welcome     <- [code |-> AUTH_SUCCESS, size |-> 0],
    Refusal     <- [code |-> AUTH_FAILED, size |-> 0],
    Items       <- [code |-> HUB_ITEMS, size |-> HubSize],
    shown       <- sessionState,
    requests    <- Requested,
    read        <- Len(serverLog),
    answers     <- stream,
    accepted    <- authenticated,
    decoded     <- Bodies

\* However the threads interleave and the bytes are cut, every step is one that the
\* protocol allows: no request out of turn, no answer taken for another, nothing
\* decoded that is not a whole message of hub items, nothing shown before it.
ImplementsPairing == Protocol!Spec

\* An authentication whose answer was not yet on its way when the dialog's
\* RequestForData ended is answered, unless recv meets an error: no piece of the
\* answer is missed.
AuthenticationAnswered ==
    mainPc = "idle" /\ busyState = "AUTHENTICATION" /\ stream = << >>
        ~> authenticated \/ kill \/ \E k \in 1..Len(stream) : stream[k].code = AUTH_FAILED

\* Once the session waits for the hub items, and the dialog has not slipped
\* in a second authentication, they are received, decoded and shown, unless recv
\* meets an error.
HubRequestAnswered ==
    mainPc = "idle" /\ busyState = "HUB_ITEMS" /\ Authentications = 1
        ~> sessionState = "PAIRED" \/ kill

\* What PPSessionManager.h:92-93 says ConnectToServer ends in: "SS_FAILED if
\* connect error", "SS_PAIRED if connect and authentication successfully"; here
\* of connections that recv meets no error on.
HandshakeCompletes ==
    sessionState = "CONNECTED" ~> sessionState \in {"PAIRED", "FAILED"} \/ kill
=============================================================================
