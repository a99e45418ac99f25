---------------------------- MODULE PPClientSession ----------------------------
(***************************************************************************)
(* One client session of PinBoxServer (PPClientSession.cpp): the TCP       *)
(* segments that evpp hands to ProcessMessage are appended to              *)
(* _receivedBuffer and cut into chunks of _waitForSize bytes, which are    *)
(* read as an authentication header, a message header or a message body.   *)
(*                                                                         *)
(* Bytes are positions in the client's byte stream: at[k] is where message *)
(* k begins and at[Len(sent) + 1] where the stream ends.  _receivedBuffer  *)
(* is the interval of _receivedBufferSize bytes that begins at base, so    *)
(* that appending and shifting are arithmetic, and a header is found       *)
(* exactly when a valid message begins at base.                            *)
(***************************************************************************)
EXTENDS Integers, Sequences, FiniteSets

CONSTANTS
    HeaderSize,     \* MSG_COMMAND_SIZE, the bytes of a message header
    Capacity,       \* BUFFER_SIZE, the bytes of _receivedBuffer
    MaxSegment,     \* the most bytes evpp hands over in one message callback
    Message,        \* what peers write: records [valid, code, size]
    MaxMessages     \* bound: messages written in a behaviour

\* The message codes of PPClientSession.h the session tells apart.
AUTHENTICATION == 1
AUTH_SUCCESS   == 5
AUTH_FAILED    == 6
START_CAPTURE  == 10
STOP_CAPTURE   == 11
INPUT          == 42
HUB_REQUEST    == 60
HUB_ITEMS      == 61

ASSUME HeaderSizeAssumption == HeaderSize \in Nat \ {0}

\* What does not start with the validation code comes in blocks of a header.
ASSUME MessageAssumption ==
    \A m \in Message :
        /\ m.valid \in BOOLEAN
        /\ m.code \in Nat
        /\ m.size \in Nat
        /\ ~m.valid => m.size = 0

ASSUME MaxMessagesAssumption == MaxMessages \in Nat

\* A message can wait in the buffer for its last byte when the next segment
\* comes; the 8 MB of BUFFER_SIZE leave room for both.
ASSUME CapacityAssumption ==
    /\ Capacity \in Nat
    /\ MaxSegment \in Nat
    /\ HeaderSize + MaxSegment <= Capacity
    /\ \A m \in Message : m.size + MaxSegment <= Capacity

VARIABLES
    sent,           \* the messages the client has written to its socket
    at,             \* at[k]: the stream offset of the first byte of message k
    delivered,      \* the bytes of the stream handed to ProcessMessage
    connected,      \* the TCP connection, as evpp's connection callback tells it
    base,           \* the stream offset of _receivedBuffer[0]
    bufSize,        \* _receivedBufferSize
    waitFor,        \* _waitForSize
    looping,        \* ProcessMessage is inside its do-while loop
    authenticated,  \* _authenticated
    readState,      \* _currentReadState
    tmpMessage,     \* _tmpMessage: the code and size of the header parsed last
    replies,        \* the codes of the messages the session has sent
    capturer,       \* ScreenCapturer: is this its client, is it streaming?
    inputs,         \* where in the stream each input applied by UpdateInput was read
    outcome         \* history: what became of each message, in order

streamVars  == <<sent, at>>
bufferVars  == <<base, bufSize, waitFor, looping>>
effectVars  == <<replies, capturer, inputs>>
vars == <<sent, at, delivered, connected, base, bufSize, waitFor, looping,
          authenticated, readState, tmpMessage, replies, capturer, inputs, outcome>>

NoMessage == [code |-> 0, size |-> 0]

Init ==
    /\ sent = << >>
    /\ at = <<0>>
    /\ delivered = 0
    /\ connected = TRUE
    /\ base = 0
    /\ bufSize = 0
    /\ waitFor = HeaderSize
    /\ looping = FALSE
    /\ authenticated = FALSE
    /\ readState = "none"
    /\ tmpMessage = NoMessage
    /\ replies = << >>
    /\ capturer = [client |-> FALSE, streaming |-> FALSE]
    /\ inputs = << >>
    /\ outcome = << >>

-----------------------------------------------------------------------------
(* The environment: the peer's socket and the network.                     *)

StreamLength == at[Len(at)]

\* Until the session has answered AUTH_SUCCESS, clients write nothing but
\* empty messages: only then do they send input or settings.
ClientSend ==
    /\ connected
    /\ Len(sent) < MaxMessages
    /\ \E m \in Message :
         /\ authenticated \/ m.size = 0
         /\ sent' = Append(sent, m)
         /\ at' = Append(at, StreamLength + HeaderSize + m.size)
    /\ UNCHANGED <<delivered, connected, bufferVars, authenticated, readState,
                   tmpMessage, effectVars, outcome>>

-----------------------------------------------------------------------------
(* ProcessMessage: append the segment, then cut chunks in a loop.          *)

\* MUTANT: the loop condition forgets to compare with the bytes received.
ChunkReadyUnchecked(n, w) == w # 0

\* l.44 and l.62: is a whole chunk of size w there, in a buffer of n bytes?
ChunkReady(n, w) == n >= w /\ w # 0

\* evpp hands over the next n bytes of the stream, in order and once.
ProcessMessage ==
    /\ connected
    /\ ~looping
    /\ \E n \in 1..MaxSegment :
         /\ delivered + n <= StreamLength
         /\ delivered' = delivered + n
         /\ bufSize' = bufSize + n
         /\ looping' = ChunkReady(bufSize + n, waitFor)
    /\ UNCHANGED <<streamVars, connected, base, waitFor, authenticated,
                   readState, tmpMessage, effectVars, outcome>>

\* MUTANT: the validation code is not compared.
HeaderHereUnvalidated == {k \in 1..Len(sent) : at[k] = base}

\* The message whose header stands at base, or nothing: ParseHeader accepts
\* a chunk that starts with the validation code, and body bytes never do.
HeaderHere == {k \in 1..Len(sent) : at[k] = base /\ sent[k].valid}

\* MUTANT: an if in place of the do-while, one chunk for every callback.
ShiftOnce(nextWait) ==
    /\ waitFor' = nextWait
    /\ base' = base + waitFor
    /\ bufSize' = bufSize - waitFor
    /\ looping' = FALSE
    /\ UNCHANGED <<streamVars, delivered, connected>>

\* MUTANT: the buffer is shifted by the size waited for next.
ShiftByNext(nextWait) ==
    /\ waitFor' = nextWait
    /\ base' = base + nextWait
    /\ bufSize' = bufSize - waitFor
    /\ looping' = ChunkReady(bufSize - waitFor, nextWait)
    /\ UNCHANGED <<streamVars, delivered, connected>>

\* The end of an iteration: drop the chunk just read, look for another.
Shift(nextWait) ==
    /\ waitFor' = nextWait
    /\ base' = base + waitFor
    /\ bufSize' = bufSize - waitFor
    /\ looping' = ChunkReady(bufSize - waitFor, nextWait)
    /\ UNCHANGED <<streamVars, delivered, connected>>

\* _connection->Send of a message with this code.
Send(code) == replies' = Append(replies, code)

Conclude(verdict) == outcome' = Append(outcome, verdict)

\* An unauthenticated session answers AUTH_FAILED to a chunk that is not an
\* authentication header, and keeps waiting for one.
Refuse ==
    /\ looping
    /\ ~authenticated
    /\ \A k \in HeaderHere : sent[k].code # AUTHENTICATION
    /\ Send(AUTH_FAILED)
    /\ Conclude("refused")
    /\ Shift(waitFor)
    /\ UNCHANGED <<authenticated, readState, tmpMessage, capturer, inputs>>

\* The authentication header makes the session the capturer's client and
\* is answered with AUTH_SUCCESS.
Authenticate ==
    /\ looping
    /\ ~authenticated
    /\ \E k \in HeaderHere : sent[k].code = AUTHENTICATION
    /\ capturer' = [capturer EXCEPT !.client = TRUE]
    /\ authenticated' = TRUE
    /\ readState' = "header"
    /\ Send(AUTH_SUCCESS)
    /\ Conclude("welcomed")
    /\ Shift(HeaderSize)
    /\ UNCHANGED <<tmpMessage, inputs>>

\* A chunk that should be a header and does not parse is dropped.
SkipHeader ==
    /\ looping
    /\ authenticated
    /\ readState = "header"
    /\ HeaderHere = {}
    /\ tmpMessage' = NoMessage
    /\ Conclude("skipped")
    /\ Shift(waitFor)
    /\ UNCHANGED <<authenticated, readState, effectVars>>

\* MUTANT: every known request is acknowledged when its header is read.
ProcessMessageHeaderAcks(code) ==
    /\ IF code \in {HUB_REQUEST, START_CAPTURE} THEN Send(HUB_ITEMS) ELSE UNCHANGED replies
    /\ UNCHANGED <<capturer, inputs>>

\* processMessageHeader: the hub request is answered as soon as its header
\* is read; every other code waits for its body.
ProcessMessageHeader(code) ==
    /\ IF code = HUB_REQUEST THEN Send(HUB_ITEMS) ELSE UNCHANGED replies
    /\ UNCHANGED <<capturer, inputs>>

\* A header that announces no content ends its message.
ReadHeaderOnly ==
    /\ looping
    /\ authenticated
    /\ readState = "header"
    /\ \E k \in HeaderHere :
         /\ sent[k].size = 0
         /\ tmpMessage' = [code |-> sent[k].code, size |-> 0]
         /\ ProcessMessageHeader(sent[k].code)
    /\ Conclude("handled")
    /\ Shift(HeaderSize)
    /\ UNCHANGED <<authenticated, readState>>

\* A header that announces content makes the session wait for the body.
ReadHeader ==
    /\ looping
    /\ authenticated
    /\ readState = "header"
    /\ \E k \in HeaderHere :
         /\ sent[k].size > 0
         /\ tmpMessage' = [code |-> sent[k].code, size |-> sent[k].size]
         /\ ProcessMessageHeader(sent[k].code)
         /\ Shift(sent[k].size)
    /\ readState' = "body"
    /\ UNCHANGED <<authenticated, outcome>>

\* MUTANT: the body is read from the buffer after it was shifted.
ProcessMessageBodyShifted(code) ==
    /\ capturer' = capturer
    /\ inputs' = IF code = INPUT THEN Append(inputs, base + waitFor) ELSE inputs

\* processMessageBody: start and stop the stream, apply the input; the
\* settings are read and thrown away.  (startStream and stopStream are
\* guarded by the flag they set.)
ProcessMessageBody(code) ==
    /\ capturer' = CASE code = START_CAPTURE -> [capturer EXCEPT !.streaming = TRUE]
                     [] code = STOP_CAPTURE  -> [capturer EXCEPT !.streaming = FALSE]
                     [] OTHER                -> capturer
    /\ inputs' = IF code = INPUT THEN Append(inputs, base) ELSE inputs

\* The body of the message parsed last.  A chunk of another size than the
\* announced one would be dropped.
ReadBody ==
    /\ looping
    /\ authenticated
    /\ readState = "body"
    /\ IF waitFor = tmpMessage.size
         THEN /\ ProcessMessageBody(tmpMessage.code)
              /\ readState' = "header"
              /\ tmpMessage' = NoMessage
              /\ Conclude("handled")
              /\ Shift(HeaderSize)
         ELSE /\ Shift(waitFor)
              /\ UNCHANGED <<readState, tmpMessage, capturer, inputs, outcome>>
    /\ UNCHANGED <<authenticated, replies>>

\* The peer closes or is lost.  evpp runs the callbacks of a connection on
\* one thread, so never inside ProcessMessage's loop.  _tmpMessage is freed
\* (nothing reads it afterwards); the stream is not stopped, and the capturer
\* keeps its pointer to this session.
DisconnectFromServer ==
    /\ connected
    /\ ~looping
    /\ connected' = FALSE
    /\ UNCHANGED <<streamVars, delivered, bufferVars, authenticated, readState,
                   tmpMessage, effectVars, outcome>>

Iterate ==
    \/ Refuse
    \/ Authenticate
    \/ SkipHeader
    \/ ReadHeaderOnly
    \/ ReadHeader
    \/ ReadBody

Next ==
    \/ ClientSend
    \/ ProcessMessage
    \/ Iterate
    \/ DisconnectFromServer

Spec == Init /\ [][Next]_vars

\* TCP delivers what was written to a connection that stays up, and the
\* event loop's thread runs the callback it has started to its end.
Fairness == WF_vars(ProcessMessage) /\ WF_vars(Iterate)

FairSpec == Spec /\ Fairness

-----------------------------------------------------------------------------
(* Properties.                                                             *)

TypeOK ==
    /\ sent \in Seq(Message)
    /\ at \in Seq(Nat)
    /\ Len(at) = Len(sent) + 1
    /\ delivered \in Nat
    /\ connected \in BOOLEAN
    /\ base \in Nat
    /\ bufSize \in Nat
    /\ waitFor \in Nat
    /\ looping \in BOOLEAN
    /\ authenticated \in BOOLEAN
    /\ readState \in {"none", "header", "body"}
    /\ tmpMessage \in [code : Nat, size : Nat]
    /\ replies \in Seq({AUTH_SUCCESS, AUTH_FAILED, HUB_ITEMS})
    /\ capturer \in [client : BOOLEAN, streaming : BOOLEAN]
    /\ inputs \in Seq(Nat)
    /\ outcome \in Seq({"welcomed", "refused", "handled", "skipped"})

\* However TCP cuts the stream, the session never loses its place in it:
\* _receivedBuffer holds the delivered bytes from base on, base is where the
\* message being read or its body begins, and _waitForSize is exactly what
\* is missing of it (ProcessMessage, ProcessIncommingMessage).
FrameAligned ==
    LET k == Len(outcome) + 1 IN
    /\ base + bufSize = delivered
    /\ k <= Len(at)
    /\ readState # "body" => base = at[k] /\ waitFor = HeaderSize
    /\ readState = "body" =>
         /\ k <= Len(sent)
         /\ base = at[k] + HeaderSize
         /\ waitFor = sent[k].size
         /\ tmpMessage = [code |-> sent[k].code, size |-> sent[k].size]

\* Between two callbacks no complete chunk is left in the buffer, where it
\* would wait until the peer writes something else (the do-while of
\* ProcessMessage).
NothingStranded == ~looping => bufSize < waitFor

\* Appending never runs over the 8 MB buffer, which memcpy does not check.
NoOverflow == bufSize <= Capacity

\* The messages whose header the session has read.
HeadersRead == 1 .. Len(outcome) + (IF readState = "body" THEN 1 ELSE 0)

\* The code message k of them is answered with, 0 if it is not answered.
AnswerTo(k) ==
    CASE k <= Len(outcome) /\ outcome[k] = "refused"  -> AUTH_FAILED
      [] k <= Len(outcome) /\ outcome[k] = "welcomed" -> AUTH_SUCCESS
      [] /\ k <= Len(outcome) => outcome[k] = "handled"
         /\ sent[k].code = HUB_REQUEST                -> HUB_ITEMS
      [] OTHER                                        -> 0

Answered == {k \in HeadersRead : AnswerTo(k) # 0}

\* Each refused chunk, each authentication and each hub request is answered
\* once and in the order the client asked (sendMessageWithCode): the reply to
\* the n-th message that is answered is the n-th reply.
RepliesInOrder ==
    /\ Len(replies) = Cardinality(Answered)
    /\ \A k \in Answered : replies[Cardinality({j \in Answered : j <= k})] = AnswerTo(k)

\* The input messages the session has read to their end; one without content
\* has no input to apply.
InputsRead == {k \in 1..Len(outcome) : /\ outcome[k] = "handled"
                                       /\ sent[k].code = INPUT
                                       /\ sent[k].size > 0}

\* Every input message is applied once, in order, and read from its own
\* body (processMessageBody).
InputsAppliedOnce ==
    /\ \A i, j \in 1..Len(inputs) : i < j => inputs[i] < inputs[j]
    /\ {inputs[i] : i \in 1..Len(inputs)} = {at[k] + HeaderSize : k \in InputsRead}

\* Message by message, the session is a SessionProtocol.
Protocol == INSTANCE SessionProtocol WITH AuthCode <- AUTHENTICATION

ImplementsProtocol == Protocol!Spec

\* Whatever the segments, a message written on a connection that stays up
\* is eventually read to its end (ProcessMessage).
EveryMessageJudged ==
    \A n \in 1..MaxMessages :
        Len(sent) >= n ~> Len(outcome) >= n \/ ~connected

\* What PPSessionManager.h:155 promises of the start message ("Tell server
\* that client want to start streaming"): once the session has handled it,
\* and no stop after it, the capturer streams.
StartStartsStream ==
    \A k \in 1..Len(outcome) :
        /\ outcome[k] = "handled"
        /\ sent[k].code = START_CAPTURE
        /\ \A j \in k + 1..Len(outcome) : sent[j].code # STOP_CAPTURE
        => capturer.streaming
=============================================================================
