# PinBox in TLA+

PinBox shows the screen of a Windows PC on a Nintendo 3DS and sends the 3DS's
buttons back. This directory models the parts of it that decide something
together: who may talk when, where in a byte stream a reader is, which thread
owns what. TLC checks the models on small instances, and TLAPS proves theorems about
all of them for every value of their constants: every invariant that a run checks is
also a theorem, and so are the three refinements.

Most of the repository's lines are copies of other people's libraries (FFmpeg, opus,
libevent and evpp, lodepng, libconfig, screen_capture_lite); they are not modelled, and the
program's own code is a small share of what a count of lines sees.

## The system

Three programs share one wire format: a header of nine bytes ("PPBX", a code, a
32-bit content size) and the content.

| part | source | state | operations | hard because |
|---|---|---|---|---|
| server session | `PinBoxServer/PPClientSession.cpp`, `PPMessage.cpp` | receive buffer and its size, `_waitForSize`, `_authenticated`, `_currentReadState`, `_tmpMessage` | connection and message callbacks of evpp; reading headers and bodies; answers | TCP cuts the stream anywhere; the loop must neither lose its place nor leave a message behind |
| server | `PPServer.cpp` | one capturer and one input streamer for all sessions | accept, dispatch to sessions, N network threads | sessions on several threads share the capturer without a lock |
| screen capture | `ScreenCaptureSession.cpp` | client pointer, `m_isStartStreaming`, encoder, grabber | register, start, stop, frame callback on a capture thread | start, stop and restart race with the callback |
| audio loopback | `AudioStreamSession.cpp` | capped FIFO, mutex | loopback thread appends, encoder takes | size checked outside the lock, drops at the cap |
| input streamer | `InputStreamSession.cpp` | last input, virtual controller, held keys | `UpdateInput`, `ProcessInput` | numeric edges of the sticks, keys released once |
| hub items | `ServerConfig.cpp`, decoded in `PPSession.cpp` | list of items | encode, decode | lengths must agree at both ends |
| client session | `PinBox/PPSession.cpp` | socket, `_connect_state`, `_authenticated`, receive buffer, `g_waitForSize`, `g_msgTag`, send queue and its mutex, `_running`, `_kill` | connect, receive, process, send on its own thread; requests queued by the main thread | two threads write what is waited for; errors end the thread while the main thread goes on |
| session manager | `PPSessionManager.cpp` | `_sessionState`, `_busyState`, last input, frame counters | connect, authenticate, disconnect, test a connection, stream input | written by both threads without a lock |
| user interface | `PPUI.cpp`, `main.cpp` | dialogs | polls the manager every frame | the connect dialog has neither a timeout nor a cancel |
| configuration | `ConfigManager.cpp` | the server profiles, in memory and in a file on the SD card | load, create, add, remove, save | the file is written in place, and the app may end at any step |
| audio output, decoder | `PPAudio.cpp`, `PPDecoder.cpp` | wave buffers, FFmpeg contexts | fill, decode, release | buffers shared with the DSP |
| test client | `PinBoxTestProject/PPNetwork.cpp`, `PPSession.cpp`, `PPSessionManager.cpp` | two receive buffers, what is waited for, a queue | connect, send, receive; start and stop by a key | a request is made on two threads; "is it thread safe?" its own comment asks |

The 3DS connects; its dialog asks for an authentication on every frame until
the manager is busy; the server answers AUTH_SUCCESS; the client asks for the hub
items as soon as it has processed the answer, decodes them and is paired. Start,
stop and input messages follow on the same connection, frames come back.

What makes each part correct: the server session reads every message once, whole
and in order; the client never shows itself paired without the hub items of a
server that accepted it; a handshake comes to an end; what one thread frees no
other uses; the stream goes to the client that authenticated last, and the capturer's flags say
whether there is one; the audio FIFO gives bytes out in the order they came in; the
controller shows what the user's hands do, though only changes are sent; the test client
loses no byte between its two buffers; the profiles survive the end of the app.

## Modules

| module | models |
|---|---|
| `SessionProtocol` | abstract: what a server session promises, message by message |
| `PPClientSession` | the server session at the level of bytes, callbacks and loop iterations |
| `PPClientSessionProofs` | its inductive invariant and theorems |
| `PairingProtocol` | abstract: what connecting to a server promises, message by message |
| `PPSession` | the 3DS client's two threads from connecting to paired, with the server message by message |
| `PPSessionProofs` | its inductive invariant and theorems |
| `PPSessionLifecycle` | the client's sessions one after the other: threads started, ended, joined, freed; lost connections |
| `PPSessionLifecycleProofs` | its inductive invariant and theorems |
| `AudioStreamSession` | the audio buffer between the loopback thread and the encoder |
| `AudioStreamSessionProofs` | its inductive invariant and theorems |
| `ConfigManager` | the 3DS client's profiles and their file over starts, ends and failing writes |
| `ServerSelect` | the server select screen: `PPSessionLifecycle` and `ConfigManager` composed, over starts of the app |
| `ServerSelectProofs` | theorems about the composition, from those about the sessions |
| `ScreenCaptureSession` | the one capturer, shared by sessions on several network threads and by the capture threads |
| `ScreenCaptureSessionProofs` | its inductive invariant and theorems |
| `InputStreamSession` | the user's input from the 3DS's frame to the virtual controller |
| `InputStreamSessionProofs` | its inductive invariant and theorems |
| `PPNetwork` | the test client's network and main thread, its session, and a server that streams |
| `PPNetworkProofs` | its two inductive invariants and theorems |
| `MC...` | instances for TLC |

### PPClientSession

Bytes are positions in the client's stream. `at[k]` is where message k begins;
the receive buffer is the interval of `bufSize` bytes that begins at `base`, so
appending a segment and shifting a chunk out are arithmetic, and `ParseHeader`
succeeds exactly when a valid message begins at `base`. Body bytes that happen to
look like a header are left out: a header is only looked for where one is due
(that is what `FrameAligned` says).

`ProcessMessage` hands over 1 to `MaxSegment` bytes and starts the do-while loop;
one iteration is one of `Refuse`, `Authenticate`, `SkipHeader`, `ReadHeaderOnly`,
`ReadHeader`, `ReadBody`, each with its dispatch and its shift. evpp runs the
callbacks of a connection on one thread, so only clients come between iterations.
The capturer appears as two bits, is this session its client and has it been
started. Peers may write messages of other programs, too: `Junk` is nine bytes
without the validation code, code 2 is what the test client authenticates with.
Content arrives only after AUTH_SUCCESS, as the clients of this repository do it.
`memcpy` of overlapping memory in the shift (l. 58) is taken as the move it is
compiled to.

### PPSession

The main thread's `Authentication` is five steps (guard, set busy, queue, size,
tag) and `threadMain` a program counter of twenty values, because every write
to `_busyState`, `_sessionState`, `g_waitForSize` and `g_msgTag` can be seen by the
other thread. `g_waitForSize` is loaded once for the comparisons and
`lastWaitForSize` (the compiler keeps it in a register between them, no call comes
in between), `g_msgTag` separately for the call. The queue's mutex makes
`AddMessageToQueue` and `sendMessageData` single steps; that the former looks at the flags before
it takes the mutex is a difference `PPSessionLifecycle` keeps. recv may meet an error each time it
is called (`RecvError`): it sets `_kill`, the loop ends, what is queued is sent and the connection
closed (`ThreadEnds`), while the manager's state stays as it was and the dialog goes on. From then on
`AddMessageToQueue` drops what it is given. `asked` counts what the dialog has asked for, so that what
was dropped can be told from what was not. Errors of send are left to `PPSessionLifecycle`. The server is
`PPClientSession` seen from the other end: it authenticates once, ignores a second
authentication (a header code it does not know), answers the hub request. In
`pairing` the server may also refuse, which servers other than this repository's
may do and which the client has code for.

`PairingProtocol` is what is left of this without threads, bytes and requests for data: the
client asks (its dialog more than once), the server answers what it owes, the client
accepts, asks for the items once, decodes one whole answer and shows itself paired. Under the
refinement mapping the requests are those read, on their way and queued
(`Requested`), and a decoded region of the buffer is the number of the message whose body it is
(`BodyOf`), or 0, which the protocol decodes never. The races that lose a handshake
are behaviours of the protocol, too, which promises no progress.

### PPSessionLifecycle

The main thread presses buttons and runs dialogs one at a time (`mainPc`); deleting a
session is five steps (look at the flags, set them, join, free, forget), because
the session's thread runs on between them. The thread is `netPc`: the loop of
`threadMain` or `threadTest`, and within it recv, the handling of an answer, send.
The pairing of `PPSession` is here two answers, with its window between the two busy
states kept, and with answers that are refused or not expected (`RecvUnread`).
`asked` counts every request that was sent, the second authentication that this
repository's server ignores included, so the model allows more answers than it
gives. The server may close or reset the connection at any time. A recv that
returns 0 leaves `errno` as the last error set it, so an orderly close counts
as an error or as no data (`RecvError`, `RecvEndUnnoticed`). A send that would block
is not modelled, nor is one that takes part of a message. Locking a deleted mutex is
undefined; the model lets it through and `FreedOnlyAfterJoin` says when it can happen.

The dialogs are modal, so the buttons' guards are narrow: connecting and testing
without a session, disconnecting from the error dialog or the paired screen. A
dialog that waits in SS_CONNECTED has no button.

### ConfigManager and ServerSelect

`ConfigManager` keeps of the libconfig file what the profiles depend on: the version and the
list. `config_write_file` is two steps, the open that empties the file and the write, and an
app that ends between them leaves a torn file; the version is the last setting the program
writes, so of a torn file nothing is used and `CreateNewConfigFile` replaces it. A save that
fails is printed and forgotten. `ledger` is what the user has asked for, `lossy` that the
last change has not reached the file. The files the program finds are none or those it has
written, in this version or an older one.

`ServerSelect` is the screen on which both meet. There is one main thread, so while it starts or
writes (`configPc`) it presses no button and runs no dialog, and the network threads go on. A
session is opened to a profile of the list; the OK button of a new profile tests its
connection, and `ForgetTest`, the end of a test's session, pushes and saves the profile when
the test passed; removing is possible while no dialog is up. `ExitApp` is the end of the
process by the HOME menu, the button or the switch, at any step, and starts everything but the
file anew. Between a HOME exit and the end of the process the network thread still
runs while `main` frees what it may use (`~PPSessionManager` is empty); the model's exit
is the whole of it.

### ScreenCaptureSession

A message's handler on a network thread is cut where another thread can see the difference
(`pc`): startStream's test of `m_isStartStreaming`, the construction of the capture manager, the
assignment of `m_frameGrabber` that destroys the one before and joins its threads, the audio
grabber, the encoder; stopStream's flags, the join, the pause, the release. Nothing is locked,
so two threads interleave at these cuts. A manager is named by the start that makes it and calls
back (`captures`) as long as it exists; a callback encodes audio before the guard of
line 76 and video behind it. A session that authenticates becomes the client; one that goes
away stays it. Start and stop messages arrive with a body, which clients of this repository do
not send (`start_stream`): the capturer is modelled for what its code does when it is called.

### InputStreamSession

`Frame` is one pass of the main loop: the keys are read, `UpdateInputStream` compares with what it
remembers and queues a message when something has changed. `AddMessageToQueue` drops the
message when the connection is not up, and the memory is set all the same: `lost` records
that. `ProcessInput` applies the message the server reads next: `UpdateInput` sets buttons and triggers on
key down and clears them on key up, and computes the sticks. The sticks are the code's float
arithmetic in integers (`pC * 30000` truncated is the quotient towards zero; over all
shorts the float computation differs from it at three positions of the right stick, -65, -39 and -26, by one). One axis stands for two that
are treated alike. `LoadInputConfig` keeps the code's short-circuit lookups. One connection at a time
uses the input streamer, and what an old connection has sent is applied before the next
one's.

### PPNetwork

The network thread is `netPc`: connect, send, take from the second buffer or from the socket,
call back. The callback makes the next request in two writes (`waitFor`, `tag`) that the
main thread's stop, which makes a request itself, can come between. Bytes are positions
in the server's stream, as in `PPClientSession`: the receive buffer is `received` bytes at `base`,
the second one an interval. The test client's `ParseHeader` accepts whatever header comes (its
comparison is inverted on an unterminated array), so headers are read where they are due
and every reading of one at another place is `lost`. The server is one that answers the code this
client authenticates with; this repository's refuses it (PPClientSession.cpp:82). A second `a`
pressed before the first thread has connected starts a second thread on the same socket; it is left
out, and with it what two threads do to the buffers.

### AudioStreamSession

A sample is its serial number, and the memory is a function from addresses, so that
the append, the copy and the shift are what `memcpy` does to the contents (the
overlapping one in l. 79 taken as a move). The reader's two unlocked looks at
`audioBufferSize` are steps of their own, the two critical sections one step each. A
packet that does not fit is dropped whole: a step that changes nothing.
`audioFrames` is written and never read.

## Runs

| run | module, cfg | shows |
|---|---|---|
| `server_session` | `MCPPClientSession` | types, framing, no stranded chunk, no overflow, answers and inputs in order, refinement of `SessionProtocol`, every message judged |
| `start_stream` (violation) | `MCPPClientSession`, `StartMCPPClientSession.cfg` | the start message starts nothing |
| `pairing` | `MCPPSession` | the buffer's bounds, no authentication dropped before recv meets an error, paired only with the hub items, refinement of `PairingProtocol` and with it the order of the handshake, an answer that does not come too early is processed, a hub request is answered |
| `handshake_stalls` (violation) | `MCPPSession`, `HandshakeMCPPSession.cfg` | a handshake that stays in SS_CONNECTED for ever |
| `lifecycle` | `MCServerSelect` | over starts and ends of the app: freed only when joined unless the thread ended itself, one thread at a time, sockets closed, the manager's state without a session, disconnecting and testing come to an end; the profiles are kept |
| `use_after_free` (violation) | `MCPPSessionLifecycle`, `FreeMCPPSessionLifecycle.cfg` | a session freed under its thread |
| `send_error` (violation) | `MCPPSessionLifecycle`, `SendErrorMCPPSessionLifecycle.cfg` | a send error that hangs the thread and shows nowhere |
| `audio` | `MCAudioStreamSession` | frames whole and in order, no underflow, the buffer is emptied |
| `capture` | `MCScreenCaptureSession` | starts and stops return, even when they overlap; as long as they do not, the flags say what is true, no callback meets a released encoder, and a client that authenticates takes the stream over |
| `two_managers` (violation) | `MCScreenCaptureSession`, `OneManagerMCScreenCaptureSession.cfg` | a start and a stop on two threads leave two capture managers |
| `input` | `MCInputStreamSession` | the controller shows what the hands do once nothing is on its way, and comes to show it; the sticks keep order and range |
| `test_network` | `MCPPNetwork` | the second buffer is empty when recv is called, no byte is out of its place, a request keeps its room, the decoder gets whole frames, and gets them |

Bounds. `server_session` uses the real sizes (headers of 9 bytes, 16 of input, 13 of
settings), four messages of seven kinds and segments of up to 20 bytes: a segment
can hold two headers and the start of a third, and a body can be cut at each of its
bytes; four messages allow an authentication, a refused or skipped one, and a
message after a body. The 36 bytes of capacity are the least `CapacityAssumption`
allows (a body of 16 and a segment of 20). `pairing` uses headers of 9 bytes, a body
of 12 and at most 5 bytes per recv, less than either, so that a header takes two
calls and a call can hold the end of a header and the start of a body; the pool of
16 bytes is again the least its assumption allows. No other bound is needed: the
dialog authenticates at most twice, because nothing clears the busy state again.

`lifecycle` has two sessions in each start of the app: whatever one leaves behind (a
thread, a state, the busy state) meets the next, and no more than one is known at a time. The
list has room for two equal profiles: one to connect to while another is tested, one
to keep while another is removed; the number of starts is not bounded. `capture` has
two connections on two threads and two starts: enough for two calls to overlap in every way, for a
restart, and for a client to take over a stream that another left; a third thread would meet
the same two flags. `input` has four positions of the hands, with keys that are pressed,
held and released together with others, sticks on both sides of the dead zone and beyond the
range, a queue of two and every kind of profile; `SticksMonotone` is proved for all
positions. `test_network` has headers of 2, a recv of up to 4 and bodies of 1 and 3: a recv
brings the end of one chunk, a whole one and a part of a third; two frames and two
keys allow a start, a stop and a frame that crosses it. `audio` has a buffer of
8 with frames of 3 and packets of 2 and 5, so that packets are smaller and larger than
a frame, are dropped, and leave every remainder; `MaxSamples` ends the sound after
20, several fillings of the buffer.

Fairness. evpp's loop thread finishes the callback it has begun (`WF` of an
iteration), and TCP delivers what was written on a connection that stays up (`WF`
of `ProcessMessage`); nothing makes a client write, or keeps a connection up.
On the 3DS both threads run (`WF` of `Main`, which a dialog polls every frame, and
of `NetContinues`); the arrival of data is decided by the network at the moment
recv is called, so only strong fairness says that data which has been written is
not missed for ever. Nothing makes recv fail, and nothing keeps it from it: an error ends the thread, and
`AuthenticationAnswered`, `HubRequestAnswered` and `HandshakeCompletes` count it (`kill`) as the end of
what they wait for.
In `lifecycle` both threads run, the test dialog polls and a write of the file ends; nobody has
to press a button or end the app, and the network need not fail. In `capture` the network
threads run, and `SF` is needed because a join waits for a callback, and callbacks come and
go; a capture thread finishes its callback (`WF`), and a picture that is captured again and
again is sent at some time (`SF` of `Sends`: the grabber calls back for changed
pictures, the encoder delivers a packet now and then). In `input` frames go on
being drawn and the server reads what has arrived (`WF`); in `test_network` the threads run
and data that was written arrives, at a recv the network chooses (`SF` of `Receive`). In `audio` the capture thread runs its callback
for every picture (`WF` of `Read`), and strong fairness says that
`av_frame_make_writable` does not find memory exhausted each time.

Deadlock is not checked: a client may have nothing more to write, a connection that
failed leaves both threads idle, the sound may end, and bounds on starts, keys and
frames stop a behaviour.

## Proofs

`PPClientSessionProofs` proves `Spec => []IInv` and from it `TypeOK`,
`FrameAligned`, `NothingStranded`, `NoOverflow`, `RepliesInOrder`, `InputsAppliedOnce` and
`Spec => ImplementsProtocol`,
under the assumptions of `PPClientSession`: a header has at least one byte, the
buffer has room for a segment behind any incomplete message, and what is not a
PinBox message comes in blocks of a header.

`FrameAligned` is not inductive. It says where message Len(outcome) + 1 begins; a
step to the next message needs that consecutive messages are a header and a body
apart (`at` against `sent`), that what has been delivered has been written, that
the loop runs exactly while a complete chunk is there, and that the verdicts given
so far are those of whole messages. `IInv` adds these. The lemma `NextMessage`
takes the stream from one message to the next, `ShiftKeeps` does the arithmetic of the
shift once for all six kinds of iteration, and each action has a lemma of its
own. The refinement maps every action but `ClientSend` and the concluding
iterations to a stutter and uses the invariant to know that the header at `base` is
the message that the protocol judges next.

`RepliesInOrder` and `InputsAppliedOnce` say what the session has done for the messages read so
far. An answer's place is its rank: the reply to message k is the one whose number is the
number of messages up to k that are owed one; the inputs applied are, in increasing
order, the places of the contents of the input messages read. Stated with a filter over the
sequence of messages, they would need induction over that sequence; stated with
ranks and sets they need only what one more message adds (`AnswersGrow`, `ConcludeInputs`). They
hold also for a hub request with content and an input without, which no client of this repository
sends and `MCPPClientSession` does not either. A message with content is answered behind its
header and judged behind its body, so `HeadersRead` counts it in between and the proof's
`ReadBody` case shows that its verdict changes no answer.

`PPSessionProofs` proves for every size of header, hub items, recv and pool the invariants of
`pairing`, the order of the handshake (`HandshakeOrder`) and that `PPSession` implements `PairingProtocol`.
`AuthenticationKept` counts: the dialog asks only when it has seen SS_CONNECTED, which is set behind
`_connect_state` (`UpInv`, `DialogAsks`), so that only `_kill` can shut the queue to it; every request that is
added to the three places it can be in counts for itself (`CountRequest`), and the other steps move
requests from one to the next (`OthersKeepAsked`). `WireInv` is
about requests, messages and bytes and does not mention `g_waitForSize` or `g_msgTag`: what
the server has said follows from what it has read (`AnswerInv`), what has been asked from where
the network thread is (`RequestInv`). `PlaceInv` is about those two. Before an answer is accepted all
chunks are headers, whoever asked for them (`RefusedInv`). Behind it the
pairing is in one of six stages (`Accepting`, `HeaderDue`, `HeaderRead`, `BodyDue`, `HubLost`,
`Decoded`); each says what either thread may have left in size and tag. `HubLost` is
one way in which the race of `handshake_stalls` ends: the tag is the dialog's, or the size was and the
header has been forgotten with the chunk, so that no chunk is decoded any more. `PoolBound` needs that before
anything is waited for the server has no more to say than one header (`NotAskedInv`) and that
what is left in the buffer is less than a chunk (`RoomInv`). The refinement needs one
invariant more, that what is shown follows the connection (`ShownInv`), and that the items decoded are
those of the last message (`BodiesAre`). `LostForEver` is about the finding again: once the
network thread has passed SendMsgRequestHubItems without asking (`NotAskedFor`), the state stays
SS_CONNECTED in every behaviour, with or without fairness; the instances of `pairing` and
`handshake_stalls` reach such states.

`PPSessionLifecycleProofs` proves for any number of sessions that memory is taken
from a thread only if it had ended itself (`FreedAfterJoin`), that at most one thread
that nobody told to end runs and belongs to the manager's session (`SingleWriter`), and
that without a session the connect button works (`ConnectButtonWorks`). The argument:
`Killers` says that the main thread tells only the session it is deleting to end, and
frees it behind the join or when the thread had told itself; for that the thread
must have started when it is deleted (`Started`), which the manager's state shows:
until it is connected (`Connecting`) and until it is paired (`Pairing`) the state is
one from which nothing can be deleted. `SocketsAreClosed` has an invariant of its own: closeConnect
closes the socket of a session that is CONNECTED, so a connection that is up, closed or reset must
be one whose session has not forgotten it (`Sockets`). `HangsForEver` says of the finding `send_error` that
it has no way out: a thread that holds the mutex is in the loop, in the join with itself or in
front of the lock behind the loop (`Hanging`), and each way on takes that lock.

`AudioStreamSessionProofs` proves `TypeOK`, `NoUnderflow` and `FramesInOrder` for every capacity,
frame size and set of packets: only the reader takes, so what it saw of the size is
a lower bound (`SizeStillThere`, `FrameThere`), and the memory holds the sound behind
what was taken (`BufferInOrder`).

`ServerSelectProofs` proves for any number of starts, sessions and profiles that the screen
implements `ConfigManager` (`ScreenUsesConfig`), that the profiles are kept
(`ProfilesSurvive`), and that what `PPSessionLifecycleProofs` says of one start holds over all
(`SessionsOverRestarts`; with the types and the closed sockets): every step of the app is a step of the lifecycle or its beginning.
`ConfigInv` adds to `ProfilesKept` what the next start will read from the file in every state
the app can end in.

`ScreenCaptureSessionProofs` proves `StreamingTellsTruth` and `CallbackSafe` for any number of
sessions, threads and starts, under `~overlapped`: there is then at most one call under way
(`Alone`), and `CallStage` says for each place it can be what the flags, the manager and the
encoder are; `FirstStream` does the same for what a callback uses.

`InputStreamSessionProofs` proves `ControllerShowsInput` and `SticksMonotone` for every set
of positions, configuration files and queue length. `LastSent` is the argument: what the
client remembers is the last message in the queue, or, with the queue empty, what the
controller shows, unless it was lost; `SeenIsRemembered` that a frame of a started stream
that has seen the user's input remembers it; `EachOnce` that a key in the message
is down or up and not both. The lemmas on the sticks are about division and hold for
all integers.

`PPNetworkProofs` proves `TmpNeverOverwritten`, `BytesInOrder`, `RequestNotShrunk` and
`FramesWhole`, for all sizes and any number of frames and keys. `ByteInv` says where the bytes
are at each place of the two threads (`TmpKept`, `NothingUnderWay`); `FrameInv` adds that
the stream is laid out as headers and bodies (`StreamLaid`), and that as long as no
stop has raced the request under way, or about to be written by either thread, is the one the
stream is at (`RequestRight`).

Only model-checked are the liveness properties (`EveryMessageJudged`, `AuthenticationAnswered`,
`HubRequestAnswered`, `DisconnectReturns`, `TestConcludes`, `Drained`, `CallsReturn`,
`StreamTakenOver`, `InputArrives`, `FrameShown`): they rest on fairness, which is stated with
ENABLED and is beyond the prover. So is induction over data, which is why no property that is proved
filters or folds a sequence of any length: `Authentications`, like the ranks of `PPClientSession`, is the
cardinality of a set of places. The violations are TLC's, on the instances of their runs; two of the states
they end in are proved to be final (`LostForEver`, `HangsForEver`).

## Findings

- `start_stream`. Clients send the start message without content; the server
  dispatches it only with a body. An authenticated client that asks for the stream
  gets none.
- `handshake_stalls`. Between `SetBusyState(BS_NONE)` and the hub request's
  `SetBusyState(BS_HUB_ITEMS)` the dialog, which runs on the other thread, finds the
  manager idle and authenticates again. The hub items are then never asked for. The
  same stall follows when the answer to the authentication is received before the
  main thread has said what it waits for, and `HubRequestAnswered` and
  `AuthenticationAnswered` hold only with these two races excluded in their premises.
  A connection that recv meets an error on is another matter: the state stays SS_CONNECTED there, too, and
  no line of the code changes it; `HandshakeCompletes` does not count it.
- `use_after_free`. A network thread that meets an error ends itself;
  `ReleaseSession` takes its `_kill` for a join that has been done, and the destructor
  frees the session while the thread is still in its loop. The same error lets the
  main thread lock a mutex that the network thread has deleted.
- `send_error`. An error of send calls `ReleaseSession` on the network thread, which
  waits for itself with the mutex locked, or, told to end before, locks the mutex
  a second time behind its loop. No state shows it. `DisconnectReturns` holds only
  with these two excluded.

- `two_managers`. The flags of the capturer are tested and set without a lock, on several
  network threads: a stop clears them before it has destroyed the manager, and a start
  on another thread makes a second one, which the grabber's library asserts against.

Seen while modelling, where nothing in the repository promises otherwise or the reading of
what it promises is open, and which therefore have no run of their own:

- The profiles of `input.cfg` are not used. `LoadInputConfig` combines its lookups so that the
  second is made only when the first fails (InputStreamSession.cpp:91-95, 108-119); no type is
  ever read of a profile that is kept, and the current one stays "Default". The proof's
  lemma `ProfileNeverRead` says so for every file.
- A centred right stick reports 6000 of 30000, because `ADDITION_CSTICK` is added
  on either side of the dead zone (InputStreamSession.cpp:289).
- stopStream frees the encoder and the last frame and leaves `mInitializedCodec` and
  `mLastFrameData` as they were; the second stream's callbacks find the guard open, and a
  second stop frees the frame again. `CallbackSafe` speaks of the first stream only.
- The test client keeps recv's result unsigned, so an error never ends its thread
  (PPNetwork.cpp:280); its stop, on the main thread, and the callback on the other
  both make requests, and `FramesWhole` holds only for stops that find one waited for;
  after a server has closed the connection a reconnect never streams again.
- Nothing calls the 3DS client's `SendMsgStartStream`, `SendMsgStopStream` and `StartStream`,
  so its decoder and audio output are never reached at this commit.
- A profile list is written in place: an app that ends in the middle of a save loses all of it, which
  is why `ProfilesKept` leaves out the change the app went down in.

## Not modelled, and the plan

What could still be added, in this order:

1. Hub item encoding (PPClientSession.cpp:184-215) and decoding (PPSession.cpp:443-515) as pure
   operators: decoding inverts encoding.
2. Sends that take part of a message, or would block, on both clients.
3. `PPAudio`'s two wave buffers and `PPDecoder`, once something starts a stream on the 3DS.
4. Two network threads in the test client.

Theorems to add: which of the threads' requests for data is lost when they race, as an action property
of `PPSession`, and refinements for the capturer and for the test client's two buffers.

Left out for good: drawing, the keyboard and touch handling, the syntax of the configuration
files, FFmpeg, ViGEm, WASAPI, libconfig and evpp themselves, all of them third-party or
without shared state.
