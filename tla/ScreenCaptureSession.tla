------------------------- MODULE ScreenCaptureSession -------------------------
(***************************************************************************)
(* One capturer for all sessions (ScreenCaptureSession.cpp, PPServer.cpp): *)
(* authenticating makes a session the client the frames go to, any         *)
(* authenticated session starts and stops the stream, and a capture        *)
(* manager calls back on threads of its own for every picture.             *)
(*                                                                         *)
(* evpp runs the callbacks of a connection on one of its network threads,  *)
(* NetworkThread of them, and nothing in the capturer is locked.  A step   *)
(* ends where another network thread or a capture thread can see the       *)
(* difference.  A capture manager is known by the start that makes it.     *)
(* A start or stop message reaches the capturer only with a body, which    *)
(* this repository's clients do not send (the run start_stream).           *)
(***************************************************************************)
EXTENDS Integers

CONSTANTS
    Sessions,    \* connections
    Threads,     \* evpp's network threads
    ThreadOf,    \* the network thread of each connection
    NoSession,   \* m_clientSession = nullptr
    MaxStarts    \* bound: calls of startStream that find no stream

ASSUME ThreadAssumption == ThreadOf \in [Sessions -> Threads]
ASSUME NoSessionAssumption == NoSession \notin Sessions
ASSUME MaxStartsAssumption == MaxStarts \in Nat

Manager == 1..MaxStarts
NoManager == 0

VARIABLES
    conn,         \* each connection: is it authenticated, is it gone?
    client,       \* m_clientSession
    streaming,    \* m_isStartStreaming
    initialized,  \* Initialized
    grabber,      \* m_frameGrabber
    managers,     \* the capture managers that exist
    audio,        \* m_audioGrabber
    encoder,      \* the encoders' contexts, frames and packets
    codec,        \* mInitializedCodec
    lastFrame,    \* mLastFrameData
    pc,           \* where each network thread is
    mine,         \* the manager each network thread is to make or to assign
    captures,     \* where each manager's capture thread is
    starts,       \* history: calls of startStream that found no stream
    overlapped,   \* history: two of start and stop ran at a time
    sent,         \* history: the session the last frame went to
    latest        \* history: the session that authenticated last

flagVars   == <<streaming, initialized>>
mediaVars  == <<audio, encoder, codec, lastFrame>>
threadVars == <<pc, mine, starts, overlapped>>
frameVars  == <<captures, sent>>
sessionVars == <<conn, client, latest>>
vars == <<conn, client, streaming, initialized, grabber, managers, audio, encoder, codec,
          lastFrame, pc, mine, captures, starts, overlapped, sent, latest>>

Init ==
    /\ conn = [s \in Sessions |-> "new"]
    /\ client = NoSession
    /\ streaming = FALSE
    /\ initialized = FALSE
    /\ grabber = NoManager
    /\ managers = {}
    /\ audio = "none"
    /\ encoder = "none"
    /\ codec = FALSE
    /\ lastFrame = "none"
    /\ pc = [t \in Threads |-> "idle"]
    /\ mine = [t \in Threads |-> NoManager]
    /\ captures = [m \in Manager |-> "idle"]
    /\ starts = 0
    /\ overlapped = FALSE
    /\ sent = NoSession
    /\ latest = NoSession

-----------------------------------------------------------------------------
(* Connections: authenticate, disconnect.                                  *)

\* MUTANT: the first client keeps the stream.
RegisterFirst(s) ==
    /\ pc[ThreadOf[s]] = "idle"
    /\ conn[s] = "new"
    /\ conn' = [conn EXCEPT ![s] = "authenticated"]
    /\ latest' = s
    /\ client' = IF client = NoSession THEN s ELSE client
    /\ UNCHANGED <<flagVars, grabber, managers, mediaVars, threadVars, frameVars>>

\* ProcessIncommingMessage's registerClientSession.
Register(s) ==
    /\ pc[ThreadOf[s]] = "idle"
    /\ conn[s] = "new"
    /\ conn' = [conn EXCEPT ![s] = "authenticated"]
    /\ client' = s
    /\ latest' = s
    /\ UNCHANGED <<flagVars, grabber, managers, mediaVars, threadVars, frameVars>>

\* DisconnectFromServer leaves the stream and m_clientSession as they are.
Disconnect(s) ==
    /\ pc[ThreadOf[s]] = "idle"
    /\ conn[s] # "gone"
    /\ conn' = [conn EXCEPT ![s] = "gone"]
    /\ UNCHANGED <<client, latest, flagVars, grabber, managers, mediaVars, threadVars, frameVars>>

-----------------------------------------------------------------------------
(* startStream and initScreenCapture.                                      *)

Step(t, from, to) == pc[t] = from /\ pc' = [pc EXCEPT ![t] = to]

Asks(t) == \E s \in Sessions : ThreadOf[s] = t /\ conn[s] = "authenticated"

\* A thread goes into start or stop; is another one in there?
Enters(t, at) ==
    /\ Asks(t)
    /\ Step(t, "idle", at)
    /\ overlapped' = (overlapped \/ \E u \in Threads \ {t} : pc[u] # "idle")

\* A manager's destructor sets the exit flag of its capture threads and joins them.
Destroyed(m) ==
    /\ m # NoManager => captures[m] = "idle"
    /\ managers' = managers \ {m}

StartStream(t) ==
    /\ ~streaming
    /\ starts < MaxStarts
    /\ Enters(t, "start")
    /\ starts' = starts + 1
    /\ mine' = [mine EXCEPT ![t] = starts + 1]
    /\ UNCHANGED <<sessionVars, flagVars, grabber, managers, mediaVars, frameVars>>

SetStreaming(t) ==
    /\ Step(t, "start", "init")
    /\ streaming' = TRUE
    /\ UNCHANGED <<sessionVars, initialized, grabber, managers, mediaVars, mine, starts,
                   overlapped, frameVars>>

InitScreenCapture(t) ==
    /\ Step(t, "init", IF initialized THEN "idle" ELSE "claim")
    /\ mine' = IF initialized THEN [mine EXCEPT ![t] = NoManager] ELSE mine
    /\ UNCHANGED <<sessionVars, flagVars, grabber, managers, mediaVars, starts, overlapped,
                   frameVars>>

SetInitialized(t) ==
    /\ Step(t, "claim", "drop")
    /\ initialized' = TRUE
    /\ UNCHANGED <<sessionVars, streaming, grabber, managers, mediaVars, mine, starts,
                   overlapped, frameVars>>

DropGrabber(t) ==
    /\ Step(t, "drop", "create")
    /\ Destroyed(grabber)
    /\ grabber' = NoManager
    /\ UNCHANGED <<sessionVars, flagVars, mediaVars, mine, starts, overlapped, frameVars>>

\* CreateCaptureConfiguration and start_capturing: from here on there are callbacks.
CreateManager(t) ==
    /\ Step(t, "create", "assign")
    /\ managers' = managers \cup {mine[t]}
    /\ UNCHANGED <<sessionVars, flagVars, grabber, mediaVars, mine, starts, overlapped,
                   frameVars>>

AssignGrabber(t) ==
    /\ Step(t, "assign", "audio")
    /\ Destroyed(grabber)
    /\ grabber' = mine[t]
    /\ mine' = [mine EXCEPT ![t] = NoManager]
    /\ UNCHANGED <<sessionVars, flagVars, mediaVars, starts, overlapped, frameVars>>

\* A new AudioStreamSession; the one before it is forgotten.
StartAudio(t) ==
    /\ Step(t, "audio", "encoder")
    /\ audio' = "running"
    /\ UNCHANGED <<sessionVars, flagVars, grabber, managers, encoder, codec, lastFrame, mine,
                   starts, overlapped, frameVars>>

\* MUTANT: the flag is set before what it is about.
OpenEncoderFlagFirst(t) ==
    /\ Step(t, "encoder", "finish")
    /\ encoder' = "partial"
    /\ codec' = TRUE
    /\ UNCHANGED <<sessionVars, flagVars, grabber, managers, audio, lastFrame, mine, starts,
                   overlapped, frameVars>>

\* initEncoder, as long as something of it is still missing.
OpenEncoder(t) ==
    /\ Step(t, "encoder", "finish")
    /\ encoder' = "partial"
    /\ UNCHANGED <<sessionVars, flagVars, grabber, managers, audio, codec, lastFrame, mine,
                   starts, overlapped, frameVars>>

\* Its end, or one of its early returns, which leave the flag alone.
FinishEncoder(t) ==
    /\ Step(t, "finish", "idle")
    /\ \/ encoder' = "whole" /\ codec' = TRUE
       \/ UNCHANGED <<encoder, codec>>
    /\ UNCHANGED <<sessionVars, flagVars, grabber, managers, audio, lastFrame, mine, starts,
                   overlapped, frameVars>>

-----------------------------------------------------------------------------
(* stopStream.                                                             *)

StopStream(t) ==
    /\ streaming
    /\ Enters(t, "stop")
    /\ UNCHANGED <<sessionVars, flagVars, grabber, managers, mediaVars, mine, starts, frameVars>>

ClearStreaming(t) ==
    /\ Step(t, "stop", "uninit")
    /\ streaming' = FALSE
    /\ UNCHANGED <<sessionVars, initialized, grabber, managers, mediaVars, mine, starts,
                   overlapped, frameVars>>

\* MUTANT: a stop forgets the flag of initScreenCapture.
KeepInitialized(t) ==
    /\ Step(t, "uninit", "join")
    /\ UNCHANGED <<sessionVars, flagVars, grabber, managers, mediaVars, mine, starts,
                   overlapped, frameVars>>

ClearInitialized(t) ==
    /\ Step(t, "uninit", "join")
    /\ initialized' = FALSE
    /\ UNCHANGED <<sessionVars, streaming, grabber, managers, mediaVars, mine, starts,
                   overlapped, frameVars>>

\* MUTANT: the manager is only paused, and a callback may be under way.
PauseGrabber(t) ==
    /\ Step(t, "join", "pause")
    /\ UNCHANGED <<sessionVars, flagVars, grabber, managers, mediaVars, mine, starts,
                   overlapped, frameVars>>

\* pause, which waits for nobody, and m_frameGrabber = nullptr.  (When a start and a
\* stop overlap the grabber may be null, and the call of pause is undefined.)
JoinGrabber(t) ==
    /\ Step(t, "join", "pause")
    /\ Destroyed(grabber)
    /\ grabber' = NoManager
    /\ UNCHANGED <<sessionVars, flagVars, mediaVars, mine, starts, overlapped, frameVars>>

PauseAudio(t) ==
    /\ Step(t, "pause", "release")
    /\ audio' = "paused"
    /\ UNCHANGED <<sessionVars, flagVars, grabber, managers, encoder, codec, lastFrame, mine,
                   starts, overlapped, frameVars>>

\* releaseEncoder deletes mLastFrameData and does not forget it, and leaves
\* mInitializedCodec set.
ReleaseEncoder(t) ==
    /\ Step(t, "release", "idle")
    /\ encoder' = "none"
    /\ lastFrame' = IF lastFrame = "none" THEN "none" ELSE "freed"
    /\ UNCHANGED <<sessionVars, flagVars, grabber, managers, audio, codec, mine, starts,
                   overlapped, frameVars>>

-----------------------------------------------------------------------------
(* The callback for a new picture, on a capture thread.                    *)

CaptureStep(m, from, to) == captures[m] = from /\ captures' = [captures EXCEPT ![m] = to]

\* It returns at once, and changes nothing, before the codec is initialised.
NewFrame(m) ==
    /\ m \in managers
    /\ codec
    /\ CaptureStep(m, "idle", "audio")
    /\ lastFrame' = IF lastFrame = "none" THEN "alive" ELSE lastFrame
    /\ UNCHANGED <<sessionVars, flagVars, grabber, managers, audio, encoder, codec, threadVars,
                   sent>>

\* MUTANT: the loop over the sound's frames never ends.
EncodeAudioForever(m) ==
    /\ CaptureStep(m, "audio", "audio")
    /\ sent' \in {sent, client}
    /\ UNCHANGED <<sessionVars, flagVars, grabber, managers, mediaVars, threadVars>>

\* encodeAudioFrame: sound may be due, and be sent.
EncodeAudio(m) ==
    /\ CaptureStep(m, "audio", "video")
    /\ sent' \in {sent, client}
    /\ UNCHANGED <<sessionVars, flagVars, grabber, managers, mediaVars, threadVars>>

\* encodeVideoFrame: the encoder gives a packet, or holds the picture back.
EncodeVideo(m) ==
    /\ CaptureStep(m, "video", "idle")
    /\ sent' \in {sent, client}
    /\ UNCHANGED <<sessionVars, flagVars, grabber, managers, mediaVars, threadVars>>

Sends(m) == EncodeVideo(m) /\ sent' = client

-----------------------------------------------------------------------------

Starting(t) ==
    \/ SetStreaming(t) \/ InitScreenCapture(t) \/ SetInitialized(t) \/ DropGrabber(t)
    \/ CreateManager(t) \/ AssignGrabber(t) \/ StartAudio(t) \/ OpenEncoder(t)
    \/ FinishEncoder(t)

Stopping(t) ==
    \/ ClearStreaming(t) \/ ClearInitialized(t) \/ JoinGrabber(t) \/ PauseAudio(t)
    \/ ReleaseEncoder(t)

Callback(m) == NewFrame(m) \/ EncodeAudio(m) \/ EncodeVideo(m)

Next ==
    \/ \E s \in Sessions : Register(s) \/ Disconnect(s)
    \/ \E t \in Threads : StartStream(t) \/ StopStream(t) \/ Starting(t) \/ Stopping(t)
    \/ \E m \in Manager : Callback(m)

\* A network thread goes on with the call it is in; the exit flag lets a join come
\* through between two callbacks.  Pictures keep coming, and the encoder, which
\* holds back two of them, gives a packet at some time.
Fairness ==
    /\ \A t \in Threads : SF_vars(Starting(t) \/ Stopping(t))
    /\ \A m \in Manager : WF_vars(Callback(m)) /\ SF_vars(Sends(m))

Spec == Init /\ [][Next]_vars /\ Fairness

-----------------------------------------------------------------------------
(* Properties.                                                             *)

InStart == {"start", "init", "claim", "drop", "create", "assign", "audio", "encoder", "finish"}
InStop == {"stop", "uninit", "join", "pause", "release"}

TypeOK ==
    /\ conn \in [Sessions -> {"new", "authenticated", "gone"}]
    /\ client \in Sessions \cup {NoSession}
    /\ streaming \in BOOLEAN /\ initialized \in BOOLEAN
    /\ grabber \in Manager \cup {NoManager}
    /\ managers \subseteq Manager
    /\ audio \in {"none", "running", "paused"}
    /\ encoder \in {"none", "partial", "whole"}
    /\ codec \in BOOLEAN
    /\ lastFrame \in {"none", "alive", "freed"}
    /\ pc \in [Threads -> {"idle"} \cup InStart \cup InStop]
    /\ mine \in [Threads -> Manager \cup {NoManager}]
    /\ captures \in [Manager -> {"idle", "audio", "video"}]
    /\ starts \in 0..MaxStarts
    /\ overlapped \in BOOLEAN
    /\ sent \in Sessions \cup {NoSession}
    /\ latest \in Sessions \cup {NoSession}

Quiet == \A t \in Threads : pc[t] = "idle"

\* As long as starts and stops have not overlapped, the flags tell the truth between
\* them, whatever connects, disconnects, fails or is captured meanwhile: streaming
\* with exactly the manager in m_frameGrabber, or stopped and nothing captures
\* (ScreenCaptureSession.cpp:311, 320 rely on it).
StreamingTellsTruth ==
    ~overlapped /\ Quiet =>
        /\ initialized = streaming
        /\ managers = IF streaming THEN {grabber} ELSE {}
        /\ streaming <=> grabber # NoManager

\* As long as starts and stops have not overlapped, no callback is under way when a
\* stop releases the encoder (ScreenCaptureSession.cpp:325, 330); and in the first
\* stream what a callback uses is all there (the guard of line 76).  The second
\* stream is left out because the guard is stale there: mInitializedCodec and
\* mLastFrameData survive releaseEncoder.
CallbackSafe ==
    ~overlapped => \A m \in Manager : captures[m] # "idle" =>
        /\ \A t \in Threads : pc[t] \notin {"pause", "release"}
        /\ starts = 1 => encoder = "whole" /\ lastFrame = "alive" /\ audio = "running"

\* A start or stop returns, also when several run at a time: the joins do not wait
\* for one another (ScreenCaptureSession.cpp:70, 325).
CallsReturn == \A t \in Threads : pc[t] # "idle" ~> pc[t] = "idle"

\* A client that authenticates while a stream runs, one that nobody stopped when its
\* client went away included, gets the frames, though its start finds m_isStartStreaming
\* set and does nothing (PPClientSession.cpp:22, 88, ScreenCaptureSession.cpp:311).
StreamTakenOver ==
    \A s \in Sessions :
        latest = s /\ streaming /\ codec /\ Quiet /\ ~overlapped
            ~> sent = s \/ latest # s \/ ~streaming \/ overlapped

\* Managers exist one at a time: "you must ONLY HAVE ONE INSTANCE RUNNING AT A TIME"
\* (screen_capture_lite, ScreenCapture.cpp:122).
OneManager == \A m, n \in managers : m = n

=============================================================================
