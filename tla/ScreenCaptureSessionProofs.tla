---------------------- MODULE ScreenCaptureSessionProofs ----------------------
(***************************************************************************)
(* The capturer for any number of connections, network threads and starts. *)
(***************************************************************************)
EXTENDS ScreenCaptureSession, TLAPS

USE ThreadAssumption, NoSessionAssumption, MaxStartsAssumption

-----------------------------------------------------------------------------
(* Types.                                                                  *)

\* From its beginning until it assigns m_frameGrabber a start has a manager to make.
HasMine ==
    \A t \in Threads :
        pc[t] \in {"start", "init", "claim", "drop", "create", "assign"} => mine[t] \in Manager

TypeInv == TypeOK /\ HasMine

LEMMA InitTypes == Init => TypeInv
<1> SUFFICES ASSUME Init PROVE TypeInv
  OBVIOUS
<1>1. captures \in [Manager -> {"idle", "audio", "video"}]
  BY DEF Init
<1>2. pc \in [Threads -> {"idle"} \cup InStart \cup InStop]
  BY DEF Init
<1>3. mine \in [Threads -> Manager \cup {NoManager}] /\ conn \in [Sessions -> {"new"}]
  BY DEF Init
<1>4. starts \in 0..MaxStarts
  BY DEF Init
<1> QED
  BY <1>1, <1>2, <1>3, <1>4 DEF Init, TypeInv, TypeOK, HasMine

LEMMA ConnectionTypes ==
  ASSUME TypeInv, NEW s \in Sessions, Register(s) \/ Disconnect(s)
  PROVE  TypeInv'
<1> USE DEF TypeInv, TypeOK, HasMine, flagVars, mediaVars, threadVars, frameVars
<1>1. CASE Register(s)
  BY <1>1 DEF Register
<1>2. CASE Disconnect(s)
  BY <1>2 DEF Disconnect
<1> QED
  BY <1>1, <1>2

\* A thread takes a step within a call and makes no manager meanwhile.
LEMMA StepTypes ==
  ASSUME TypeInv, NEW t \in Threads, NEW from, NEW to \in {"idle"} \cup InStart \cup InStop,
         Step(t, from, to), mine' = mine, to # "start",
         to \in {"init", "claim", "drop", "create", "assign"} => mine[t] \in Manager
  PROVE  pc' \in [Threads -> {"idle"} \cup InStart \cup InStop] /\ HasMine'
<1>1. pc' = [pc EXCEPT ![t] = to] /\ pc \in [Threads -> {"idle"} \cup InStart \cup InStop]
  BY DEF Step, TypeInv, TypeOK
<1>2. pc'[t] = to /\ \A u \in Threads \ {t} : pc'[u] = pc[u]
  BY <1>1
<1>3. pc' \in [Threads -> {"idle"} \cup InStart \cup InStop]
  BY <1>1
<1>4. HasMine'
  BY <1>2 DEF TypeInv, HasMine
<1> QED
  BY <1>3, <1>4

\* A thread ends the making of its manager.
LEMMA LastStepTypes ==
  ASSUME TypeInv, NEW t \in Threads, NEW from, NEW to \in {"idle", "audio"},
         Step(t, from, to), mine' = [mine EXCEPT ![t] = NoManager]
  PROVE  /\ pc' \in [Threads -> {"idle"} \cup InStart \cup InStop] /\ HasMine'
         /\ mine' \in [Threads -> Manager \cup {NoManager}]
<1>1. pc' = [pc EXCEPT ![t] = to] /\ pc \in [Threads -> {"idle"} \cup InStart \cup InStop]
  BY DEF Step, TypeInv, TypeOK
<1>2. pc'[t] = to /\ \A u \in Threads \ {t} : pc'[u] = pc[u] /\ mine'[u] = mine[u]
  BY <1>1 DEF TypeInv, TypeOK
<1>3. pc' \in [Threads -> {"idle"} \cup InStart \cup InStop]
  BY <1>1 DEF InStart
<1>4. HasMine'
  BY <1>2 DEF TypeInv, HasMine
<1> QED
  BY <1>3, <1>4 DEF TypeInv, TypeOK

LEMMA StartTypes ==
  ASSUME TypeInv, NEW t \in Threads, StartStream(t) \/ Starting(t)
  PROVE  TypeInv'
<1> USE DEF flagVars, mediaVars, frameVars, sessionVars
<1>1. CASE StartStream(t)
  <2>1. starts + 1 \in Manager /\ starts' = starts + 1
    BY <1>1 DEF StartStream, TypeInv, TypeOK, Manager
  <2>2. mine' = [mine EXCEPT ![t] = starts + 1] /\ mine' \in [Threads -> Manager \cup {NoManager}]
    BY <1>1, <2>1 DEF StartStream, TypeInv, TypeOK
  <2>3. pc' = [pc EXCEPT ![t] = "start"] /\ pc' \in [Threads -> {"idle"} \cup InStart \cup InStop]
    BY <1>1 DEF StartStream, Enters, Step, TypeInv, TypeOK, InStart
  <2>4. HasMine'
    BY <2>1, <2>2, <2>3 DEF HasMine, TypeInv, TypeOK
  <2>5. overlapped' \in BOOLEAN
    BY <1>1 DEF StartStream, Enters
  <2>6. starts' \in 0..MaxStarts
    BY <2>1 DEF Manager
  <2> QED
    BY <1>1, <2>2, <2>3, <2>4, <2>5, <2>6 DEF StartStream, TypeInv, TypeOK
<1>2. CASE SetStreaming(t)
  <2>1. mine[t] \in Manager
    BY <1>2 DEF SetStreaming, Step, TypeInv, HasMine
  <2>2. pc' \in [Threads -> {"idle"} \cup InStart \cup InStop] /\ HasMine'
    BY <1>2, <2>1, StepTypes DEF SetStreaming, InStart
  <2> QED
    BY <1>2, <2>2 DEF SetStreaming, TypeInv, TypeOK
<1>3. CASE InitScreenCapture(t)
  <2>1. CASE initialized
    <3>1. /\ pc' \in [Threads -> {"idle"} \cup InStart \cup InStop] /\ HasMine'
          /\ mine' \in [Threads -> Manager \cup {NoManager}]
      BY <1>3, <2>1, LastStepTypes DEF InitScreenCapture
    <3> QED
      BY <1>3, <3>1 DEF InitScreenCapture, TypeInv, TypeOK
  <2>2. CASE ~initialized
    <3>1. mine[t] \in Manager
      BY <1>3 DEF InitScreenCapture, Step, TypeInv, HasMine
    <3>2. pc' \in [Threads -> {"idle"} \cup InStart \cup InStop] /\ HasMine'
      BY <1>3, <2>2, <3>1, StepTypes DEF InitScreenCapture, InStart
    <3> QED
      BY <1>3, <2>2, <3>2 DEF InitScreenCapture, TypeInv, TypeOK
  <2> QED
    BY <2>1, <2>2
<1>4. CASE SetInitialized(t)
  <2>1. mine[t] \in Manager
    BY <1>4 DEF SetInitialized, Step, TypeInv, HasMine
  <2>2. pc' \in [Threads -> {"idle"} \cup InStart \cup InStop] /\ HasMine'
    BY <1>4, <2>1, StepTypes DEF SetInitialized, InStart
  <2> QED
    BY <1>4, <2>2 DEF SetInitialized, TypeInv, TypeOK
<1>5. CASE DropGrabber(t)
  <2>1. mine[t] \in Manager
    BY <1>5 DEF DropGrabber, Step, TypeInv, HasMine
  <2>2. pc' \in [Threads -> {"idle"} \cup InStart \cup InStop] /\ HasMine'
    BY <1>5, <2>1, StepTypes DEF DropGrabber, InStart
  <2> QED
    BY <1>5, <2>2 DEF DropGrabber, Destroyed, TypeInv, TypeOK
<1>6. CASE CreateManager(t)
  <2>1. mine[t] \in Manager
    BY <1>6 DEF CreateManager, Step, TypeInv, HasMine
  <2>2. pc' \in [Threads -> {"idle"} \cup InStart \cup InStop] /\ HasMine'
    BY <1>6, <2>1, StepTypes DEF CreateManager, InStart
  <2> QED
    BY <1>6, <2>1, <2>2 DEF CreateManager, TypeInv, TypeOK
<1>7. CASE AssignGrabber(t)
  <2>1. /\ pc' \in [Threads -> {"idle"} \cup InStart \cup InStop] /\ HasMine'
        /\ mine' \in [Threads -> Manager \cup {NoManager}]
    BY <1>7, LastStepTypes DEF AssignGrabber
  <2>2. grabber' \in Manager
    BY <1>7 DEF AssignGrabber, Step, TypeInv, HasMine
  <2> QED
    BY <1>7, <2>1, <2>2 DEF AssignGrabber, Destroyed, TypeInv, TypeOK
<1>8. CASE StartAudio(t)
  <2>1. pc' \in [Threads -> {"idle"} \cup InStart \cup InStop] /\ HasMine'
    BY <1>8, StepTypes DEF StartAudio, InStart
  <2> QED
    BY <1>8, <2>1 DEF StartAudio, TypeInv, TypeOK
<1>9. CASE OpenEncoder(t)
  <2>1. pc' \in [Threads -> {"idle"} \cup InStart \cup InStop] /\ HasMine'
    BY <1>9, StepTypes DEF OpenEncoder, InStart
  <2> QED
    BY <1>9, <2>1 DEF OpenEncoder, TypeInv, TypeOK
<1>10. CASE FinishEncoder(t)
  <2>1. pc' \in [Threads -> {"idle"} \cup InStart \cup InStop] /\ HasMine'
    BY <1>10, StepTypes DEF FinishEncoder
  <2>2. encoder' \in {"none", "partial", "whole"} /\ codec' \in BOOLEAN
    BY <1>10 DEF FinishEncoder, TypeInv, TypeOK
  <2> QED
    BY <1>10, <2>1, <2>2 DEF FinishEncoder, TypeInv, TypeOK
<1> QED
  BY <1>1, <1>2, <1>3, <1>4, <1>5, <1>6, <1>7, <1>8, <1>9, <1>10 DEF Starting

LEMMA StopTypes ==
  ASSUME TypeInv, NEW t \in Threads, StopStream(t) \/ Stopping(t)
  PROVE  TypeInv'
<1> USE DEF flagVars, mediaVars, frameVars, sessionVars
<1>1. CASE StopStream(t)
  <2>1. pc' \in [Threads -> {"idle"} \cup InStart \cup InStop] /\ HasMine'
    BY <1>1, StepTypes DEF StopStream, Enters, InStop
  <2>2. overlapped' \in BOOLEAN
    BY <1>1 DEF StopStream, Enters
  <2> QED
    BY <1>1, <2>1, <2>2 DEF StopStream, TypeInv, TypeOK
<1>2. CASE ClearStreaming(t)
  <2>1. pc' \in [Threads -> {"idle"} \cup InStart \cup InStop] /\ HasMine'
    <3>1. "uninit" \in InStop
      BY DEF InStop
    <3> QED
      BY <1>2, <3>1, StepTypes DEF ClearStreaming
  <2>2. streaming' \in BOOLEAN /\ initialized' \in BOOLEAN
    BY <1>2 DEF ClearStreaming, TypeInv, TypeOK
  <2> QED
    BY <1>2, <2>1, <2>2 DEF ClearStreaming, TypeInv, TypeOK
<1>3. CASE ClearInitialized(t)
  <2>1. pc' \in [Threads -> {"idle"} \cup InStart \cup InStop] /\ HasMine'
    <3>1. "join" \in InStop
      BY DEF InStop
    <3> QED
      BY <1>3, <3>1, StepTypes DEF ClearInitialized
  <2>2. streaming' \in BOOLEAN /\ initialized' \in BOOLEAN
    BY <1>3 DEF ClearInitialized, TypeInv, TypeOK
  <2> QED
    BY <1>3, <2>1, <2>2 DEF ClearInitialized, TypeInv, TypeOK
<1>4. CASE JoinGrabber(t)
  <2>1. pc' \in [Threads -> {"idle"} \cup InStart \cup InStop] /\ HasMine'
    <3>1. "pause" \in InStop
      BY DEF InStop
    <3> QED
      BY <1>4, <3>1, StepTypes DEF JoinGrabber
  <2> QED
    BY <1>4, <2>1 DEF JoinGrabber, Destroyed, TypeInv, TypeOK
<1>5. CASE PauseAudio(t)
  <2>1. pc' \in [Threads -> {"idle"} \cup InStart \cup InStop] /\ HasMine'
    <3>1. "release" \in InStop
      BY DEF InStop
    <3> QED
      BY <1>5, <3>1, StepTypes DEF PauseAudio
  <2> QED
    BY <1>5, <2>1 DEF PauseAudio, TypeInv, TypeOK
<1>6. CASE ReleaseEncoder(t)
  <2>1. pc' \in [Threads -> {"idle"} \cup InStart \cup InStop] /\ HasMine'
    BY <1>6, StepTypes DEF ReleaseEncoder
  <2> QED
    BY <1>6, <2>1 DEF ReleaseEncoder, TypeInv, TypeOK
<1> QED
  BY <1>1, <1>2, <1>3, <1>4, <1>5, <1>6 DEF Stopping

LEMMA CallbackTypes ==
  ASSUME TypeInv, NEW m \in Manager, Callback(m)
  PROVE  TypeInv'
<1> USE DEF TypeInv, TypeOK, HasMine, flagVars, mediaVars, sessionVars, threadVars
<1>1. captures' \in [Manager -> {"idle", "audio", "video"}]
  BY DEF Callback, NewFrame, EncodeAudio, EncodeVideo, CaptureStep
<1>2. CASE NewFrame(m)
  BY <1>1, <1>2 DEF NewFrame
<1>3. CASE EncodeAudio(m)
  BY <1>1, <1>3 DEF EncodeAudio
<1>4. CASE EncodeVideo(m)
  BY <1>1, <1>4 DEF EncodeVideo
<1> QED
  BY <1>2, <1>3, <1>4 DEF Callback

-----------------------------------------------------------------------------
(* One start or stop at a time.                                            *)

\* As long as two calls have not overlapped, one thread at most is in a call.
Alone == \A t, u \in Threads : pc[t] # "idle" /\ pc[u] # "idle" => t = u

Flagged == {"init", "claim", "drop", "create", "assign", "audio", "encoder", "finish", "stop"}
Claimed == {"drop", "create", "assign", "audio", "encoder", "finish", "stop", "uninit"}
Held    == {"audio", "encoder", "finish", "stop", "uninit", "join"}

\* How far the call is tells the flags and the managers.
Stage(t) ==
    /\ streaming <=> pc[t] \in Flagged
    /\ initialized <=> pc[t] \in Claimed
    /\ grabber # NoManager <=> pc[t] \in Held
    /\ managers = IF pc[t] \in Held THEN {grabber}
                  ELSE IF pc[t] = "assign" THEN {mine[t]} ELSE {}

CallStage == \A t \in Threads : pc[t] # "idle" => Stage(t)

\* A capture thread belongs to a manager that exists, and began with the codec ready.
CapturingExists == \A m \in Manager : captures[m] # "idle" => m \in managers /\ codec

\* Until the second start the codec is ready only when everything else is.
FirstStream ==
    starts <= 1 =>
        /\ starts = 0 => ~codec /\ \A t \in Threads : pc[t] \notin InStart
        /\ \A t \in Threads : pc[t] \in InStart => ~codec
        /\ \A t \in Threads : pc[t] \in {"encoder", "finish"} => audio = "running"
        /\ codec /\ managers # {} => encoder = "whole" /\ audio = "running"
        /\ ~codec => lastFrame = "none"
        /\ managers # {} => lastFrame # "freed"
        /\ \A m \in Manager : captures[m] # "idle" => lastFrame = "alive"

Separate == Alone /\ CallStage /\ StreamingTellsTruth /\ FirstStream

\* The inductive invariant of the capturer.
IInv ==
    /\ TypeInv
    /\ CapturingExists
    /\ ~overlapped => Separate

LEMMA InitIInv == Init => IInv
<1> SUFFICES ASSUME Init PROVE IInv
  OBVIOUS
<1>1. \A t \in Threads : pc[t] = "idle"
  BY DEF Init
<1>2. CapturingExists /\ Alone /\ CallStage /\ StreamingTellsTruth
  BY <1>1 DEF Init, CapturingExists, Alone, CallStage, StreamingTellsTruth
<1>3. FirstStream
  BY <1>1 DEF Init, FirstStream, InStart
<1> QED
  BY <1>2, <1>3, InitTypes DEF IInv, Separate

\* While a call goes on alone, only its own stage is to be looked at.
LEMMA StepAlone ==
  ASSUME TypeInv, Alone, NEW t \in Threads, NEW from, NEW to, from # "idle", Step(t, from, to),
         IF to = "idle" THEN StreamingTellsTruth' ELSE Stage(t)'
  PROVE  /\ Alone' /\ CallStage' /\ StreamingTellsTruth'
         /\ pc'[t] = to /\ \A u \in Threads \ {t} : pc[u] = "idle" /\ pc'[u] = "idle"
<1>1. pc[t] = from /\ pc' = [pc EXCEPT ![t] = to]
  BY DEF Step
<1>2. pc'[t] = to /\ \A u \in Threads \ {t} : pc'[u] = pc[u]
  BY <1>1 DEF TypeInv, TypeOK
<1>3. \A u \in Threads \ {t} : pc[u] = "idle"
  BY <1>1 DEF Alone
<1>4. \A u \in Threads : pc'[u] # "idle" => u = t /\ to # "idle"
  BY <1>2, <1>3
<1>5. CallStage'
  BY <1>4 DEF CallStage
<1>6. StreamingTellsTruth'
  <2>1. CASE to = "idle"
    BY <2>1
  <2>2. CASE to # "idle"
    BY <1>2, <2>2 DEF StreamingTellsTruth, Quiet
  <2> QED
    BY <2>1, <2>2
<1> QED
  BY <1>2, <1>3, <1>4, <1>5, <1>6 DEF Alone

\* The steps of a start that concern the flags and the managers.
LEMMA StartKeeps ==
  ASSUME IInv, ~overlapped, NEW t \in Threads, Starting(t)
  PROVE  Separate'
<1> USE DEF flagVars, mediaVars, frameVars, sessionVars
<1>1. TypeInv /\ Alone /\ CallStage /\ FirstStream /\ StreamingTellsTruth
  BY DEF IInv, Separate
<1>2. starts' = starts
  BY DEF Starting, SetStreaming, InitScreenCapture, SetInitialized, DropGrabber,
         CreateManager, AssignGrabber, StartAudio, OpenEncoder, FinishEncoder
<1>3. CASE SetStreaming(t)
  <2>1. pc[t] = "start" /\ Step(t, "start", "init")
    BY <1>3 DEF SetStreaming, Step
  <2>2. Stage(t)
    BY <1>1, <2>1 DEF CallStage
  <2>3. pc'[t] = "init"
    BY <1>1, <2>1 DEF Step, TypeInv, TypeOK
  <2>4. Stage(t)'
    BY <1>1, <1>3, <2>1, <2>2, <2>3 DEF SetStreaming, Stage, Flagged, Claimed, Held
  <2>5. /\ Alone' /\ CallStage' /\ StreamingTellsTruth'
        /\ \A u \in Threads \ {t} : pc[u] = "idle" /\ pc'[u] = "idle"
    BY <1>1, <2>1, <2>4, StepAlone
  <2>6. FirstStream'
    BY <1>1, <1>2, <1>3, <2>1, <2>2, <2>3, <2>5 DEF SetStreaming, FirstStream, InStart
  <2> QED
    BY <2>5, <2>6 DEF Separate
<1>4. CASE InitScreenCapture(t)
  <2>1. pc[t] = "init" /\ Stage(t)
    BY <1>1, <1>4 DEF InitScreenCapture, Step, CallStage
  <2>2. ~initialized
    BY <2>1 DEF Stage, Claimed
  <2>3. Step(t, "init", "claim")
    BY <1>4, <2>2 DEF InitScreenCapture
  <2>4. pc'[t] = "claim"
    BY <1>1, <2>3 DEF Step, TypeInv, TypeOK
  <2>5. Stage(t)'
    BY <1>4, <2>1, <2>4 DEF InitScreenCapture, Stage, Flagged, Claimed, Held
  <2>6. /\ Alone' /\ CallStage' /\ StreamingTellsTruth'
        /\ \A u \in Threads \ {t} : pc[u] = "idle" /\ pc'[u] = "idle"
    BY <1>1, <2>3, <2>5, StepAlone
  <2>7. FirstStream'
    BY <1>1, <1>2, <1>4, <2>1, <2>4, <2>6 DEF InitScreenCapture, FirstStream, InStart
  <2> QED
    BY <2>6, <2>7 DEF Separate
<1>5. CASE SetInitialized(t)
  <2>1. pc[t] = "claim" /\ Step(t, "claim", "drop")
    BY <1>5 DEF SetInitialized, Step
  <2>2. Stage(t)
    BY <1>1, <2>1 DEF CallStage
  <2>3. pc'[t] = "drop"
    BY <1>1, <2>1 DEF Step, TypeInv, TypeOK
  <2>4. Stage(t)'
    BY <1>1, <1>5, <2>1, <2>2, <2>3 DEF SetInitialized, Stage, Flagged, Claimed, Held
  <2>5. /\ Alone' /\ CallStage' /\ StreamingTellsTruth'
        /\ \A u \in Threads \ {t} : pc[u] = "idle" /\ pc'[u] = "idle"
    BY <1>1, <2>1, <2>4, StepAlone
  <2>6. FirstStream'
    BY <1>1, <1>2, <1>5, <2>1, <2>2, <2>3, <2>5 DEF SetInitialized, FirstStream, InStart
  <2> QED
    BY <2>5, <2>6 DEF Separate
<1>6. CASE DropGrabber(t)
  <2>1. pc[t] = "drop" /\ Step(t, "drop", "create")
    BY <1>6 DEF DropGrabber, Step
  <2>2. Stage(t)
    BY <1>1, <2>1 DEF CallStage
  <2>3. pc'[t] = "create"
    BY <1>1, <2>1 DEF Step, TypeInv, TypeOK
  <2>4. Stage(t)'
    BY <1>1, <1>6, <2>1, <2>2, <2>3 DEF DropGrabber, Stage, Flagged, Claimed, Held, Destroyed
  <2>5. /\ Alone' /\ CallStage' /\ StreamingTellsTruth'
        /\ \A u \in Threads \ {t} : pc[u] = "idle" /\ pc'[u] = "idle"
    BY <1>1, <2>1, <2>4, StepAlone
  <2>6. FirstStream'
    BY <1>1, <1>2, <1>6, <2>1, <2>2, <2>3, <2>5 DEF DropGrabber, FirstStream, InStart, Stage, Held, Destroyed
  <2> QED
    BY <2>5, <2>6 DEF Separate
<1>7. CASE CreateManager(t)
  <2>1. pc[t] = "create" /\ Step(t, "create", "assign")
    BY <1>7 DEF CreateManager, Step
  <2>2. Stage(t)
    BY <1>1, <2>1 DEF CallStage
  <2>3. pc'[t] = "assign"
    BY <1>1, <2>1 DEF Step, TypeInv, TypeOK
  <2>4. Stage(t)'
    BY <1>1, <1>7, <2>1, <2>2, <2>3 DEF CreateManager, Stage, Flagged, Claimed, Held
  <2>5. /\ Alone' /\ CallStage' /\ StreamingTellsTruth'
        /\ \A u \in Threads \ {t} : pc[u] = "idle" /\ pc'[u] = "idle"
    BY <1>1, <2>1, <2>4, StepAlone
  <2>6. FirstStream'
    BY <1>1, <1>2, <1>7, <2>1, <2>2, <2>3, <2>5 DEF CreateManager, FirstStream, InStart
  <2> QED
    BY <2>5, <2>6 DEF Separate
<1>8. CASE AssignGrabber(t)
  <2>1. pc[t] = "assign" /\ Step(t, "assign", "audio")
    BY <1>8 DEF AssignGrabber, Step
  <2>2. Stage(t)
    BY <1>1, <2>1 DEF CallStage
  <2>3. pc'[t] = "audio"
    BY <1>1, <2>1 DEF Step, TypeInv, TypeOK
  <2>4. Stage(t)'
    BY <1>1, <1>8, <2>1, <2>2, <2>3 DEF AssignGrabber, Stage, Flagged, Claimed, Held, Destroyed, TypeInv, TypeOK, HasMine, NoManager, Manager
  <2>5. /\ Alone' /\ CallStage' /\ StreamingTellsTruth'
        /\ \A u \in Threads \ {t} : pc[u] = "idle" /\ pc'[u] = "idle"
    BY <1>1, <2>1, <2>4, StepAlone
  <2>6. FirstStream'
    BY <1>1, <1>2, <1>8, <2>1, <2>2, <2>3, <2>5 DEF AssignGrabber, FirstStream, InStart, Destroyed
  <2> QED
    BY <2>5, <2>6 DEF Separate
<1>9. CASE StartAudio(t)
  <2>1. pc[t] = "audio" /\ Step(t, "audio", "encoder")
    BY <1>9 DEF StartAudio, Step
  <2>2. Stage(t)
    BY <1>1, <2>1 DEF CallStage
  <2>3. pc'[t] = "encoder"
    BY <1>1, <2>1 DEF Step, TypeInv, TypeOK
  <2>4. Stage(t)'
    BY <1>1, <1>9, <2>1, <2>2, <2>3 DEF StartAudio, Stage, Flagged, Claimed, Held
  <2>5. /\ Alone' /\ CallStage' /\ StreamingTellsTruth'
        /\ \A u \in Threads \ {t} : pc[u] = "idle" /\ pc'[u] = "idle"
    BY <1>1, <2>1, <2>4, StepAlone
  <2>6. FirstStream'
    BY <1>1, <1>2, <1>9, <2>1, <2>2, <2>3, <2>5 DEF StartAudio, FirstStream, InStart
  <2> QED
    BY <2>5, <2>6 DEF Separate
<1>10. CASE OpenEncoder(t)
  <2>1. pc[t] = "encoder" /\ Step(t, "encoder", "finish")
    BY <1>10 DEF OpenEncoder, Step
  <2>2. Stage(t)
    BY <1>1, <2>1 DEF CallStage
  <2>3. pc'[t] = "finish"
    BY <1>1, <2>1 DEF Step, TypeInv, TypeOK
  <2>4. Stage(t)'
    BY <1>1, <1>10, <2>1, <2>2, <2>3 DEF OpenEncoder, Stage, Flagged, Claimed, Held
  <2>5. /\ Alone' /\ CallStage' /\ StreamingTellsTruth'
        /\ \A u \in Threads \ {t} : pc[u] = "idle" /\ pc'[u] = "idle"
    BY <1>1, <2>1, <2>4, StepAlone
  <2>6. FirstStream'
    BY <1>1, <1>2, <1>10, <2>1, <2>2, <2>3, <2>5 DEF OpenEncoder, FirstStream, InStart
  <2> QED
    BY <2>5, <2>6 DEF Separate
<1>11. CASE FinishEncoder(t)
  <2>1. pc[t] = "finish" /\ Step(t, "finish", "idle")
    BY <1>11 DEF FinishEncoder, Step
  <2>2. Stage(t)
    BY <1>1, <2>1 DEF CallStage
  <2>3. pc'[t] = "idle"
    BY <1>1, <2>1 DEF Step, TypeInv, TypeOK
  <2>4. StreamingTellsTruth'
    BY <1>11, <2>1, <2>2 DEF FinishEncoder, Stage, Flagged, Claimed, Held, StreamingTellsTruth
  <2>5. /\ Alone' /\ CallStage'
        /\ \A u \in Threads \ {t} : pc[u] = "idle" /\ pc'[u] = "idle"
    BY <1>1, <2>1, <2>4, StepAlone
  <2>6. FirstStream'
    BY <1>1, <1>2, <1>11, <2>1, <2>3, <2>5 DEF FinishEncoder, FirstStream, InStart
  <2> QED
    BY <2>4, <2>5, <2>6 DEF Separate
<1> QED
  BY <1>3, <1>4, <1>5, <1>6, <1>7, <1>8, <1>9, <1>10, <1>11 DEF Starting

\* The steps of a stop.
LEMMA StopKeeps ==
  ASSUME IInv, ~overlapped, NEW t \in Threads, Stopping(t)
  PROVE  Separate'
<1> USE DEF flagVars, mediaVars, frameVars, sessionVars
<1>1. TypeInv /\ Alone /\ CallStage /\ FirstStream /\ StreamingTellsTruth
  BY DEF IInv, Separate
<1>2. starts' = starts
  BY DEF Stopping, ClearStreaming, ClearInitialized, JoinGrabber, PauseAudio, ReleaseEncoder
<1>3. CASE ClearStreaming(t)
  <2>1. pc[t] = "stop" /\ Step(t, "stop", "uninit")
    BY <1>3 DEF ClearStreaming, Step
  <2>2. Stage(t)
    BY <1>1, <2>1 DEF CallStage
  <2>3. pc'[t] = "uninit"
    BY <1>1, <2>1 DEF Step, TypeInv, TypeOK
  <2>4. Stage(t)'
    BY <1>1, <1>3, <2>1, <2>2, <2>3 DEF ClearStreaming, Stage, Flagged, Claimed, Held
  <2>5. /\ Alone' /\ CallStage' /\ StreamingTellsTruth'
        /\ \A u \in Threads \ {t} : pc[u] = "idle" /\ pc'[u] = "idle"
    BY <1>1, <2>1, <2>4, StepAlone
  <2>6. FirstStream'
    BY <1>1, <1>2, <1>3, <2>1, <2>2, <2>3, <2>5 DEF ClearStreaming, FirstStream, InStart
  <2> QED
    BY <2>5, <2>6 DEF Separate
<1>4. CASE ClearInitialized(t)
  <2>1. pc[t] = "uninit" /\ Step(t, "uninit", "join")
    BY <1>4 DEF ClearInitialized, Step
  <2>2. Stage(t)
    BY <1>1, <2>1 DEF CallStage
  <2>3. pc'[t] = "join"
    BY <1>1, <2>1 DEF Step, TypeInv, TypeOK
  <2>4. Stage(t)'
    BY <1>1, <1>4, <2>1, <2>2, <2>3 DEF ClearInitialized, Stage, Flagged, Claimed, Held
  <2>5. /\ Alone' /\ CallStage' /\ StreamingTellsTruth'
        /\ \A u \in Threads \ {t} : pc[u] = "idle" /\ pc'[u] = "idle"
    BY <1>1, <2>1, <2>4, StepAlone
  <2>6. FirstStream'
    BY <1>1, <1>2, <1>4, <2>1, <2>2, <2>3, <2>5 DEF ClearInitialized, FirstStream, InStart
  <2> QED
    BY <2>5, <2>6 DEF Separate
<1>5. CASE JoinGrabber(t)
  <2>1. pc[t] = "join" /\ Step(t, "join", "pause")
    BY <1>5 DEF JoinGrabber, Step
  <2>2. Stage(t)
    BY <1>1, <2>1 DEF CallStage
  <2>3. pc'[t] = "pause"
    BY <1>1, <2>1 DEF Step, TypeInv, TypeOK
  <2>4. Stage(t)'
    BY <1>1, <1>5, <2>1, <2>2, <2>3 DEF JoinGrabber, Stage, Flagged, Claimed, Held, Destroyed
  <2>5. /\ Alone' /\ CallStage' /\ StreamingTellsTruth'
        /\ \A u \in Threads \ {t} : pc[u] = "idle" /\ pc'[u] = "idle"
    BY <1>1, <2>1, <2>4, StepAlone
  <2>6. FirstStream'
    BY <1>1, <1>2, <1>5, <2>1, <2>2, <2>3, <2>5 DEF JoinGrabber, FirstStream, InStart, Stage, Held, Destroyed
  <2> QED
    BY <2>5, <2>6 DEF Separate
<1>6. CASE PauseAudio(t)
  <2>1. pc[t] = "pause" /\ Step(t, "pause", "release")
    BY <1>6 DEF PauseAudio, Step
  <2>2. Stage(t)
    BY <1>1, <2>1 DEF CallStage
  <2>3. pc'[t] = "release"
    BY <1>1, <2>1 DEF Step, TypeInv, TypeOK
  <2>4. Stage(t)'
    BY <1>1, <1>6, <2>1, <2>2, <2>3 DEF PauseAudio, Stage, Flagged, Claimed, Held
  <2>5. /\ Alone' /\ CallStage' /\ StreamingTellsTruth'
        /\ \A u \in Threads \ {t} : pc[u] = "idle" /\ pc'[u] = "idle"
    BY <1>1, <2>1, <2>4, StepAlone
  <2>6. FirstStream'
    BY <1>1, <1>2, <1>6, <2>1, <2>2, <2>3, <2>5 DEF PauseAudio, FirstStream, InStart, Stage, Held
  <2> QED
    BY <2>5, <2>6 DEF Separate
<1>7. CASE ReleaseEncoder(t)
  <2>1. pc[t] = "release" /\ Step(t, "release", "idle")
    BY <1>7 DEF ReleaseEncoder, Step
  <2>2. Stage(t)
    BY <1>1, <2>1 DEF CallStage
  <2>3. pc'[t] = "idle"
    BY <1>1, <2>1 DEF Step, TypeInv, TypeOK
  <2>4. StreamingTellsTruth'
    <3>1. streaming = FALSE /\ initialized = FALSE /\ managers = {} /\ grabber = NoManager
      BY <1>1, <2>1, <2>2 DEF Stage, Flagged, Claimed, Held, TypeInv, TypeOK
    <3> QED
      BY <1>7, <3>1 DEF ReleaseEncoder, StreamingTellsTruth
  <2>5. /\ Alone' /\ CallStage'
        /\ \A u \in Threads \ {t} : pc[u] = "idle" /\ pc'[u] = "idle"
    BY <1>1, <2>1, <2>4, StepAlone
  <2>6. managers = {} /\ \A m \in Manager : captures[m] = "idle"
    BY <2>1, <2>2 DEF Stage, Held, IInv, CapturingExists
  <2>7. FirstStream'
    BY <1>1, <1>2, <1>7, <2>1, <2>3, <2>5, <2>6 DEF ReleaseEncoder, FirstStream, InStart
  <2> QED
    BY <2>4, <2>5, <2>7 DEF Separate
<1> QED
  BY <1>3, <1>4, <1>5, <1>6, <1>7 DEF Stopping

\* A call begins where no other is: the flags tell the truth then.
LEMMA EnterKeeps ==
  ASSUME IInv, NEW t \in Threads, StartStream(t) \/ StopStream(t), ~overlapped'
  PROVE  Separate'
<1> USE DEF flagVars, mediaVars, frameVars, sessionVars
<1>1. PICK at \in {"start", "stop"} : Enters(t, at) /\ (at = "start" <=> StartStream(t))
  BY DEF StartStream, StopStream, Enters, Step
<1>2. ~overlapped /\ \A u \in Threads \ {t} : pc[u] = "idle"
  BY <1>1, Zenon DEF Enters
<1>3. TypeInv /\ StreamingTellsTruth /\ FirstStream
  BY <1>2 DEF IInv, Separate
<1>4. pc[t] = "idle" /\ pc' = [pc EXCEPT ![t] = at]
  BY <1>1 DEF Enters, Step
<1>5. Quiet /\ pc'[t] = at /\ \A u \in Threads \ {t} : pc'[u] = "idle"
  BY <1>2, <1>3, <1>4 DEF Quiet, TypeInv, TypeOK
<1>6. /\ initialized = streaming
      /\ managers = IF streaming THEN {grabber} ELSE {}
      /\ streaming <=> grabber # NoManager
  BY <1>2, <1>3, <1>5 DEF StreamingTellsTruth
<1>7. /\ UNCHANGED <<flagVars, grabber, managers, mediaVars, frameVars>>
      /\ IF at = "start" THEN ~streaming /\ starts' = starts + 1 ELSE streaming /\ starts' = starts
  BY <1>1 DEF StartStream, StopStream, Enters, Step
<1>8. Stage(t)'
  BY <1>1, <1>5, <1>6, <1>7 DEF Stage, Flagged, Claimed, Held
<1>9. CallStage' /\ Alone' /\ StreamingTellsTruth'
  BY <1>1, <1>5, <1>8 DEF CallStage, Alone, StreamingTellsTruth, Quiet
<1>10. FirstStream'
  <2>1. starts \in Nat
    BY <1>3 DEF TypeInv, TypeOK
  <2>2. CASE at = "start"
    <3>1. starts' <= 1 => starts = 0
      BY <1>7, <2>1, <2>2
    <3>2. starts' <= 1 => ~codec /\ lastFrame = "none" /\ managers = {}
      BY <1>3, <1>6, <1>7, <2>2, <3>1 DEF FirstStream
    <3>3. \A m \in Manager : managers = {} => captures[m] = "idle"
      BY DEF IInv, CapturingExists
    <3> QED
      BY <1>5, <1>7, <2>1, <2>2, <3>2, <3>3 DEF FirstStream, InStart
  <2>3. CASE at = "stop"
    <3>1. \A u \in Threads : pc'[u] \notin InStart
      BY <1>5, <2>3 DEF InStart
    <3>2. starts' = starts /\ UNCHANGED <<managers, mediaVars, frameVars>>
      BY <1>7, <2>3
    <3> QED
      BY <1>3, <3>1, <3>2 DEF FirstStream, InStart
  <2> QED
    BY <1>1, <2>2, <2>3
<1> QED
  BY <1>9, <1>10 DEF Separate

\* Connections and the history of what was sent play no part in it.
LEMMA ConnectionKeeps ==
  ASSUME IInv, ~overlapped, NEW s \in Sessions, Register(s) \/ Disconnect(s)
  PROVE  Separate'
<1>1. UNCHANGED <<pc, mine, starts, overlapped, streaming, initialized, grabber, managers,
                  audio, encoder, codec, lastFrame, captures>>
  BY DEF Register, Disconnect, flagVars, mediaVars, threadVars, frameVars
<1>2. Alone' /\ CallStage' /\ StreamingTellsTruth'
  BY <1>1 DEF IInv, Separate, Alone, CallStage, Stage, StreamingTellsTruth, Quiet
<1>3. FirstStream'
  BY <1>1 DEF IInv, Separate, FirstStream
<1> QED
  BY <1>2, <1>3 DEF Separate

\* A callback finds, in the first stream, what it uses.
LEMMA CallbackKeeps ==
  ASSUME IInv, ~overlapped, NEW m \in Manager, Callback(m)
  PROVE  Separate'
<1>1. UNCHANGED <<pc, mine, starts, overlapped, streaming, initialized, grabber, managers,
                  audio, encoder, codec>>
  BY DEF Callback, NewFrame, EncodeAudio, EncodeVideo, flagVars, mediaVars, threadVars
<1>2. Alone' /\ CallStage' /\ StreamingTellsTruth'
  BY <1>1 DEF IInv, Separate, Alone, CallStage, Stage, StreamingTellsTruth, Quiet
<1>3. FirstStream /\ TypeInv
  BY DEF IInv, Separate
<1>4. CASE NewFrame(m)
  <2>1. m \in managers /\ codec
    BY <1>4 DEF NewFrame
  <2>2. lastFrame' = IF lastFrame = "none" THEN "alive" ELSE lastFrame
    BY <1>4 DEF NewFrame
  <2>3. \A n \in Manager : captures'[n] # "idle" => n = m \/ captures[n] # "idle"
    BY <1>3, <1>4 DEF NewFrame, CaptureStep, TypeInv, TypeOK
  <2>4. starts <= 1 => lastFrame' = "alive"
    BY <1>3, <2>1, <2>2 DEF FirstStream, TypeInv, TypeOK
  <2> QED
    BY <1>1, <1>2, <1>3, <2>1, <2>3, <2>4 DEF Separate, FirstStream
<1>5. CASE EncodeAudio(m) \/ EncodeVideo(m)
  <2>1. lastFrame' = lastFrame /\ captures[m] # "idle"
    BY <1>5 DEF EncodeAudio, EncodeVideo, CaptureStep, mediaVars
  <2>2. \A n \in Manager : captures'[n] # "idle" => captures[n] # "idle"
    BY <1>3, <1>5 DEF EncodeAudio, EncodeVideo, CaptureStep, TypeInv, TypeOK
  <2> QED
    BY <1>1, <1>2, <1>3, <2>1, <2>2 DEF Separate, FirstStream
<1> QED
  BY <1>4, <1>5 DEF Callback

\* No manager goes, whoever destroys it, before its capture thread is out of the callback.
LEMMA CapturingKeeps == IInv /\ Next => CapturingExists'
<1> SUFFICES ASSUME IInv, Next PROVE CapturingExists'
  OBVIOUS
<1> USE DEF flagVars, mediaVars, frameVars, sessionVars
<1>1. CapturingExists /\ TypeInv
  BY DEF IInv
<1>2. ASSUME NEW s \in Sessions, Register(s) \/ Disconnect(s) PROVE CapturingExists'
  BY <1>1, <1>2 DEF Register, Disconnect, CapturingExists
<1>3. ASSUME NEW t \in Threads, StartStream(t) \/ StopStream(t) PROVE CapturingExists'
  BY <1>1, <1>3 DEF StartStream, StopStream, CapturingExists
<1>4. ASSUME NEW t \in Threads, Starting(t) PROVE CapturingExists'
  <2>1. captures' = captures /\ (codec => codec')
    BY <1>4 DEF Starting, SetStreaming, InitScreenCapture, SetInitialized, DropGrabber,
                CreateManager, AssignGrabber, StartAudio, OpenEncoder, FinishEncoder
  <2>2. \/ managers \subseteq managers'
        \/ Destroyed(grabber)
    BY <1>4 DEF Starting, SetStreaming, InitScreenCapture, SetInitialized, DropGrabber,
                CreateManager, AssignGrabber, StartAudio, OpenEncoder, FinishEncoder
  <2> QED
    BY <1>1, <2>1, <2>2 DEF CapturingExists, Destroyed, NoManager, Manager
<1>5. ASSUME NEW t \in Threads, Stopping(t) PROVE CapturingExists'
  <2>1. captures' = captures /\ codec' = codec
    BY <1>5 DEF Stopping, ClearStreaming, ClearInitialized, JoinGrabber, PauseAudio,
                ReleaseEncoder
  <2>2. managers' = managers \/ Destroyed(grabber)
    BY <1>5 DEF Stopping, ClearStreaming, ClearInitialized, JoinGrabber, PauseAudio,
                ReleaseEncoder
  <2> QED
    BY <1>1, <2>1, <2>2 DEF CapturingExists, Destroyed, NoManager, Manager
<1>6. ASSUME NEW m \in Manager, Callback(m) PROVE CapturingExists'
  <2>1. managers' = managers /\ codec' = codec
    BY <1>6 DEF Callback, NewFrame, EncodeAudio, EncodeVideo
  <2>2. captures[m] # "idle" \/ (m \in managers /\ codec)
    BY <1>6 DEF Callback, NewFrame, EncodeAudio, EncodeVideo, CaptureStep
  <2>3. \A n \in Manager \ {m} : captures'[n] = captures[n]
    BY <1>1, <1>6 DEF Callback, NewFrame, EncodeAudio, EncodeVideo, CaptureStep, TypeInv, TypeOK
  <2> QED
    BY <1>1, <2>1, <2>2, <2>3 DEF CapturingExists
<1> QED
  BY <1>2, <1>3, <1>4, <1>5, <1>6 DEF Next

\* The flags, the managers and what a callback uses agree as long as starts and stops
\* do not overlap; a manager's capture thread never outlives it.
THEOREM CaptureInvariance == Spec => []IInv
<1>1. IInv /\ Next => IInv'
  <2> SUFFICES ASSUME IInv, Next PROVE IInv'
    OBVIOUS
  <2>1. TypeInv'
    BY ConnectionTypes, StartTypes, StopTypes, CallbackTypes DEF IInv, Next
  <2>2. CapturingExists'
    BY CapturingKeeps
  <2>3. ASSUME ~overlapped' PROVE Separate'
    <3>1. ASSUME NEW s \in Sessions, Register(s) \/ Disconnect(s) PROVE Separate'
      BY <2>3, <3>1, ConnectionKeeps DEF Register, Disconnect, threadVars
    <3>2. ASSUME NEW t \in Threads, StartStream(t) \/ StopStream(t) PROVE Separate'
      BY <2>3, <3>2, EnterKeeps
    <3>3. ASSUME NEW t \in Threads, Starting(t) PROVE Separate'
      <4>1. overlapped' = overlapped
        BY <3>3 DEF Starting, SetStreaming, InitScreenCapture, SetInitialized, DropGrabber,
                    CreateManager, AssignGrabber, StartAudio, OpenEncoder, FinishEncoder
      <4> QED
        BY <2>3, <3>3, <4>1, StartKeeps
    <3>4. ASSUME NEW t \in Threads, Stopping(t) PROVE Separate'
      <4>1. overlapped' = overlapped
        BY <3>4 DEF Stopping, ClearStreaming, ClearInitialized, JoinGrabber, PauseAudio,
                    ReleaseEncoder
      <4> QED
        BY <2>3, <3>4, <4>1, StopKeeps
    <3>5. ASSUME NEW m \in Manager, Callback(m) PROVE Separate'
      <4>1. overlapped' = overlapped
        BY <3>5 DEF Callback, NewFrame, EncodeAudio, EncodeVideo, threadVars
      <4> QED
        BY <2>3, <3>5, <4>1, CallbackKeeps
    <3> QED
      BY <3>1, <3>2, <3>3, <3>4, <3>5 DEF Next
  <2> QED
    BY <2>1, <2>2, <2>3 DEF IInv
<1>2. IInv /\ UNCHANGED vars => IInv'
  <2> SUFFICES ASSUME IInv, UNCHANGED vars PROVE IInv'
    OBVIOUS
  <2> USE DEF vars
  <2>1. TypeInv' /\ CapturingExists'
    BY DEF IInv, TypeInv, TypeOK, HasMine, CapturingExists
  <2>2. Alone => Alone'
    BY DEF Alone
  <2>3. CallStage => CallStage'
    BY DEF CallStage, Stage
  <2>4. StreamingTellsTruth => StreamingTellsTruth'
    BY DEF StreamingTellsTruth, Quiet
  <2>5. FirstStream => FirstStream'
    BY DEF FirstStream
  <2> QED
    BY <2>1, <2>2, <2>3, <2>4, <2>5 DEF IInv, Separate
<1> QED
  BY InitIInv, <1>1, <1>2, PTL DEF Spec

\* As long as starts and stops have not overlapped, the flags tell the truth between them.
THEOREM FlagsTellTruth == Spec => []StreamingTellsTruth
<1>1. IInv => StreamingTellsTruth
  BY DEF IInv, Separate, StreamingTellsTruth
<1> QED
  BY CaptureInvariance, <1>1, PTL

\* As long as starts and stops have not overlapped, no callback is under way when a stop
\* releases the encoder, and the first stream's callbacks have all they use.
THEOREM CallbacksSafe == Spec => []CallbackSafe
<1>1. IInv => CallbackSafe
  <2> SUFFICES ASSUME IInv, ~overlapped, NEW m \in Manager, captures[m] # "idle"
               PROVE  /\ \A t \in Threads : pc[t] \notin {"pause", "release"}
                      /\ starts = 1 => encoder = "whole" /\ lastFrame = "alive" /\ audio = "running"
    BY DEF CallbackSafe
  <2>1. managers # {} /\ codec
    BY DEF IInv, CapturingExists
  <2>2. \A t \in Threads : pc[t] \notin {"pause", "release"}
    BY <2>1 DEF IInv, Separate, CallStage, Stage, Held
  <2>3. starts = 1 => encoder = "whole" /\ lastFrame = "alive" /\ audio = "running"
    BY <2>1 DEF IInv, Separate, FirstStream
  <2> QED
    BY <2>2, <2>3
<1> QED
  BY CaptureInvariance, <1>1, PTL

=============================================================================
