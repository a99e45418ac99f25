----------------------- MODULE InputStreamSessionProofs -----------------------
(***************************************************************************)
(* The user's input for every movement of the hands, every input.cfg and   *)
(* every length of the queue: the arithmetic of the sticks, and what the   *)
(* controller shows when nothing is on its way.                            *)
(***************************************************************************)
EXTENDS InputStreamSession, TLAPS

-----------------------------------------------------------------------------
(* The sticks.                                                             *)

\* The constants of a stick, as far as intervals need them.
LEMMA StickConstants ==
  /\ MAX_STICK_RANGE \in Nat
  /\ c_cpadMax \in Nat
  BY SMT DEF MAX_STICK_RANGE, c_cpadMax

\* A position within the stick's reach fills at most the range of the report.
LEMMA CutBound ==
  ASSUME NEW a \in Int, -4680000 <= a, a <= 4680000
  PROVE  Cut(a, 156) \in Int /\ -30000 <= Cut(a, 156) /\ Cut(a, 156) <= 30000
  BY SMT DEF Cut

\* Cutting off towards zero keeps the order.
LEMMA CutMonotone ==
  ASSUME NEW a \in Int, NEW b \in Int, a <= b
  PROVE  Cut(a, 156) \in Int /\ Cut(b, 156) \in Int /\ Cut(a, 156) <= Cut(b, 156)
  BY SMT DEF Cut

\* What fits a short is not changed by becoming one.
LEMMA ShortIdentity ==
  ASSUME NEW n \in Int, -30000 <= n, n <= 30000
  PROVE  Short(n) = n
  BY SMT DEF Short

\* The left stick's position between dead zone and reach.
Reached(m) == Clip(IF Abs(m) <= 15 THEN 0 ELSE m, -156, 156)

LEMMA ReachedBound ==
  ASSUME NEW m \in Int
  PROVE  Reached(m) \in Int /\ -156 <= Reached(m) /\ Reached(m) <= 156
  BY SMT DEF Reached, Clip, Abs

LEMMA ReachedMonotone ==
  ASSUME NEW m \in Int, NEW n \in Int, m <= n
  PROVE  Reached(m) <= Reached(n)
  BY SMT DEF Reached, Clip, Abs

\* The left stick is never wrapped around.
LEMMA LeftStickIs ==
  ASSUME NEW m \in Int
  PROVE  /\ LeftStick(m) = Cut(30000 * Reached(m), 156)
         /\ LeftStick(m) \in Int
         /\ -30000 <= LeftStick(m) /\ LeftStick(m) <= 30000
<1>1. LeftStick(m) = Short(Cut(30000 * Reached(m), 156))
  BY SMT DEF LeftStick, Reached, MAX_STICK_RANGE, c_cpadDeadZone, c_cpadMax
<1>2. /\ 30000 * Reached(m) \in Int
      /\ -4680000 <= 30000 * Reached(m) /\ 30000 * Reached(m) <= 4680000
  BY ReachedBound, SMT
<1>3. /\ Cut(30000 * Reached(m), 156) \in Int
      /\ -30000 <= Cut(30000 * Reached(m), 156) /\ Cut(30000 * Reached(m), 156) <= 30000
  BY <1>2, CutBound, SMT
<1>4. Short(Cut(30000 * Reached(m), 156)) = Cut(30000 * Reached(m), 156)
  BY <1>3, ShortIdentity, SMT
<1> QED
  BY <1>1, <1>3, <1>4, SMT

LEMMA LeftStickMonotone ==
  ASSUME NEW m \in Int, NEW n \in Int, m <= n
  PROVE  LeftStick(m) <= LeftStick(n)
<1>1. 30000 * Reached(m) \in Int /\ 30000 * Reached(n) \in Int
  BY ReachedBound, SMT
<1>2. 30000 * Reached(m) <= 30000 * Reached(n)
  BY ReachedBound, ReachedMonotone, SMT
<1> QED
  BY <1>1, <1>2, CutMonotone, LeftStickIs, SMT

\* The right stick's position, which the dead zone ends at and not behind.
Centred(m) == IF Abs(m) < 15 THEN 0 ELSE m

LEMMA CentredMonotone ==
  ASSUME NEW m \in Int, NEW n \in Int, m <= n
  PROVE  Centred(m) \in Int /\ Centred(n) \in Int /\ Centred(m) <= Centred(n)
  BY SMT DEF Centred, Abs

LEMMA RightStickIs ==
  ASSUME NEW m \in Int
  PROVE  RightStick(m) = Clip(Cut(30000 * Centred(m) + 936000, 156), -30000, 30000)
<1>1. 156 * 6000 = 936000
  BY SMT
<1> QED
  BY <1>1, SMT DEF RightStick, Centred, MAX_STICK_RANGE, c_cpadDeadZone, c_cpadMax,
                   ADDITION_CSTICK

LEMMA ClipMonotone ==
  ASSUME NEW m \in Int, NEW n \in Int, m <= n
  PROVE  /\ Clip(m, -30000, 30000) \in Int
         /\ -30000 <= Clip(m, -30000, 30000) /\ Clip(m, -30000, 30000) <= 30000
         /\ Clip(m, -30000, 30000) <= Clip(n, -30000, 30000)
  BY SMT DEF Clip

LEMMA RightStickBound ==
  ASSUME NEW m \in Int, NEW n \in Int, m <= n
  PROVE  /\ RightStick(m) \in Int
         /\ -30000 <= RightStick(m) /\ RightStick(m) <= 30000
         /\ RightStick(m) <= RightStick(n)
<1> DEFINE at(k) == 30000 * Centred(k) + 936000
<1>1. at(m) \in Int /\ at(n) \in Int /\ at(m) <= at(n)
  BY CentredMonotone, SMT
<1>2. /\ Cut(at(m), 156) \in Int /\ Cut(at(n), 156) \in Int
      /\ Cut(at(m), 156) <= Cut(at(n), 156)
  <2> HIDE DEF at
  <2> QED BY <1>1, CutMonotone, SMT
<1> QED
  BY <1>2, ClipMonotone, RightStickIs, SMT

LEMMA RightStickMonotone ==
  ASSUME NEW m \in Int, NEW n \in Int, m <= n
  PROVE  RightStick(m) <= RightStick(n)
  BY RightStickBound, SMT

\* Both sticks stay in the range of the report.
LEMMA StickRange ==
  ASSUME NEW m \in Int
  PROVE  /\ LeftStick(m) \in -MAX_STICK_RANGE..MAX_STICK_RANGE
         /\ RightStick(m) \in -MAX_STICK_RANGE..MAX_STICK_RANGE
<1>1. /\ LeftStick(m) \in Int /\ RightStick(m) \in Int
      /\ -MAX_STICK_RANGE <= LeftStick(m) /\ LeftStick(m) <= MAX_STICK_RANGE
      /\ -MAX_STICK_RANGE <= RightStick(m) /\ RightStick(m) <= MAX_STICK_RANGE
  BY LeftStickIs, RightStickBound, SMT DEF MAX_STICK_RANGE
<1> QED
  BY <1>1, StickConstants, SMT

\* The left stick reports what its share of the reach is of the range.
LEMMA LeftStickShown ==
  ASSUME NEW m \in Int
  PROVE  LeftStick(m) = Sign(m) * ((MAX_STICK_RANGE * Share(m)) \div c_cpadMax)
<1>1. /\ m < 0 => Reached(m) = -Share(m) /\ Sign(m) = -1
      /\ m >= 0 => Reached(m) = Share(m) /\ Sign(m) = 1
      /\ Share(m) \in Nat
  BY SMT DEF Reached, Share, Clip, Abs, Sign
<1>2. m < 0 => 30000 * Reached(m) = -(30000 * Share(m))
  BY <1>1, SMT
<1>3. Cut(30000 * Reached(m), 156) = Sign(m) * ((30000 * Share(m)) \div 156)
  BY <1>1, <1>2, SMT DEF Cut
<1> QED
  BY <1>3, LeftStickIs, SMT DEF MAX_STICK_RANGE, c_cpadMax

-----------------------------------------------------------------------------
(* The way of an input.                                                    *)

\* A message that says of no key that it is held and released.
Once(in) == in.down \cap in.up = {}

\* What the controller reports of a message.
ReportOf(in) ==
    [buttons |-> in.down \cap ControllerBits,
     lt |-> Trigger(in, ZL, 0),
     rt |-> Trigger(in, ZR, 0),
     left |-> LeftStick(in.left),
     right |-> RightStick(in.right)]

\* Messages queued or remembered say one thing of a key.
EachOnce ==
    /\ Once(old)
    /\ \A i \in 1..Len(queue) : Once(queue[i])

\* Between a frame of the stream and the next movement the user's input is remembered.
SeenIsRemembered ==
    offered => /\ first
               /\ old.down = pad.keys /\ old.left = pad.left /\ old.right = pad.right

\* What is remembered is the last message on its way, or what the controller reports,
\* unless it was lost.
LastSent ==
    first /\ ~lost => IF queue = << >> THEN report = ReportOf(old)
                                      ELSE queue[Len(queue)] = old

IInv ==
    /\ TypeOK
    /\ profile = "x360"
    /\ EachOnce
    /\ SeenIsRemembered
    /\ LastSent

\* No file makes the built-in profile a keyboard: of a profile that is kept no type has
\* been read.
LEMMA ProfileNeverRead ==
  ASSUME NEW file
  PROVE  LoadInputConfig(file) = "x360"
  BY MissingAssumption DEF LoadInputConfig, ReadsKeyboard

LEMMA ReportIs ==
  ASSUME NEW in \in Message
  PROVE  X360(in) = ReportOf(in) /\ X360(in) \in Report
<1>1. in.left \in Int /\ in.right \in Int /\ in.down \in SUBSET (0..31)
  BY DEF Message
<1>2. LeftStick(in.left) \in -MAX_STICK_RANGE..MAX_STICK_RANGE
  BY <1>1, StickRange
<1>3. RightStick(in.right) \in -MAX_STICK_RANGE..MAX_STICK_RANGE
  BY <1>1, StickRange
<1>4. /\ Trigger(in, ZL, report.lt) = Trigger(in, ZL, 0)
      /\ Trigger(in, ZR, report.rt) = Trigger(in, ZR, 0)
      /\ Trigger(in, ZL, 0) \in {0, 250} /\ Trigger(in, ZR, 0) \in {0, 250}
  BY DEF Trigger
<1>5. X360(in) = ReportOf(in)
  BY <1>4 DEF X360, ReportOf
<1>6. in.down \cap ControllerBits \in SUBSET ControllerBits
  BY Zenon
<1>7. ReportOf(in) \in Report
  BY <1>2, <1>3, <1>4, <1>6 DEF Report, ReportOf
<1> QED
  BY <1>5, <1>7

LEMMA InitIInv == Init => IInv
<1> SUFFICES ASSUME Init PROVE IInv
  OBVIOUS
<1> USE DEF Init
<1>1. profile = "x360"
  BY ProfileNeverRead
<1>2. 0 \in -MAX_STICK_RANGE..MAX_STICK_RANGE
  BY StickConstants, SMT
<1>3. report \in Report
  BY <1>2 DEF NoReport, Report
<1>4. TypeOK
  <2>1. pad \in [keys : SUBSET (0..31), left : Int, right : Int] /\ old \in Message
    BY DEF Rest, Message
  <2>2. queue \in Seq(Message) /\ Len(queue) <= MaxQueue
    BY MaxQueueAssumption
  <2> QED
    BY <1>1, <1>3, <2>1, <2>2 DEF TypeOK
<1>5. EachOnce /\ SeenIsRemembered /\ LastSent
  BY DEF EachOnce, Once, SeenIsRemembered, LastSent
<1> QED
  BY <1>1, <1>4, <1>5 DEF IInv

\* Hands and sessions that leave what is queued alone.
LEMMA UserKeeps == IInv /\ (User \/ Connect \/ SendMsgStartStream) => IInv'
<1> SUFFICES ASSUME IInv, User \/ Connect \/ SendMsgStartStream PROVE IInv'
  OBVIOUS
<1> USE DEF IInv, clientVars, memoryVars, serverVars
<1>1. UNCHANGED <<held, first, old, queue, profile, pressed, report, lost>>
  BY DEF User, Connect, SendMsgStartStream
<1>2. EachOnce' /\ LastSent'
  BY <1>1 DEF EachOnce, LastSent, ReportOf
<1>3. TypeOK'
  BY <1>1, PadsAssumption DEF TypeOK, User, Connect, SendMsgStartStream
<1>4. SeenIsRemembered'
  BY <1>1 DEF SeenIsRemembered, User, Connect, SendMsgStartStream
<1> QED
  BY <1>1, <1>2, <1>3, <1>4

\* An ending connection sends a part of the queue; the whole of it, or something is lost.
LEMMA CutKeeps ==
  ASSUME IInv, CutQueue
  PROVE  /\ queue' \in Seq(Message) /\ Len(queue') <= MaxQueue
         /\ lost' \in BOOLEAN
         /\ EachOnce' /\ LastSent'
<1> USE DEF IInv, TypeOK, memoryVars, serverVars
<1>1. PICK n \in 0..Len(queue) :
        queue' = SubSeq(queue, 1, n) /\ lost' = (lost \/ n < Len(queue))
  BY DEF CutQueue
<1>2. /\ queue' \in Seq(Message) /\ Len(queue') = n
      /\ \A i \in 1..n : queue'[i] = queue[i]
  BY <1>1
<1>3. Len(queue') <= MaxQueue
  BY <1>2, MaxQueueAssumption
<1>4. EachOnce'
  BY <1>2 DEF EachOnce, CutQueue
<1>5. CASE n < Len(queue)
  <2>1. lost'
    BY <1>1, <1>5
  <2> QED
    BY <1>2, <1>3, <1>4, <2>1 DEF LastSent
<1>6. CASE n = Len(queue)
  <2>1. lost' = lost
    BY <1>1, <1>6
  <2>2. queue' = queue
    BY <1>1, <1>6
  <2>3. LastSent'
    BY <2>1, <2>2 DEF LastSent, ReportOf, CutQueue
  <2> QED
    BY <1>2, <1>3, <1>4, <2>1, <2>3
<1> QED
  BY <1>5, <1>6

LEMMA EndKeeps == IInv /\ (LinkLost \/ SendMsgStopStream \/ Disconnect) => IInv'
<1> SUFFICES ASSUME IInv, LinkLost \/ SendMsgStopStream \/ Disconnect PROVE IInv'
  OBVIOUS
<1>1. CutQueue
  BY DEF LinkLost, SendMsgStopStream, Disconnect
<1>2. /\ queue' \in Seq(Message) /\ Len(queue') <= MaxQueue
      /\ lost' \in BOOLEAN
      /\ EachOnce' /\ LastSent'
  BY <1>1, CutKeeps
<1>3. UNCHANGED <<pad, held, first, old, profile, pressed, report>> /\ link' = FALSE
  BY <1>1 DEF CutQueue, memoryVars, serverVars
<1>4. TypeOK'
  BY <1>2, <1>3 DEF IInv, TypeOK, LinkLost, SendMsgStopStream, Disconnect
<1>5. SeenIsRemembered'
  BY <1>3 DEF IInv, SeenIsRemembered, LinkLost, SendMsgStopStream, Disconnect
<1> QED
  BY <1>2, <1>3, <1>4, <1>5 DEF IInv

\* A frame.  What it reads it remembers and queues, or it was the same.
LEMMA FrameKeeps == IInv /\ Frame => IInv'
<1> SUFFICES ASSUME IInv, Frame PROVE IInv'
  OBVIOUS
<1> USE DEF IInv, clientVars, memoryVars, serverVars
<1> DEFINE in == ReadInput
<1>1. in \in Message /\ Once(in)
  BY DEF TypeOK, ReadInput, Message, Once
<1>2. in.down = pad.keys /\ in.left = pad.left /\ in.right = pad.right
  BY DEF ReadInput
<1>3. /\ UNCHANGED <<pad, session, started, link, profile, pressed, report>>
      /\ held' = pad.keys /\ offered' = (session /\ started) /\ Len(queue) < MaxQueue
  BY DEF Frame
<1>4. offered' \in BOOLEAN /\ held' \subseteq 0..31
  BY <1>3 DEF TypeOK
<1>5. CASE session /\ Differs(in) /\ SendInput(in)
  <2>1. first' = TRUE /\ old' = in /\ started
    BY <1>5 DEF SendInput, Remember
  <2>2. SeenIsRemembered'
    BY <2>1, <1>2, <1>3 DEF SeenIsRemembered
  <2>3. CASE link
    <3>1. queue' = Append(queue, in) /\ lost' = FALSE
      BY <1>5, <2>3 DEF SendInput
    <3>2. /\ queue' \in Seq(Message) /\ Len(queue') = Len(queue) + 1
          /\ queue'[Len(queue) + 1] = in
          /\ \A i \in 1..Len(queue) : queue'[i] = queue[i]
      BY <3>1, <1>1 DEF TypeOK
    <3>3. EachOnce'
      BY <3>2, <2>1, <1>1 DEF EachOnce, TypeOK
    <3>4. LastSent'
      BY <3>2, <2>1 DEF LastSent, TypeOK
    <3>5. Len(queue') <= MaxQueue
      BY <3>2, <1>3, MaxQueueAssumption DEF TypeOK
    <3>6. TypeOK'
      BY <3>1, <3>2, <3>5, <2>1, <1>1, <1>3, <1>4 DEF TypeOK
    <3> QED
      BY <3>3, <3>4, <3>6, <2>2, <1>3
  <2>4. CASE ~link
    <3>1. queue' = queue /\ lost' = TRUE
      BY <1>5, <2>4 DEF SendInput
    <3>2. TypeOK'
      BY <3>1, <2>1, <1>1, <1>3, <1>4 DEF TypeOK
    <3> QED
      BY <3>1, <3>2, <2>1, <2>2, <1>1, <1>3 DEF EachOnce, LastSent
  <2> QED
    BY <2>3, <2>4
<1>6. CASE session /\ Differs(in) /\ SendNothing(in)
  <2>1. ~started /\ queue' = queue
    BY <1>6 DEF SendNothing
  <2>2. ~offered'
    BY <2>1, <1>3
  <2>3. CASE Remember(in) /\ lost' = TRUE
    <3>1. TypeOK'
      BY <2>1, <2>3, <1>1, <1>3, <1>4 DEF TypeOK, Remember
    <3> QED
      BY <3>1, <2>1, <2>2, <2>3, <1>1, <1>3
         DEF EachOnce, LastSent, SeenIsRemembered, Remember
  <2>4. CASE UNCHANGED <<memoryVars, lost>>
    <3>1. TypeOK'
      BY <2>1, <2>4, <1>3, <1>4 DEF TypeOK
    <3> QED
      BY <3>1, <2>1, <2>2, <2>4, <1>3
         DEF EachOnce, LastSent, ReportOf, SeenIsRemembered
  <2> QED
    BY <2>3, <2>4, <1>6 DEF SendNothing
<1>7. CASE ~(session /\ Differs(in))
  <2>1. UNCHANGED <<first, old, queue, lost>>
    BY <1>7 DEF Frame
  <2>2. TypeOK'
    BY <2>1, <1>3, <1>4 DEF TypeOK
  <2>3. SeenIsRemembered'
    <3> SUFFICES ASSUME session, started
                 PROVE  first /\ old.down = pad.keys /\ old.left = pad.left
                        /\ old.right = pad.right
      BY <2>1, <1>3 DEF SeenIsRemembered
    <3>1. in = old /\ first
      BY <1>7 DEF Differs
    <3> QED
      BY <3>1, <1>2
  <2> QED
    BY <2>1, <2>2, <2>3, <1>3 DEF EachOnce, LastSent, ReportOf
<1> QED
  BY <1>5, <1>6, <1>7 DEF Frame

\* The server takes the first message, which is the last sent when no other is left.
LEMMA ProcessKeeps == IInv /\ ProcessInput => IInv'
<1> SUFFICES ASSUME IInv, ProcessInput PROVE IInv'
  OBVIOUS
<1> USE DEF IInv
<1>1. /\ UNCHANGED <<pad, held, session, started, link, first, old, profile, offered, lost>>
      /\ queue # << >> /\ queue' = Tail(queue)
      /\ pressed' = pressed /\ report' = X360(Head(queue))
  BY DEF ProcessInput, clientVars, memoryVars
<1>2. /\ Len(queue) \in Nat /\ Len(queue) >= 1
      /\ Head(queue) = queue[1] /\ Head(queue) \in Message
      /\ queue' \in Seq(Message) /\ Len(queue') = Len(queue) - 1
      /\ \A i \in 1..Len(queue') : queue'[i] = queue[i + 1]
  BY <1>1 DEF TypeOK
<1>3. report' = ReportOf(queue[1]) /\ report' \in Report
  BY <1>1, <1>2, ReportIs
<1>4. Len(queue') <= MaxQueue
  BY <1>2, MaxQueueAssumption DEF TypeOK
<1>5. TypeOK'
  BY <1>1, <1>2, <1>3, <1>4 DEF TypeOK
<1>6. EachOnce'
  BY <1>1, <1>2 DEF EachOnce
<1>7. LastSent'
  <2> SUFFICES ASSUME first, ~lost
               PROVE  IF queue' = << >> THEN report' = ReportOf(old)
                                       ELSE queue'[Len(queue')] = old
    BY <1>1 DEF LastSent, ReportOf
  <2>1. queue[Len(queue)] = old
    BY <1>1 DEF LastSent
  <2>2. CASE Len(queue) = 1
    <3>1. queue' = << >>
      BY <1>2, <2>2
    <3> QED
      BY <3>1, <2>1, <2>2, <1>3
  <2>3. CASE Len(queue) > 1
    <3>1. queue' # << >> /\ Len(queue') \in 1..Len(queue')
      BY <1>2, <2>3
    <3>2. queue'[Len(queue')] = queue[Len(queue)]
      BY <1>2, <3>1
    <3> QED
      BY <3>1, <3>2, <2>1
  <2> QED
    BY <2>2, <2>3, <1>2
<1>8. SeenIsRemembered'
  BY <1>1 DEF SeenIsRemembered
<1> QED
  BY <1>1, <1>5, <1>6, <1>7, <1>8

\* The inductive invariant: what the frames remember is what was sent last, and it is on
\* its way or shown unless it was lost (PPSessionManager.cpp:142-158).
THEOREM InputInvariance == Spec => []IInv
<1>1. ASSUME IInv, [Next]_vars PROVE IInv'
  <2>1. CASE UNCHANGED vars
    BY <1>1, <2>1 DEF vars, IInv, TypeOK, EachOnce, SeenIsRemembered, LastSent, ReportOf
  <2> QED
    BY <1>1, <2>1, UserKeeps, EndKeeps, FrameKeeps, ProcessKeeps DEF Next
<1> QED
  BY InitIInv, <1>1, PTL DEF Spec

\* Types: whatever the sticks say, what is reported stays in the report's range
\* (InputStreamSession.cpp:265-300).
THEOREM InputTypes == Spec => []TypeOK
<1>1. IInv => TypeOK
  BY DEF IInv
<1> QED
  BY InputInvariance, <1>1, PTL

\* The controller shows the input a frame has seen once nothing is on its way, unless it
\* was lost: for any hands, any input.cfg and any number of messages on their way
\* (PPSessionManager.cpp:142-158, InputStreamSession.cpp:225-308).
THEOREM HandsShown == Spec => []ControllerShowsInput
<1>1. ASSUME IInv PROVE ControllerShowsInput
  <2> SUFFICES ASSUME offered, queue = << >>, ~lost PROVE Shown(pad)
    BY DEF ControllerShowsInput
  <2> USE <1>1 DEF IInv
  <2>1. /\ report = ReportOf(old) /\ Once(old)
        /\ old.down = pad.keys /\ old.left = pad.left /\ old.right = pad.right
    BY DEF LastSent, SeenIsRemembered, EachOnce
  <2>2. pad.left \in Int /\ pad.keys \subseteq 0..31
    BY DEF TypeOK
  <2>3. report.buttons = {k \in pad.keys : k <= 11}
    <3>1. report.buttons = pad.keys \cap (0..11)
      BY <2>1 DEF ReportOf, ControllerBits
    <3>2. \A k \in 0..31 : k \in 0..11 <=> k <= 11
      BY SMT
    <3> QED
      BY <3>1, <3>2, <2>2
  <2>4. \A key : (Trigger(old, key, 0) = 250) <=> key \in pad.keys
    BY <2>1 DEF Trigger, Once
  <2>5. (report.lt = 250 <=> ZL \in pad.keys) /\ (report.rt = 250 <=> ZR \in pad.keys)
    BY <2>1, <2>4 DEF ReportOf
  <2>6. report.left = Sign(pad.left) * ((MAX_STICK_RANGE * Share(pad.left)) \div c_cpadMax)
    BY <2>1, <2>2, LeftStickShown DEF ReportOf
  <2>7. report.right = RightStick(pad.right)
    BY <2>1 DEF ReportOf
  <2> QED
    BY <2>3, <2>5, <2>6, <2>7 DEF Shown
<1> QED
  BY InputInvariance, <1>1, PTL

\* A stick moved further never reports less and stays in range, for all positions and not
\* only a pad's (InputStreamSession.cpp:265-300).
THEOREM SticksInOrder == Spec => []SticksMonotone
<1>1. ASSUME IInv PROVE SticksMonotone
  <2> SUFFICES ASSUME NEW i \in 1..Len(queue), NEW p \in Pads
               PROVE  /\ p.left <= queue[i].left => LeftStick(p.left) <= LeftStick(queue[i].left)
                      /\ p.right <= queue[i].right
                           => RightStick(p.right) <= RightStick(queue[i].right)
                      /\ {LeftStick(queue[i].left), RightStick(queue[i].right)}
                           \subseteq -MAX_STICK_RANGE..MAX_STICK_RANGE
    BY DEF SticksMonotone
  <2>1. queue[i] \in Message
    BY <1>1 DEF IInv, TypeOK
  <2>2. queue[i].left \in Int /\ queue[i].right \in Int
    BY <2>1 DEF Message
  <2>3. p.left \in Int /\ p.right \in Int
    BY PadsAssumption
  <2>4. p.left <= queue[i].left => LeftStick(p.left) <= LeftStick(queue[i].left)
    BY <2>2, <2>3, LeftStickMonotone
  <2>5. p.right <= queue[i].right => RightStick(p.right) <= RightStick(queue[i].right)
    BY <2>2, <2>3, RightStickMonotone
  <2>6. {LeftStick(queue[i].left), RightStick(queue[i].right)}
          \subseteq -MAX_STICK_RANGE..MAX_STICK_RANGE
    BY <2>2, StickRange
  <2> QED
    BY <2>4, <2>5, <2>6
<1> QED
  BY InputInvariance, <1>1, PTL

=============================================================================
