-------------------------- MODULE InputStreamSession --------------------------
(***************************************************************************)
(* The 3DS's buttons and sticks on their way to the virtual controller:    *)
(* the main loop's frame (PPUI::UpdateInput, main.cpp), the filter that    *)
(* sends only what has changed (PPSessionManager::UpdateInputStream), the  *)
(* session's queue, and the server's ProcessInput (InputStreamSession.cpp).*)
(*                                                                         *)
(* An input is what one message says: the keys held, the keys released in  *)
(* this frame, and the sticks, of which one axis each is modelled (x and y *)
(* are treated alike).  Keys are the bits of the 3DS's key masks.  One     *)
(* connection at a time has the input streamer to itself.                  *)
(***************************************************************************)
EXTENDS Integers, Sequences

CONSTANTS
    Pads,      \* what the user's hands can do: [keys, left, right]
    Files,     \* the profiles input.cfg may list: sets of [name, type]
    Missing,   \* a setting that is not there
    MaxQueue   \* bound: messages on their way

ZL == 14
ZR == 15
ControllerBits == 0..11                 \* those of the default profile's controller
KeyboardBits == ControllerBits \cup {ZL, ZR}

ASSUME PadsAssumption == Pads \subseteq [keys : SUBSET (0..31), left : Int, right : Int]
ASSUME MissingAssumption == Missing # "keyboard"
ASSUME MaxQueueAssumption == MaxQueue \in Nat

Rest == [keys |-> {}, left |-> 0, right |-> 0]

VARIABLES
    pad,       \* what the user is doing
    held,      \* kHeld, the keys held when the last frame looked
    session,   \* is there a _session?
    started,   \* its isSessionStarted
    link,      \* is its thread running and connected?
    first,     \* _initInputFirstFrame
    old,       \* _oldDown, _oldUp, _oldCX, ...
    queue,     \* input messages queued or on their way
    profile,   \* the type of the server's profile "Default"
    pressed,   \* the keys FakeInput holds down
    report,    \* m_x360Report
    offered,   \* history: has a frame of a started stream seen the user's input?
    lost       \* history: is the input remembered as sent one that was not?

clientVars == <<session, started, link>>
memoryVars == <<first, old>>
serverVars == <<profile, pressed, report>>
vars == <<pad, held, session, started, link, first, old, queue, profile, pressed, report,
          offered, lost>>

NoReport == [buttons |-> {}, lt |-> 0, rt |-> 0, left |-> 0, right |-> 0]

-----------------------------------------------------------------------------
(* LoadInputConfig.                                                        *)

\* MUTANT: a profile is skipped when name or type is missing, and both are read.
ReadsBoth(p) == p.name # Missing /\ p.type = "keyboard"

\* `!lookupValue(name) && lookupValue(type)': the type is looked up only without a
\* name, and when it is found the profile is skipped, so that of a profile that is
\* not skipped no type has been read.
ReadsKeyboard(p) ==
    LET skipped  == p.name = Missing /\ p.type # Missing
        typeRead == IF p.name = Missing THEN p.type ELSE Missing
    IN  ~skipped /\ typeRead = "keyboard"

\* Profiles of type keyboard are kept by their name, over the built-in one too;
\* m_currentProfile stays "Default".
LoadInputConfig(file) ==
    IF \E p \in file : ReadsKeyboard(p) /\ p.name = "Default" THEN "keyboard" ELSE "x360"

Init ==
    /\ pad = Rest
    /\ held = {}
    /\ session = FALSE
    /\ started = FALSE
    /\ link = FALSE
    /\ first = FALSE
    /\ old = [down |-> {}, up |-> {}, left |-> 0, right |-> 0]
    /\ queue = << >>
    /\ \E file \in Files : profile = LoadInputConfig(file)
    /\ pressed = {}
    /\ report = NoReport
    /\ offered = FALSE
    /\ lost = FALSE

-----------------------------------------------------------------------------
(* The user and the session around the input.                              *)

User ==
    /\ \E p \in Pads : p # pad /\ pad' = p
    /\ offered' = FALSE
    /\ UNCHANGED <<held, clientVars, memoryVars, queue, serverVars, lost>>

\* A new session, connected.
Connect ==
    /\ ~session
    /\ session' = TRUE
    /\ started' = FALSE
    /\ link' = TRUE
    /\ UNCHANGED <<pad, held, memoryVars, queue, serverVars, offered, lost>>

\* SendMsgStartStream.  (Nothing in the client calls it or SendMsgStopStream yet; the
\* manager's StartStreaming is a comment.)
SendMsgStartStream ==
    /\ session
    /\ ~started
    /\ started' = TRUE
    /\ offered' = FALSE
    /\ UNCHANGED <<pad, held, session, link, memoryVars, queue, serverVars, lost>>

\* The connection ends: what is queued is not sent, what is on its way arrives, before
\* anything of the next connection.
CutQueue ==
    /\ link' = FALSE
    /\ \E n \in 0..Len(queue) :
         queue' = SubSeq(queue, 1, n) /\ lost' = (lost \/ n < Len(queue))
    /\ UNCHANGED <<pad, held, memoryVars, serverVars>>

\* The connection fails, and with it the thread.
LinkLost ==
    /\ link
    /\ CutQueue
    /\ UNCHANGED <<session, started, offered>>

\* SendMsgStopStream ends the session's thread, and the session stays.
SendMsgStopStream ==
    /\ session
    /\ started
    /\ started' = FALSE
    /\ offered' = FALSE
    /\ CutQueue
    /\ UNCHANGED session

\* DisconnectToServer.  What the manager remembers of the input stays.
Disconnect ==
    /\ session
    /\ session' = FALSE
    /\ started' = FALSE
    /\ offered' = FALSE
    /\ CutQueue

-----------------------------------------------------------------------------
(* The main loop's frame.                                                  *)

\* MUTANT: only the keys tell an input from the one before.
DiffersInKeys(in) == in.down # old.down \/ in.up # old.up \/ ~first

Differs(in) == in # old \/ ~first

\* MUTANT: keys that go up are reported late, as those held before.
ReadLate == [down |-> held, up |-> {}, left |-> pad.left, right |-> pad.right]

\* PPUI::UpdateInput, with what hidScanInput finds.
ReadInput == [down |-> pad.keys, up |-> held \ pad.keys, left |-> pad.left, right |-> pad.right]

Remember(in) == first' = TRUE /\ old' = in

\* SendMsgSendInputData of a started stream.  AddMessageToQueue drops a message
\* without a connection and does not say so: the input is remembered all the same.
SendInput(in) ==
    /\ started
    /\ Remember(in)
    /\ IF link THEN queue' = Append(queue, in) /\ lost' = FALSE
               ELSE queue' = queue /\ lost' = TRUE

\* Otherwise it returns without a value: what the caller reads may be true or false.
SendNothing(in) ==
    /\ ~started
    /\ \/ Remember(in) /\ lost' = TRUE
       \/ UNCHANGED <<memoryVars, lost>>
    /\ UNCHANGED queue

Frame ==
    /\ Len(queue) < MaxQueue
    /\ held' = pad.keys
    /\ offered' = (session /\ started)
    /\ IF session /\ Differs(ReadInput)
       THEN SendInput(ReadInput) \/ SendNothing(ReadInput)
       ELSE UNCHANGED <<memoryVars, queue, lost>>
    /\ UNCHANGED <<pad, clientVars, serverVars>>

-----------------------------------------------------------------------------
(* The server's ProcessInput.                                              *)

Abs(n) == IF n < 0 THEN -n ELSE n

\* A quotient cut off towards zero, as conversions to an integer do it.
Cut(a, b) == IF a < 0 THEN -((-a) \div b) ELSE a \div b

Clip(n, lo, hi) == IF n < lo THEN lo ELSE IF n > hi THEN hi ELSE n

Short(n) == ((n + 32768) % 65536) - 32768

MAX_STICK_RANGE == 30000
c_cpadDeadZone == 15
c_cpadMax == 156
ADDITION_CSTICK == 6000     \* a fifth of the range

\* MUTANT: the left stick is not clipped to its range.
LeftUnclipped(m) ==
    Short(Cut(MAX_STICK_RANGE * (IF Abs(m) <= c_cpadDeadZone THEN 0 ELSE m), c_cpadMax))

LeftStick(m) ==
    LET centred == IF Abs(m) <= c_cpadDeadZone THEN 0 ELSE m
    IN  Short(Cut(MAX_STICK_RANGE * Clip(centred, -c_cpadMax, c_cpadMax), c_cpadMax))

\* A fifth is added to every position, the centre too.  (In single precision the result
\* at -65, -39 and -26 is nearer to zero by one.)
RightStick(m) ==
    LET centred == IF Abs(m) < c_cpadDeadZone THEN 0 ELSE m
    IN  Clip(Cut(MAX_STICK_RANGE * centred + c_cpadMax * ADDITION_CSTICK, c_cpadMax),
             -MAX_STICK_RANGE, MAX_STICK_RANGE)

\* MUTANT: a trigger goes up only with the message that says so.
TriggerSticky(in, key, before) ==
    IF key \in in.up THEN 0 ELSE IF key \in in.down THEN 250 ELSE before

Trigger(in, key, before) == IF key \in in.down /\ key \notin in.up THEN 250 ELSE 0

X360(in) ==
    [buttons |-> in.down \cap ControllerBits,
     lt |-> Trigger(in, ZL, report.lt),
     rt |-> Trigger(in, ZR, report.rt),
     left |-> LeftStick(in.left),
     right |-> RightStick(in.right)]

\* UpdateInput and ProcessInput, by the profile's type.  A keyboard profile also moves
\* the mouse, which is left out.
ProcessInput ==
    /\ queue # << >>
    /\ queue' = Tail(queue)
    /\ IF profile = "keyboard"
       THEN pressed' = Head(queue).down \cap KeyboardBits /\ report' = report
       ELSE pressed' = pressed /\ report' = X360(Head(queue))
    /\ UNCHANGED <<pad, held, clientVars, memoryVars, profile, offered, lost>>

-----------------------------------------------------------------------------

Next ==
    \/ User \/ Connect \/ SendMsgStartStream \/ SendMsgStopStream \/ LinkLost
    \/ Disconnect
    \/ Frame
    \/ ProcessInput

\* The main loop draws frame after frame; the session's thread sends what is queued
\* and TCP and the server's thread bring it to ProcessInput.
Fairness == WF_vars(Frame) /\ WF_vars(ProcessInput)

Spec == Init /\ [][Next]_vars /\ Fairness

-----------------------------------------------------------------------------
(* Properties.                                                             *)

Message == [down : SUBSET (0..31), up : SUBSET (0..31), left : Int, right : Int]
Report == [buttons : SUBSET ControllerBits, lt : {0, 250}, rt : {0, 250},
           left : -MAX_STICK_RANGE..MAX_STICK_RANGE,
           right : -MAX_STICK_RANGE..MAX_STICK_RANGE]

\* Types of the variables: what is reported is a report whatever the sticks say.
TypeOK ==
    /\ pad \in [keys : SUBSET (0..31), left : Int, right : Int]
    /\ held \subseteq 0..31
    /\ {session, started, link, first, offered, lost} \subseteq BOOLEAN
    /\ old \in Message
    /\ queue \in Seq(Message) /\ Len(queue) <= MaxQueue
    /\ profile \in {"keyboard", "x360"}
    /\ pressed \subseteq KeyboardBits
    /\ report \in Report

\* What a controller in the user's hands would report.
Sign(m) == IF m < 0 THEN -1 ELSE 1
Share(m) == IF Abs(m) <= 15 THEN 0 ELSE IF Abs(m) > 156 THEN 156 ELSE Abs(m)
Shown(p) ==
    /\ report.buttons = {k \in p.keys : k <= 11}
    /\ report.lt = 250 <=> ZL \in p.keys
    /\ report.rt = 250 <=> ZR \in p.keys
    /\ report.left = Sign(p.left) * ((MAX_STICK_RANGE * Share(p.left)) \div c_cpadMax)
    /\ report.right = RightStick(p.right)

\* Whatever was held or moved before, in this stream or another, however many frames
\* were not sent for being the same, and whatever input.cfg lists: once a frame has seen
\* the user's input and nothing is on its way, the controller shows it, unless the input
\* was remembered as sent and was not (PPSessionManager.cpp:147).
ControllerShowsInput == offered /\ queue = << >> /\ ~lost => Shown(pad)

\* A key released or a stick let go is never left behind: hands that stay as they are
\* show on the controller, and what was lost is the only exception.
InputArrives ==
    \A p \in Pads :
        <>[](pad = p /\ session /\ started /\ link) => <>[](Shown(p) \/ lost)

\* Of two positions of a stick the one further on never reports less, and no position
\* leaves the range of the report or wraps around it (InputStreamSession.cpp:280,
\* 289-300).  The right stick's rest is 6000, by the constant ADDITION_CSTICK, not 0.
SticksMonotone ==
    \A i \in 1..Len(queue) : \A p \in Pads :
        /\ p.left <= queue[i].left => LeftStick(p.left) <= LeftStick(queue[i].left)
        /\ p.right <= queue[i].right => RightStick(p.right) <= RightStick(queue[i].right)
        /\ {LeftStick(queue[i].left), RightStick(queue[i].right)} 
             \subseteq -MAX_STICK_RANGE..MAX_STICK_RANGE

=============================================================================
