----------------------- MODULE PPSessionLifecycleProofs -----------------------
(***************************************************************************)
(* Who may free a session, for any number of sessions one after the other. *)
(***************************************************************************)
EXTENDS PPSessionLifecycle, TLAPS

USE MaxSessionsAssumption

\* The sessions the manager knows.
Current == {session, testSession} \ {NoSession}

\* A session that has not been created yet is as Init left it.
Fresh ==
    \A s \in Session :
        /\ netPc[s] = "none" <=> s > created
        /\ s > created =>
             /\ ~running[s] /\ ~kill[s] /\ killer[s] = "none"
             /\ connectState[s] = "IDLE" /\ phase[s] = "new" /\ testResult[s] = 0
             /\ mutex[s] = "free"
             /\ ~freed[s]

\* One session at a time; the one being deleted is it.
OneCurrent ==
    /\ session = NoSession \/ testSession = NoSession
    /\ victim # NoSession => victim \in Current
    /\ victim # NoSession <=> mainPc \in {"release", "kill", "join", "free", "forget"}

\* A created session is known or freed, and both only until it is forgotten.
KnownOrFreed ==
    \A s \in 1..created :
        /\ s \in Current \/ freed[s]
        /\ freed[s] /\ s \in Current => mainPc = "forget" /\ victim = s
        /\ mainPc = "forget" /\ victim = s => freed[s]

\* A thread is told to end by the main thread only while that deletes it.
Killers ==
    \A s \in Session :
        /\ kill[s] <=> killer[s] # "none"
        /\ killer[s] = "main" => freed[s] \/ (victim = s /\ mainPc \in {"join", "free"})
        /\ mainPc \in {"free", "forget"} /\ victim = s => netPc[s] = "ended" \/ killer[s] = "net"
        /\ freed[s] => netPc[s] = "ended" \/ killer[s] = "net"

\* A started thread that nobody told to end is running; a session is deleted
\* after its thread has started.
Started ==
    /\ \A s \in Session : ~kill[s] /\ netPc[s] \notin {"none", "startMain", "startTest"} => running[s]
    /\ victim # NoSession => netPc[victim] \notin {"none", "startMain", "startTest"}

\* The thread leaves its loop, and deletes the mutex, only when told to.
Ending ==
    \A s \in Session :
        /\ netPc[s] \in {"tail", "close", "ended", "selfJoin"} => kill[s]
        /\ mutex[s] = "deleted" => netPc[s] \in {"close", "ended"}

\* Until it is connected nobody but threadMain and threadTest touch their session.
Connecting ==
    \A s \in Session :
        /\ netPc[s] \in {"startMain", "loop"} /\ connectState[s] = "IDLE" =>
             s = session /\ sessionState = "CONNECTING" /\ victim = NoSession /\ ~kill[s]
        /\ netPc[s] = "startMain" => connectState[s] = "IDLE"
        /\ netPc[s] = "startTest" => testResult[s] = 0 /\ ~kill[s]
        /\ netPc[s] \in {"startTest", "testLoop"} => s = testSession /\ killer[s] # "net"
        /\ netPc[s] \in {"recv", "askHub", "pair", "send"} => connectState[s] = "CONNECTED"

\* Until it is paired the session cannot be deleted.
Pairing ==
    \A s \in Session :
        /\ netPc[s] \in {"recv", "askHub", "pair"} => killer[s] # "net"
        /\ netPc[s] = "pair" => phase[s] = "paired"
        /\ netPc[s] \in {"loop", "recv", "askHub", "pair", "send"}
           /\ connectState[s] = "CONNECTED" /\ killer[s] # "net"
           /\ (phase[s] # "paired" \/ netPc[s] \in {"askHub", "pair"}) =>
             s = session /\ sessionState = "CONNECTED" /\ victim = NoSession /\ ~kill[s]

\* The inductive invariant.
IInv ==
    /\ TypeOK
    /\ Fresh
    /\ OneCurrent
    /\ KnownOrFreed
    /\ Killers
    /\ Started
    /\ Ending
    /\ Connecting
    /\ Pairing
    /\ NotConnectedWithoutSession

\* A new session starts alone: there was none.
LEMMA ConnectToServerKeeps ==
    ASSUME IInv, ConnectToServer
    PROVE  IInv'
<1> USE DEF ConnectToServer, Create, mainVars, managerVars, objectVars, killVars, netVars,
            sendVars, peerVars, Session, NoSession, Current
<1>1. TypeOK /\ Fresh /\ OneCurrent /\ KnownOrFreed /\ Killers /\ Started /\ Ending
      /\ Connecting /\ Pairing /\ NotConnectedWithoutSession
  BY DEF IInv
<1>2. TypeOK'
  BY <1>1, SMTT(30) DEF TypeOK
<1>3. Fresh'
  BY <1>1 DEF TypeOK, Fresh
<1>4. OneCurrent'
  BY <1>1 DEF TypeOK, OneCurrent
<1>5. KnownOrFreed'
  BY <1>1 DEF TypeOK, KnownOrFreed, OneCurrent, Fresh
<1>6. Killers'
  BY <1>1 DEF TypeOK, Killers, OneCurrent, KnownOrFreed, Fresh, Started
<1>7. Started'
  BY <1>1 DEF TypeOK, Started
<1>8. Ending'
  BY <1>1 DEF TypeOK, Ending, Fresh
<1>9. Connecting'
  BY <1>1 DEF TypeOK, Connecting, Started, Ending, Pairing, Killers, KnownOrFreed, OneCurrent,
              Fresh
<1>10. Pairing'
  BY <1>1 DEF TypeOK, Pairing
<1>11. NotConnectedWithoutSession'
  BY <1>1 DEF TypeOK, NotConnectedWithoutSession
<1> QED
  BY <1>2, <1>3, <1>4, <1>5, <1>6, <1>7, <1>8, <1>9, <1>10, <1>11 DEF IInv

\* A new test session starts alone.
LEMMA TestConnectionKeeps ==
    ASSUME IInv, TestConnection
    PROVE  IInv'
<1> USE DEF TestConnection, Create, mainVars, managerVars, objectVars, killVars, netVars,
            sendVars, peerVars, Session, NoSession, Current
<1>1. TypeOK /\ Fresh /\ OneCurrent /\ KnownOrFreed /\ Killers /\ Started /\ Ending
      /\ Connecting /\ Pairing /\ NotConnectedWithoutSession
  BY DEF IInv
<1>2. TypeOK'
  BY <1>1, SMTT(30) DEF TypeOK
<1>3. Fresh'
  BY <1>1 DEF TypeOK, Fresh
<1>4. OneCurrent'
  BY <1>1 DEF TypeOK, OneCurrent
<1>5. KnownOrFreed'
  BY <1>1 DEF TypeOK, KnownOrFreed, OneCurrent, Fresh
<1>6. Killers'
  BY <1>1 DEF TypeOK, Killers, OneCurrent, KnownOrFreed, Fresh, Started
<1>7. Started'
  BY <1>1 DEF TypeOK, Started
<1>8. Ending'
  BY <1>1 DEF TypeOK, Ending, Fresh
<1>9. Connecting'
  BY <1>1 DEF TypeOK, Connecting, Started, Ending, Pairing, Killers, KnownOrFreed, OneCurrent,
              Fresh
<1>10. Pairing'
  BY <1>1 DEF TypeOK, Pairing
<1>11. NotConnectedWithoutSession'
  BY <1>1 DEF TypeOK, NotConnectedWithoutSession
<1> QED
  BY <1>2, <1>3, <1>4, <1>5, <1>6, <1>7, <1>8, <1>9, <1>10, <1>11 DEF IInv

\* The session that is deleted has started: its state says so.
LEMMA DisconnectToServerKeeps ==
    ASSUME IInv, DisconnectToServer
    PROVE  IInv'
<1> USE DEF DisconnectToServer, mainVars, managerVars, objectVars, killVars, netVars, sendVars,
            peerVars, Session, NoSession, Current
<1>1. TypeOK /\ Fresh /\ OneCurrent /\ KnownOrFreed /\ Killers /\ Started /\ Ending
      /\ Connecting /\ Pairing /\ NotConnectedWithoutSession
  BY DEF IInv
<1>2. Fresh' /\ Ending' /\ NotConnectedWithoutSession'
  BY <1>1 DEF Fresh, Ending, NotConnectedWithoutSession
<1>3. TypeOK'
  BY <1>1 DEF TypeOK
<1>4. OneCurrent'
  BY <1>1 DEF TypeOK, OneCurrent
<1>5. KnownOrFreed'
  BY <1>1 DEF TypeOK, KnownOrFreed
<1>6. Killers'
  BY <1>1 DEF TypeOK, Killers
<1>7. Started'
  BY <1>1 DEF TypeOK, Started, Fresh, Connecting, OneCurrent, KnownOrFreed
<1>8. Connecting'
  BY <1>1 DEF TypeOK, Connecting, Started, Ending, Pairing, Killers, KnownOrFreed, OneCurrent,
              Fresh
<1>9. Pairing'
  BY <1>1 DEF TypeOK, Pairing, Connecting, Killers, KnownOrFreed, OneCurrent, Fresh, Ending
<1> QED
  BY <1>2, <1>3, <1>4, <1>5, <1>6, <1>7, <1>8, <1>9 DEF IInv

\* The test session that is deleted has published its result.
LEMMA TestFinishedKeeps ==
    ASSUME IInv, TestFinished
    PROVE  IInv'
<1> USE DEF TestFinished, mainVars, managerVars, objectVars, killVars, netVars, sendVars,
            peerVars, Session, NoSession, Current
<1>1. TypeOK /\ Fresh /\ OneCurrent /\ KnownOrFreed /\ Killers /\ Started /\ Ending
      /\ Connecting /\ Pairing /\ NotConnectedWithoutSession
  BY DEF IInv
<1>2. Fresh' /\ Ending' /\ NotConnectedWithoutSession'
  BY <1>1 DEF Fresh, Ending, NotConnectedWithoutSession
<1>3. TypeOK'
  BY <1>1, SMTT(30) DEF TypeOK
<1>4. OneCurrent'
  BY <1>1 DEF TypeOK, OneCurrent
<1>5. KnownOrFreed'
  BY <1>1 DEF TypeOK, KnownOrFreed
<1>6. Killers'
  BY <1>1 DEF TypeOK, Killers
<1>7. Started'
  BY <1>1 DEF TypeOK, Started, Fresh, Connecting, OneCurrent, KnownOrFreed
<1>8. Connecting'
  BY <1>1 DEF TypeOK, Connecting, Started, Ending, Pairing, Killers, KnownOrFreed, OneCurrent,
              Fresh
<1>9. Pairing'
  BY <1>1 DEF TypeOK, Pairing, Connecting, Killers, KnownOrFreed, OneCurrent, Fresh, Ending
<1> QED
  BY <1>2, <1>3, <1>4, <1>5, <1>6, <1>7, <1>8, <1>9 DEF IInv

\* Busy, and at most the mutex ahead.
LEMMA AuthenticationKeeps ==
    ASSUME IInv, Authentication
    PROVE  IInv'
<1> USE DEF Authentication, AuthenticationNeeded, QueueOpen, mainVars, managerVars, objectVars,
            killVars, netVars, sendVars, peerVars, Session, NoSession, Current
<1>1. TypeOK /\ Fresh /\ OneCurrent /\ KnownOrFreed /\ Killers /\ Started /\ Ending
      /\ Connecting /\ Pairing /\ NotConnectedWithoutSession
  BY DEF IInv
<1>2. Fresh' /\ Started' /\ Ending' /\ Connecting' /\ Pairing' /\ NotConnectedWithoutSession'
  BY <1>1 DEF Fresh, Started, Ending, Connecting, Pairing, NotConnectedWithoutSession
<1>3. TypeOK'
  BY <1>1 DEF TypeOK
<1>4. OneCurrent'
  BY <1>1 DEF TypeOK, OneCurrent
<1>5. KnownOrFreed'
  BY <1>1 DEF TypeOK, KnownOrFreed
<1>6. Killers'
  BY <1>1 DEF TypeOK, Killers
<1> QED
  BY <1>2, <1>3, <1>4, <1>5, <1>6 DEF IInv

\* The main thread leaves the mutex.
LEMMA QueueMessageKeeps ==
    ASSUME IInv, QueueMessage
    PROVE  IInv'
<1> USE DEF QueueMessage, mainVars, managerVars, objectVars, killVars, netVars, sendVars,
            peerVars, Session, NoSession, Current
<1>1. TypeOK /\ Fresh /\ OneCurrent /\ KnownOrFreed /\ Killers /\ Started /\ Ending
      /\ Connecting /\ Pairing /\ NotConnectedWithoutSession
  BY DEF IInv
<1>2. Fresh' /\ Started' /\ Ending' /\ Connecting' /\ Pairing' /\ NotConnectedWithoutSession'
  BY <1>1 DEF Fresh, Started, Ending, Connecting, Pairing, NotConnectedWithoutSession
<1>3. queue' \in [Session -> Nat]
  <2>1. queue \in [Session -> Nat]
    BY <1>1 DEF TypeOK
  <2>2. queue' = queue \/ queue' = [queue EXCEPT ![session] = @ + 1]
    OBVIOUS
  <2>3. \A t \in Session : queue[t] + 1 \in Nat
    BY <2>1
  <2> HIDE DEF QueueMessage, Session
  <2>4. [queue EXCEPT ![session] = @ + 1] \in [Session -> Nat]
    BY <2>1, <2>3
  <2> QED
    BY <2>1, <2>2, <2>4
<1>4. TypeOK'
  BY <1>1, <1>3 DEF TypeOK
<1>5. OneCurrent'
  BY <1>1 DEF TypeOK, OneCurrent
<1>6. KnownOrFreed'
  BY <1>1 DEF TypeOK, KnownOrFreed
<1>7. Killers'
  BY <1>1 DEF TypeOK, Killers
<1> QED
  BY <1>2, <1>3, <1>4, <1>5, <1>6, <1>7 DEF IInv

\* A session that is not to be joined has ended itself.
LEMMA ReleaseSessionKeeps ==
    ASSUME IInv, ReleaseSession
    PROVE  IInv'
<1> USE DEF ReleaseSession, mainVars, managerVars, objectVars, killVars, netVars, sendVars,
            peerVars, Session, NoSession, Current
<1>1. TypeOK /\ Fresh /\ OneCurrent /\ KnownOrFreed /\ Killers /\ Started /\ Ending
      /\ Connecting /\ Pairing /\ NotConnectedWithoutSession
  BY DEF IInv
<1>2. Fresh' /\ Started' /\ Ending' /\ Connecting' /\ Pairing' /\ NotConnectedWithoutSession'
  BY <1>1 DEF Fresh, Started, Ending, Connecting, Pairing, NotConnectedWithoutSession
<1>3. TypeOK'
  BY <1>1 DEF TypeOK
<1>4. OneCurrent'
  BY <1>1 DEF TypeOK, OneCurrent
<1>5. KnownOrFreed'
  BY <1>1 DEF TypeOK, KnownOrFreed
<1>6. Killers'
  BY <1>1 DEF TypeOK, Killers, OneCurrent, KnownOrFreed, Fresh, Started
<1> QED
  BY <1>2, <1>3, <1>4, <1>5, <1>6 DEF IInv

\* From here the main thread waits for the thread it told to end.
LEMMA KillKeeps ==
    ASSUME IInv, Kill
    PROVE  IInv'
<1> USE DEF Kill, mainVars, managerVars, objectVars, killVars, netVars, sendVars, peerVars,
            Session, NoSession, Current
<1>1. TypeOK /\ Fresh /\ OneCurrent /\ KnownOrFreed /\ Killers /\ Started /\ Ending
      /\ Connecting /\ Pairing /\ NotConnectedWithoutSession
  BY DEF IInv
<1>2. NotConnectedWithoutSession'
  BY <1>1 DEF NotConnectedWithoutSession
<1>3. TypeOK'
  <2>1. /\ running \in [Session -> BOOLEAN]
        /\ kill \in [Session -> BOOLEAN]
        /\ killer \in [Session -> {"none", "main", "net"}]
    BY <1>1 DEF TypeOK
  <2>2. running' \in [Session -> BOOLEAN] /\ kill' \in [Session -> BOOLEAN]
    BY <2>1
  <2>3. killer' \in [Session -> {"none", "main", "net"}]
    BY <2>1
  <2> QED
    BY <1>1, <2>2, <2>3 DEF TypeOK
<1>4. Fresh'
  BY <1>1 DEF TypeOK, Fresh
<1>5. OneCurrent'
  BY <1>1 DEF TypeOK, OneCurrent
<1>6. KnownOrFreed'
  BY <1>1 DEF TypeOK, KnownOrFreed
<1>7. Killers'
  BY <1>1, SMTT(30) DEF TypeOK, Killers
<1>8. Started'
  BY <1>1 DEF TypeOK, Started
<1>9. Ending'
  BY <1>1 DEF TypeOK, Ending
<1>10. Connecting'
  BY <1>1 DEF TypeOK, Connecting, Started, Ending, Pairing, Killers, KnownOrFreed, OneCurrent,
              Fresh
<1>11. Pairing'
  BY <1>1, SMTT(30) DEF TypeOK, Pairing
<1> QED
  BY <1>2, <1>3, <1>4, <1>5, <1>6, <1>7, <1>8, <1>9, <1>10, <1>11 DEF IInv

\* It has ended.
LEMMA JoinKeeps ==
    ASSUME IInv, Join
    PROVE  IInv'
<1> USE DEF Join, mainVars, managerVars, objectVars, killVars, netVars, sendVars, peerVars,
            Session, NoSession, Current
<1>1. TypeOK /\ Fresh /\ OneCurrent /\ KnownOrFreed /\ Killers /\ Started /\ Ending
      /\ Connecting /\ Pairing /\ NotConnectedWithoutSession
  BY DEF IInv
<1>2. Fresh' /\ Started' /\ Ending' /\ Connecting' /\ Pairing' /\ NotConnectedWithoutSession'
  BY <1>1 DEF Fresh, Started, Ending, Connecting, Pairing, NotConnectedWithoutSession
<1>3. TypeOK'
  BY <1>1 DEF TypeOK
<1>4. OneCurrent'
  BY <1>1 DEF TypeOK, OneCurrent
<1>5. KnownOrFreed'
  BY <1>1 DEF TypeOK, KnownOrFreed
<1>6. Killers'
  BY <1>1 DEF TypeOK, Killers
<1> QED
  BY <1>2, <1>3, <1>4, <1>5, <1>6 DEF IInv

\* What is freed has ended, or had ended itself.
LEMMA FreeKeeps ==
    ASSUME IInv, Free
    PROVE  IInv'
<1> USE DEF Free, mainVars, managerVars, objectVars, killVars, netVars, sendVars, peerVars,
            Session, NoSession, Current
<1>1. TypeOK /\ Fresh /\ OneCurrent /\ KnownOrFreed /\ Killers /\ Started /\ Ending
      /\ Connecting /\ Pairing /\ NotConnectedWithoutSession
  BY DEF IInv
<1>2. Started' /\ Ending' /\ Connecting' /\ Pairing' /\ NotConnectedWithoutSession'
  BY <1>1 DEF Started, Ending, Connecting, Pairing, NotConnectedWithoutSession
<1>3. TypeOK'
  BY <1>1 DEF TypeOK
<1>4. Fresh'
  BY <1>1 DEF TypeOK, Fresh
<1>5. OneCurrent'
  BY <1>1 DEF TypeOK, OneCurrent
<1>6. KnownOrFreed'
  BY <1>1 DEF TypeOK, KnownOrFreed
<1>7. Killers'
  BY <1>1 DEF TypeOK, Killers
<1> QED
  BY <1>2, <1>3, <1>4, <1>5, <1>6, <1>7 DEF IInv

\* What is forgotten is freed.
LEMMA ForgetKeeps ==
    ASSUME IInv, Forget
    PROVE  IInv'
<1> USE DEF Forget, mainVars, managerVars, objectVars, killVars, netVars, sendVars, peerVars,
            Session, NoSession, Current
<1>1. TypeOK /\ Fresh /\ OneCurrent /\ KnownOrFreed /\ Killers /\ Started /\ Ending
      /\ Connecting /\ Pairing /\ NotConnectedWithoutSession
  BY DEF IInv
<1>2. Fresh' /\ Ending'
  BY <1>1 DEF Fresh, Ending
<1>3. TypeOK'
  BY <1>1, SMTT(30) DEF TypeOK
<1>4. OneCurrent'
  BY <1>1 DEF TypeOK, OneCurrent
<1>5. KnownOrFreed'
  BY <1>1 DEF TypeOK, KnownOrFreed
<1>6. Killers'
  BY <1>1 DEF TypeOK, Killers
<1>7. Started'
  BY <1>1 DEF TypeOK, Started
<1>8. Connecting'
  BY <1>1 DEF TypeOK, Connecting, Started, Ending, Pairing, Killers, KnownOrFreed, OneCurrent,
              Fresh
<1>9. Pairing'
  BY <1>1 DEF TypeOK, Pairing, Connecting, Killers, KnownOrFreed, OneCurrent, Fresh, Ending
<1>10. NotConnectedWithoutSession'
  BY <1>1 DEF TypeOK, NotConnectedWithoutSession
<1> QED
  BY <1>2, <1>3, <1>4, <1>5, <1>6, <1>7, <1>8, <1>9, <1>10 DEF IInv

\* What the network threads leave alone.
LEMMA MainUnchanged ==
    ASSUME OneCurrent, KnownOrFreed,
           UNCHANGED <<created, session, testSession, victim, mainPc, freed>>
    PROVE  OneCurrent' /\ KnownOrFreed'
BY DEF OneCurrent, KnownOrFreed, Current

LEMMA StateUnchanged ==
    ASSUME NotConnectedWithoutSession, UNCHANGED <<session, testSession, sessionState>>
    PROVE  NotConnectedWithoutSession'
BY DEF NotConnectedWithoutSession

\* A step that neither tells, frees nor deletes, and in which no thread ends less.
LEMMA KillersKept ==
    ASSUME Killers, UNCHANGED <<kill, killer, freed, victim, mainPc>>,
           \A t \in Session : netPc[t] = "ended" => netPc'[t] = "ended"
    PROVE  Killers'
BY DEF Killers

\* A step of a thread that is not about to end and goes on.
LEMMA EndingKept ==
    ASSUME Ending, NEW s \in Session, mutex' = mutex,
           \A t \in Session : kill[t] => kill'[t],
           \A t \in Session \ {s} : netPc'[t] = netPc[t],
           netPc[s] \notin {"tail", "close", "ended", "selfJoin"},
           netPc'[s] \notin {"tail", "close", "ended", "selfJoin"}
    PROVE  Ending'
BY DEF Ending

\* The network touches no thread.
LEMMA PeerGoneKeeps ==
    ASSUME IInv, NEW s \in Session, PeerGone(s)
    PROVE  IInv'
<1> USE DEF PeerGone, mainVars, managerVars, objectVars, killVars, netVars, sendVars, peerVars,
            Session, NoSession, Current
<1>1. TypeOK /\ Fresh /\ OneCurrent /\ KnownOrFreed /\ Killers /\ Started /\ Ending
      /\ Connecting /\ Pairing /\ NotConnectedWithoutSession
  BY DEF IInv
<1>2. Fresh' /\ OneCurrent' /\ KnownOrFreed' /\ Killers' /\ Started' /\ Ending' /\
      Connecting' /\ Pairing' /\ NotConnectedWithoutSession'
  BY <1>1 DEF Fresh, OneCurrent, KnownOrFreed, Killers, Started, Ending, Connecting, Pairing,
              NotConnectedWithoutSession
<1>3. TypeOK'
  BY <1>1, SMTT(30) DEF TypeOK
<1> QED
  BY <1>2, <1>3 DEF IInv

\* The thread runs.
LEMMA StartKeeps ==
    ASSUME IInv, NEW s \in Session, Start(s)
    PROVE  IInv'
<1> USE DEF Start, Goto, mainVars, managerVars, objectVars, killVars, netVars, sendVars,
            peerVars, Session, NoSession, Current
<1>1. TypeOK /\ Fresh /\ OneCurrent /\ KnownOrFreed /\ Killers /\ Started /\ Ending
      /\ Connecting /\ Pairing /\ NotConnectedWithoutSession
  BY DEF IInv
<1>2. OneCurrent' /\ KnownOrFreed' /\ NotConnectedWithoutSession'
  BY <1>1, MainUnchanged, StateUnchanged
<1>3. TypeOK'
  BY <1>1 DEF TypeOK
<1>4. Fresh'
  BY <1>1 DEF TypeOK, Fresh
<1>5. Killers'
  BY <1>1, SMTT(30) DEF TypeOK, Killers
<1>6. Started'
  BY <1>1, SMTT(30) DEF TypeOK, Started
<1>7. Ending'
  <2>1. netPc = [t \in Session |-> netPc[t]] /\ kill \in [Session -> BOOLEAN]
    BY <1>1 DEF TypeOK
  <2>2. netPc'[s] \in {"loop", "testLoop"} /\ \A t \in Session \ {s} : netPc'[t] = netPc[t]
    BY <2>1
  <2>3. mutex' = mutex /\ \A t \in Session : kill[t] => kill'[t]
    BY <2>1
  <2> QED
    BY <1>1, <2>2, <2>3, EndingKept
<1>8. Connecting'
  BY <1>1, SMTT(30) DEF TypeOK, Connecting
<1>9. Pairing'
  BY <1>1, SMTT(30) DEF TypeOK, Pairing, Connecting, Killers, KnownOrFreed, OneCurrent, Fresh,
     Ending
<1> QED
  BY <1>2, <1>3, <1>4, <1>5, <1>6, <1>7, <1>8, <1>9 DEF IInv

\* Only the current session connects.
LEMMA ConnectKeeps ==
    ASSUME IInv, NEW s \in Session, Connect(s)
    PROVE  IInv'
<1> USE DEF Connect, ConnectFirst, mainVars, managerVars, objectVars, killVars, netVars,
            sendVars, peerVars, Session, NoSession, Current
<1>1. TypeOK /\ Fresh /\ OneCurrent /\ KnownOrFreed /\ Killers /\ Started /\ Ending
      /\ Connecting /\ Pairing /\ NotConnectedWithoutSession
  BY DEF IInv
<1>2. OneCurrent' /\ KnownOrFreed' /\ Killers' /\ Started' /\ Ending'
  BY <1>1 DEF OneCurrent, KnownOrFreed, Killers, Started, Ending
<1>3. TypeOK'
  BY <1>1 DEF TypeOK
<1>4. Fresh'
  BY <1>1 DEF TypeOK, Fresh
<1>5. Connecting'
  BY <1>1, SMTT(30) DEF TypeOK, Connecting, Started, Ending, Pairing, Killers, KnownOrFreed,
     OneCurrent,
              Fresh
<1>6. Pairing'
  BY <1>1, SMTT(30) DEF TypeOK, Pairing, Connecting, Killers, KnownOrFreed, OneCurrent, Fresh,
     Ending
<1>7. NotConnectedWithoutSession'
  BY <1>1 DEF TypeOK, NotConnectedWithoutSession, OneCurrent, Killers, KnownOrFreed, Fresh,
              Connecting, Pairing
<1> QED
  BY <1>2, <1>3, <1>4, <1>5, <1>6, <1>7 DEF IInv

\* Only the current session fails to connect.
LEMMA ConnectFailsKeeps ==
    ASSUME IInv, NEW s \in Session, ConnectFails(s)
    PROVE  IInv'
<1> USE DEF ConnectFails, ConnectFirst, mainVars, managerVars, objectVars, killVars, netVars,
            sendVars, peerVars, Session, NoSession, Current
<1>1. TypeOK /\ Fresh /\ OneCurrent /\ KnownOrFreed /\ Killers /\ Started /\ Ending
      /\ Connecting /\ Pairing /\ NotConnectedWithoutSession
  BY DEF IInv
<1>2. OneCurrent' /\ KnownOrFreed' /\ Killers' /\ Started' /\ Ending'
  BY <1>1 DEF OneCurrent, KnownOrFreed, Killers, Started, Ending
<1>3. TypeOK'
  BY <1>1 DEF TypeOK
<1>4. Fresh'
  BY <1>1 DEF TypeOK, Fresh
<1>5. Connecting'
  BY <1>1, SMTT(30) DEF TypeOK, Connecting, Started, Ending, Pairing, Killers, KnownOrFreed,
     OneCurrent,
              Fresh
<1>6. Pairing'
  BY <1>1, SMTT(30) DEF TypeOK, Pairing, Connecting, Killers, KnownOrFreed, OneCurrent, Fresh,
     Ending
<1>7. NotConnectedWithoutSession'
  BY <1>1 DEF TypeOK, NotConnectedWithoutSession, OneCurrent, Killers, KnownOrFreed, Fresh,
              Connecting, Pairing
<1> QED
  BY <1>2, <1>3, <1>4, <1>5, <1>6, <1>7 DEF IInv

\* Only a started test has a result.
LEMMA PublishResultKeeps ==
    ASSUME IInv, NEW s \in Session, PublishResult(s)
    PROVE  IInv'
<1> USE DEF PublishResult, mainVars, managerVars, objectVars, killVars, netVars, sendVars,
            peerVars, Session, NoSession, Current
<1>1. TypeOK /\ Fresh /\ OneCurrent /\ KnownOrFreed /\ Killers /\ Started /\ Ending
      /\ Connecting /\ Pairing /\ NotConnectedWithoutSession
  BY DEF IInv
<1>2. OneCurrent' /\ KnownOrFreed' /\ Killers' /\ Started' /\ Ending' /\ Pairing' /\
      NotConnectedWithoutSession'
  BY <1>1 DEF OneCurrent, KnownOrFreed, Killers, Started, Ending, Pairing,
              NotConnectedWithoutSession
<1>3. TypeOK'
  BY <1>1 DEF TypeOK
<1>4. Fresh'
  BY <1>1 DEF TypeOK, Fresh
<1>5. Connecting'
  BY <1>1, SMTT(30) DEF TypeOK, Connecting
<1> QED
  BY <1>2, <1>3, <1>4, <1>5 DEF IInv

\* A connected session receives.
LEMMA RoundKeeps ==
    ASSUME IInv, NEW s \in Session, Round(s)
    PROVE  IInv'
<1> USE DEF Round, Goto, mainVars, managerVars, objectVars, killVars, netVars, sendVars,
            peerVars, Session, NoSession, Current
<1>1. TypeOK /\ Fresh /\ OneCurrent /\ KnownOrFreed /\ Killers /\ Started /\ Ending
      /\ Connecting /\ Pairing /\ NotConnectedWithoutSession
  BY DEF IInv
<1>2. OneCurrent' /\ KnownOrFreed' /\ NotConnectedWithoutSession'
  BY <1>1, MainUnchanged, StateUnchanged
<1>3. TypeOK'
  BY <1>1 DEF TypeOK
<1>4. Fresh'
  BY <1>1 DEF TypeOK, Fresh
<1>5. Killers'
  BY <1>1, SMTT(30) DEF TypeOK, Killers
<1>6. Started'
  BY <1>1, SMTT(30) DEF TypeOK, Started
<1>7. Ending'
  BY <1>1, SMTT(30) DEF TypeOK, Ending
<1>8. Connecting'
  BY <1>1, SMTT(30) DEF TypeOK, Connecting
<1>9. Pairing'
  BY <1>1, SMTT(30) DEF TypeOK, Pairing, Connecting, Killers, KnownOrFreed, OneCurrent, Fresh,
     Ending
<1> QED
  BY <1>2, <1>3, <1>4, <1>5, <1>6, <1>7, <1>8, <1>9 DEF IInv

\* Accepted, and not paired yet.
LEMMA RecvAcceptedKeeps ==
    ASSUME IInv, NEW s \in Session, RecvAccepted(s)
    PROVE  IInv'
<1> USE DEF RecvAccepted, Goto, mainVars, managerVars, objectVars, killVars, netVars, sendVars,
            peerVars, Session, NoSession, Current
<1>1. TypeOK /\ Fresh /\ OneCurrent /\ KnownOrFreed /\ Killers /\ Started /\ Ending
      /\ Connecting /\ Pairing /\ NotConnectedWithoutSession
  BY DEF IInv
<1>2. OneCurrent' /\ KnownOrFreed' /\ NotConnectedWithoutSession'
  BY <1>1, MainUnchanged, StateUnchanged
<1>3. asked' \in [Session -> Nat]
  BY <1>1, SMTT(30) DEF TypeOK
<1>4. TypeOK'
  BY <1>1, <1>3 DEF TypeOK
<1>5. Fresh'
  BY <1>1 DEF TypeOK, Fresh
<1>6. Killers'
  BY <1>1, SMTT(30) DEF TypeOK, Killers
<1>7. Started'
  BY <1>1, SMTT(30) DEF TypeOK, Started
<1>8. Ending'
  <2>1. netPc = [t \in Session |-> netPc[t]] /\ kill \in [Session -> BOOLEAN]
    BY <1>1 DEF TypeOK
  <2>2. netPc'[s] = "askHub" /\ \A t \in Session \ {s} : netPc'[t] = netPc[t]
    BY <2>1
  <2>3. mutex' = mutex /\ \A t \in Session : kill[t] => kill'[t]
    BY <2>1
  <2> QED
    BY <1>1, <2>2, <2>3, EndingKept
<1>9. Connecting'
  BY <1>1, SMTT(30) DEF TypeOK, Connecting
<1>10. Pairing'
  BY <1>1, SMTT(30) DEF TypeOK, Pairing
<1> QED
  BY <1>2, <1>3, <1>4, <1>5, <1>6, <1>7, <1>8, <1>9, <1>10 DEF IInv

\* Paired, and the manager's state to be set.
LEMMA RecvHubItemsKeeps ==
    ASSUME IInv, NEW s \in Session, RecvHubItems(s)
    PROVE  IInv'
<1> USE DEF RecvHubItems, Goto, mainVars, managerVars, objectVars, killVars, netVars, sendVars,
            peerVars, Session, NoSession, Current
<1>1. TypeOK /\ Fresh /\ OneCurrent /\ KnownOrFreed /\ Killers /\ Started /\ Ending
      /\ Connecting /\ Pairing /\ NotConnectedWithoutSession
  BY DEF IInv
<1>2. OneCurrent' /\ KnownOrFreed' /\ NotConnectedWithoutSession'
  BY <1>1, MainUnchanged, StateUnchanged
<1>3. asked' \in [Session -> Nat]
  BY <1>1, SMTT(30) DEF TypeOK
<1>4. TypeOK'
  BY <1>1, <1>3 DEF TypeOK
<1>5. Fresh'
  BY <1>1 DEF TypeOK, Fresh
<1>6. Killers'
  BY <1>1, SMTT(30) DEF TypeOK, Killers
<1>7. Started'
  BY <1>1, SMTT(30) DEF TypeOK, Started
<1>8. Ending'
  <2>1. netPc = [t \in Session |-> netPc[t]] /\ kill \in [Session -> BOOLEAN]
    BY <1>1 DEF TypeOK
  <2>2. netPc'[s] = "pair" /\ \A t \in Session \ {s} : netPc'[t] = netPc[t]
    BY <2>1
  <2>3. mutex' = mutex /\ \A t \in Session : kill[t] => kill'[t]
    BY <2>1
  <2> QED
    BY <1>1, <2>2, <2>3, EndingKept
<1>9. Connecting'
  BY <1>1, SMTT(30) DEF TypeOK, Connecting
<1>10. Pairing'
  BY <1>1, SMTT(30) DEF TypeOK, Pairing
<1> QED
  BY <1>2, <1>3, <1>4, <1>5, <1>6, <1>7, <1>8, <1>9, <1>10 DEF IInv

\* Nothing but an answer less.
LEMMA RecvUnreadKeeps ==
    ASSUME IInv, NEW s \in Session, RecvUnread(s)
    PROVE  IInv'
<1> USE DEF RecvUnread, Goto, mainVars, managerVars, objectVars, killVars, netVars, sendVars,
            peerVars, Session, NoSession, Current
<1>1. TypeOK /\ Fresh /\ OneCurrent /\ KnownOrFreed /\ Killers /\ Started /\ Ending
      /\ Connecting /\ Pairing /\ NotConnectedWithoutSession
  BY DEF IInv
<1>2. OneCurrent' /\ KnownOrFreed' /\ NotConnectedWithoutSession'
  BY <1>1, MainUnchanged, StateUnchanged
<1>3. asked' \in [Session -> Nat]
  BY <1>1, SMTT(30) DEF TypeOK
<1>4. TypeOK'
  BY <1>1, <1>3 DEF TypeOK
<1>5. Fresh'
  BY <1>1 DEF TypeOK, Fresh
<1>6. Killers'
  BY <1>1, SMTT(30) DEF TypeOK, Killers
<1>7. Started'
  BY <1>1, SMTT(30) DEF TypeOK, Started
<1>8. Ending'
  <2>1. netPc = [t \in Session |-> netPc[t]] /\ kill \in [Session -> BOOLEAN]
    BY <1>1 DEF TypeOK
  <2>2. netPc'[s] = "send" /\ \A t \in Session \ {s} : netPc'[t] = netPc[t]
    BY <2>1
  <2>3. mutex' = mutex /\ \A t \in Session : kill[t] => kill'[t]
    BY <2>1
  <2> QED
    BY <1>1, <2>2, <2>3, EndingKept
<1>9. Connecting'
  BY <1>1, SMTT(30) DEF TypeOK, Connecting
<1>10. Pairing'
  BY <1>1, SMTT(30) DEF TypeOK, Pairing
<1> QED
  BY <1>2, <1>3, <1>4, <1>5, <1>6, <1>7, <1>8, <1>9, <1>10 DEF IInv

\* Nothing but errno.
LEMMA RecvWouldBlockKeeps ==
    ASSUME IInv, NEW s \in Session, RecvWouldBlock(s)
    PROVE  IInv'
<1> USE DEF RecvWouldBlock, Goto, mainVars, managerVars, objectVars, killVars, netVars,
            sendVars, peerVars, Session, NoSession, Current
<1>1. TypeOK /\ Fresh /\ OneCurrent /\ KnownOrFreed /\ Killers /\ Started /\ Ending
      /\ Connecting /\ Pairing /\ NotConnectedWithoutSession
  BY DEF IInv
<1>2. OneCurrent' /\ KnownOrFreed' /\ NotConnectedWithoutSession'
  BY <1>1, MainUnchanged, StateUnchanged
<1>3. TypeOK'
  BY <1>1 DEF TypeOK
<1>4. Fresh'
  BY <1>1 DEF TypeOK, Fresh
<1>5. Killers'
  BY <1>1, SMTT(30) DEF TypeOK, Killers
<1>6. Started'
  BY <1>1, SMTT(30) DEF TypeOK, Started
<1>7. Ending'
  <2>1. netPc = [t \in Session |-> netPc[t]] /\ kill \in [Session -> BOOLEAN]
    BY <1>1 DEF TypeOK
  <2>2. netPc'[s] = "send" /\ \A t \in Session \ {s} : netPc'[t] = netPc[t]
    BY <2>1
  <2>3. mutex' = mutex /\ \A t \in Session : kill[t] => kill'[t]
    BY <2>1
  <2> QED
    BY <1>1, <2>2, <2>3, EndingKept
<1>8. Connecting'
  BY <1>1, SMTT(30) DEF TypeOK, Connecting
<1>9. Pairing'
  BY <1>1, SMTT(30) DEF TypeOK, Pairing
<1> QED
  BY <1>2, <1>3, <1>4, <1>5, <1>6, <1>7, <1>8, <1>9 DEF IInv

\* Nothing.
LEMMA RecvEndUnnoticedKeeps ==
    ASSUME IInv, NEW s \in Session, RecvEndUnnoticed(s)
    PROVE  IInv'
<1> USE DEF RecvEndUnnoticed, Goto, mainVars, managerVars, objectVars, killVars, netVars,
            sendVars, peerVars, Session, NoSession, Current
<1>1. TypeOK /\ Fresh /\ OneCurrent /\ KnownOrFreed /\ Killers /\ Started /\ Ending
      /\ Connecting /\ Pairing /\ NotConnectedWithoutSession
  BY DEF IInv
<1>2. OneCurrent' /\ KnownOrFreed' /\ NotConnectedWithoutSession'
  BY <1>1, MainUnchanged, StateUnchanged
<1>3. TypeOK'
  BY <1>1 DEF TypeOK
<1>4. Fresh'
  BY <1>1 DEF TypeOK, Fresh
<1>5. Killers'
  BY <1>1, SMTT(30) DEF TypeOK, Killers
<1>6. Started'
  BY <1>1, SMTT(30) DEF TypeOK, Started
<1>7. Ending'
  <2>1. netPc = [t \in Session |-> netPc[t]] /\ kill \in [Session -> BOOLEAN]
    BY <1>1 DEF TypeOK
  <2>2. netPc'[s] = "send" /\ \A t \in Session \ {s} : netPc'[t] = netPc[t]
    BY <2>1
  <2>3. mutex' = mutex /\ \A t \in Session : kill[t] => kill'[t]
    BY <2>1
  <2> QED
    BY <1>1, <2>2, <2>3, EndingKept
<1>8. Connecting'
  BY <1>1, SMTT(30) DEF TypeOK, Connecting
<1>9. Pairing'
  BY <1>1, SMTT(30) DEF TypeOK, Pairing
<1> QED
  BY <1>2, <1>3, <1>4, <1>5, <1>6, <1>7, <1>8, <1>9 DEF IInv

\* The thread tells itself to end.
LEMMA RecvErrorKeeps ==
    ASSUME IInv, NEW s \in Session, RecvError(s)
    PROVE  IInv'
<1> USE DEF RecvError, KillSelf, Goto, mainVars, managerVars, objectVars, killVars, netVars,
            sendVars, peerVars, Session, NoSession, Current
<1>1. TypeOK /\ Fresh /\ OneCurrent /\ KnownOrFreed /\ Killers /\ Started /\ Ending
      /\ Connecting /\ Pairing /\ NotConnectedWithoutSession
  BY DEF IInv
<1>2. OneCurrent' /\ KnownOrFreed' /\ NotConnectedWithoutSession'
  BY <1>1, MainUnchanged, StateUnchanged
<1>3. TypeOK'
  BY <1>1 DEF TypeOK
<1>4. Fresh'
  BY <1>1 DEF TypeOK, Fresh
<1>5. Killers'
  BY <1>1, SMTT(30) DEF TypeOK, Killers
<1>6. Started'
  BY <1>1, SMTT(30) DEF TypeOK, Started
<1>7. Ending'
  <2>1. netPc = [t \in Session |-> netPc[t]] /\ kill \in [Session -> BOOLEAN]
    BY <1>1 DEF TypeOK
  <2>2. netPc'[s] = "send" /\ \A t \in Session \ {s} : netPc'[t] = netPc[t]
    BY <2>1
  <2>3. mutex' = mutex /\ \A t \in Session : kill[t] => kill'[t]
    BY <2>1
  <2> QED
    BY <1>1, <2>2, <2>3, EndingKept
<1>8. Connecting'
  BY <1>1, SMTT(30) DEF TypeOK, Connecting
<1>9. Pairing'
  BY <1>1, SMTT(30) DEF TypeOK, Pairing, Connecting, Killers, KnownOrFreed, OneCurrent, Fresh,
     Ending
<1> QED
  BY <1>2, <1>3, <1>4, <1>5, <1>6, <1>7, <1>8, <1>9 DEF IInv

\* A request more.
LEMMA AskHubKeeps ==
    ASSUME IInv, NEW s \in Session, AskHub(s)
    PROVE  IInv'
<1> USE DEF AskHub, QueueOpen, Goto, mainVars, managerVars, objectVars, killVars, netVars,
            sendVars, peerVars, Session, NoSession, Current
<1>1. TypeOK /\ Fresh /\ OneCurrent /\ KnownOrFreed /\ Killers /\ Started /\ Ending
      /\ Connecting /\ Pairing /\ NotConnectedWithoutSession
  BY DEF IInv
<1>2. OneCurrent' /\ KnownOrFreed' /\ NotConnectedWithoutSession'
  BY <1>1, MainUnchanged, StateUnchanged
<1>3. queue' \in [Session -> Nat]
  <2>1. queue \in [Session -> Nat]
    BY <1>1 DEF TypeOK
  <2>2. CASE QueueOpen(s)
    BY <2>1, <2>2
  <2>3. CASE ~(QueueOpen(s))
    BY <2>1, <2>3
  <2> QED
    BY <2>2, <2>3
<1>4. TypeOK'
  BY <1>1, <1>3 DEF TypeOK
<1>5. Fresh'
  BY <1>1, SMTT(30) DEF TypeOK, Fresh
<1>6. Killers'
  <2>1. \A t \in Session : netPc[t] = "ended" => netPc'[t] = "ended"
    BY <1>1 DEF TypeOK
  <2>2. UNCHANGED <<kill, killer, freed, victim, mainPc>>
    OBVIOUS
  <2> QED
    BY <1>1, <2>1, <2>2, KillersKept
<1>7. Started'
  BY <1>1, SMTT(30) DEF TypeOK, Started
<1>8. Ending'
  BY <1>1, SMTT(30) DEF TypeOK, Ending
<1>9. Connecting'
  BY <1>1, SMTT(30) DEF TypeOK, Connecting
<1>10. Pairing'
  BY <1>1, SMTT(30) DEF TypeOK, Pairing
<1> QED
  BY <1>2, <1>3, <1>4, <1>5, <1>6, <1>7, <1>8, <1>9, <1>10 DEF IInv

\* Only the current session is paired.
LEMMA PairKeeps ==
    ASSUME IInv, NEW s \in Session, Pair(s)
    PROVE  IInv'
<1> USE DEF Pair, Goto, mainVars, managerVars, objectVars, killVars, netVars, sendVars,
            peerVars, Session, NoSession, Current
<1>1. TypeOK /\ Fresh /\ OneCurrent /\ KnownOrFreed /\ Killers /\ Started /\ Ending
      /\ Connecting /\ Pairing /\ NotConnectedWithoutSession
  BY DEF IInv
<1>2. OneCurrent' /\ KnownOrFreed'
  BY <1>1, MainUnchanged
<1>3. TypeOK'
  BY <1>1 DEF TypeOK
<1>4. Fresh'
  BY <1>1 DEF TypeOK, Fresh
<1>5. Killers'
  BY <1>1, SMTT(30) DEF TypeOK, Killers
<1>6. Started'
  BY <1>1, SMTT(30) DEF TypeOK, Started
<1>7. Ending'
  BY <1>1, SMTT(30) DEF TypeOK, Ending
<1>8. Connecting'
  BY <1>1, SMTT(30) DEF TypeOK, Connecting, Started, Ending, Pairing, Killers, KnownOrFreed,
     OneCurrent,
              Fresh
<1>9. Pairing'
  BY <1>1, SMTT(30) DEF TypeOK, Pairing, Connecting, Killers, KnownOrFreed, OneCurrent, Fresh,
     Ending
<1>10. NotConnectedWithoutSession'
  BY <1>1 DEF TypeOK, NotConnectedWithoutSession, OneCurrent, Killers, KnownOrFreed, Fresh,
              Connecting, Pairing
<1> QED
  BY <1>2, <1>3, <1>4, <1>5, <1>6, <1>7, <1>8, <1>9, <1>10 DEF IInv

\* The queue is empty.
LEMMA SendQueueKeeps ==
    ASSUME IInv, NEW s \in Session, SendQueue(s)
    PROVE  IInv'
<1> USE DEF SendQueue, Goto, mainVars, managerVars, objectVars, killVars, netVars, sendVars,
            peerVars, Session, NoSession, Current
<1>1. TypeOK /\ Fresh /\ OneCurrent /\ KnownOrFreed /\ Killers /\ Started /\ Ending
      /\ Connecting /\ Pairing /\ NotConnectedWithoutSession
  BY DEF IInv
<1>2. OneCurrent' /\ KnownOrFreed' /\ NotConnectedWithoutSession'
  BY <1>1, MainUnchanged, StateUnchanged
<1>3. TypeOK'
  BY <1>1, SMTT(30) DEF TypeOK
<1>4. Fresh'
  BY <1>1 DEF TypeOK, Fresh
<1>5. Killers'
  BY <1>1, SMTT(30) DEF TypeOK, Killers
<1>6. Started'
  BY <1>1, SMTT(30) DEF TypeOK, Started
<1>7. Ending'
  BY <1>1, SMTT(30) DEF TypeOK, Ending
<1>8. Connecting'
  BY <1>1, SMTT(30) DEF TypeOK, Connecting
<1>9. Pairing'
  BY <1>1, SMTT(30) DEF TypeOK, Pairing
<1> QED
  BY <1>2, <1>3, <1>4, <1>5, <1>6, <1>7, <1>8, <1>9 DEF IInv

\* The thread waits for itself, told to end by itself.
LEMMA JoinSelfKeeps ==
    ASSUME IInv, NEW s \in Session, JoinSelf(s)
    PROVE  IInv'
<1> USE DEF JoinSelf, KillSelf, SendError, Goto, mainVars, managerVars, objectVars, killVars,
            netVars, sendVars, peerVars, Session, NoSession, Current
<1>1. TypeOK /\ Fresh /\ OneCurrent /\ KnownOrFreed /\ Killers /\ Started /\ Ending
      /\ Connecting /\ Pairing /\ NotConnectedWithoutSession
  BY DEF IInv
<1>2. OneCurrent' /\ KnownOrFreed' /\ NotConnectedWithoutSession'
  BY <1>1, MainUnchanged, StateUnchanged
<1>3. queue' \in [Session -> Nat]
  BY <1>1, SMTT(30) DEF TypeOK
<1>4. TypeOK'
  BY <1>1, <1>3 DEF TypeOK
<1>5. Fresh'
  BY <1>1 DEF TypeOK, Fresh
<1>6. Killers'
  BY <1>1, SMTT(30) DEF TypeOK, Killers
<1>7. Started'
  BY <1>1, SMTT(30) DEF TypeOK, Started
<1>8. Ending'
  BY <1>1, SMTT(30) DEF TypeOK, Ending
<1>9. Connecting'
  BY <1>1, SMTT(30) DEF TypeOK, Connecting
<1>10. Pairing'
  BY <1>1, SMTT(30) DEF TypeOK, Pairing
<1> QED
  BY <1>2, <1>3, <1>4, <1>5, <1>6, <1>7, <1>8, <1>9, <1>10 DEF IInv

\* The thread was told to end before.
LEMMA KeepMutexKeeps ==
    ASSUME IInv, NEW s \in Session, KeepMutex(s)
    PROVE  IInv'
<1> USE DEF KeepMutex, SendError, Goto, mainVars, managerVars, objectVars, killVars, netVars,
            sendVars, peerVars, Session, NoSession, Current
<1>1. TypeOK /\ Fresh /\ OneCurrent /\ KnownOrFreed /\ Killers /\ Started /\ Ending
      /\ Connecting /\ Pairing /\ NotConnectedWithoutSession
  BY DEF IInv
<1>2. OneCurrent' /\ KnownOrFreed' /\ NotConnectedWithoutSession'
  BY <1>1, MainUnchanged, StateUnchanged
<1>3. queue' \in [Session -> Nat]
  BY <1>1, SMTT(30) DEF TypeOK
<1>4. TypeOK'
  BY <1>1, <1>3 DEF TypeOK
<1>5. Fresh'
  BY <1>1 DEF TypeOK, Fresh
<1>6. Killers'
  BY <1>1, SMTT(30) DEF TypeOK, Killers
<1>7. Started'
  BY <1>1, SMTT(30) DEF TypeOK, Started
<1>8. Ending'
  BY <1>1, SMTT(30) DEF TypeOK, Ending
<1>9. Connecting'
  BY <1>1, SMTT(30) DEF TypeOK, Connecting
<1>10. Pairing'
  BY <1>1, SMTT(30) DEF TypeOK, Pairing
<1> QED
  BY <1>2, <1>3, <1>4, <1>5, <1>6, <1>7, <1>8, <1>9, <1>10 DEF IInv

\* The thread was told to end.
LEMMA LeaveKeeps ==
    ASSUME IInv, NEW s \in Session, Leave(s)
    PROVE  IInv'
<1> USE DEF Leave, Goto, mainVars, managerVars, objectVars, killVars, netVars, sendVars,
            peerVars, Session, NoSession, Current
<1>1. TypeOK /\ Fresh /\ OneCurrent /\ KnownOrFreed /\ Killers /\ Started /\ Ending
      /\ Connecting /\ Pairing /\ NotConnectedWithoutSession
  BY DEF IInv
<1>2. OneCurrent' /\ KnownOrFreed' /\ NotConnectedWithoutSession'
  BY <1>1, MainUnchanged, StateUnchanged
<1>3. TypeOK'
  BY <1>1 DEF TypeOK
<1>4. Fresh'
  BY <1>1 DEF TypeOK, Fresh
<1>5. Killers'
  BY <1>1, SMTT(30) DEF TypeOK, Killers
<1>6. Started'
  BY <1>1, SMTT(30) DEF TypeOK, Started
<1>7. Ending'
  BY <1>1, SMTT(30) DEF TypeOK, Ending
<1>8. Connecting'
  BY <1>1, SMTT(30) DEF TypeOK, Connecting
<1>9. Pairing'
  BY <1>1, SMTT(30) DEF TypeOK, Pairing
<1> QED
  BY <1>2, <1>3, <1>4, <1>5, <1>6, <1>7, <1>8, <1>9 DEF IInv

\* The mutex is deleted by a thread that was told to end.
LEMMA LoopEndedKeeps ==
    ASSUME IInv, NEW s \in Session, LoopEnded(s)
    PROVE  IInv'
<1> USE DEF LoopEnded, Goto, mainVars, managerVars, objectVars, killVars, netVars, sendVars,
            peerVars, Session, NoSession, Current
<1>1. TypeOK /\ Fresh /\ OneCurrent /\ KnownOrFreed /\ Killers /\ Started /\ Ending
      /\ Connecting /\ Pairing /\ NotConnectedWithoutSession
  BY DEF IInv
<1>2. OneCurrent' /\ KnownOrFreed' /\ NotConnectedWithoutSession'
  BY <1>1, MainUnchanged, StateUnchanged
<1>3. TypeOK'
  BY <1>1 DEF TypeOK
<1>4. Fresh'
  BY <1>1 DEF TypeOK, Fresh
<1>5. Killers'
  BY <1>1, SMTT(30) DEF TypeOK, Killers
<1>6. Started'
  BY <1>1, SMTT(30) DEF TypeOK, Started
<1>7. Ending'
  BY <1>1, SMTT(30) DEF TypeOK, Ending
<1>8. Connecting'
  BY <1>1, SMTT(30) DEF TypeOK, Connecting
<1>9. Pairing'
  BY <1>1, SMTT(30) DEF TypeOK, Pairing
<1> QED
  BY <1>2, <1>3, <1>4, <1>5, <1>6, <1>7, <1>8, <1>9 DEF IInv

\* Ended: nothing of the session is used any more.
LEMMA CloseConnectKeeps ==
    ASSUME IInv, NEW s \in Session, CloseConnect(s)
    PROVE  IInv'
<1> USE DEF CloseConnect, Goto, mainVars, managerVars, objectVars, killVars, netVars, sendVars,
            peerVars, Session, NoSession, Current
<1>1. TypeOK /\ Fresh /\ OneCurrent /\ KnownOrFreed /\ Killers /\ Started /\ Ending
      /\ Connecting /\ Pairing /\ NotConnectedWithoutSession
  BY DEF IInv
<1>2. OneCurrent' /\ KnownOrFreed' /\ NotConnectedWithoutSession'
  BY <1>1, MainUnchanged, StateUnchanged
<1>3. TypeOK'
  BY <1>1 DEF TypeOK
<1>4. Fresh'
  BY <1>1 DEF TypeOK, Fresh
<1>5. Killers'
  BY <1>1, SMTT(30) DEF TypeOK, Killers
<1>6. Started'
  BY <1>1, SMTT(30) DEF TypeOK, Started
<1>7. Ending'
  BY <1>1, SMTT(30) DEF TypeOK, Ending
<1>8. Connecting'
  BY <1>1, SMTT(30) DEF TypeOK, Connecting
<1>9. Pairing'
  BY <1>1, SMTT(30) DEF TypeOK, Pairing
<1> QED
  BY <1>2, <1>3, <1>4, <1>5, <1>6, <1>7, <1>8, <1>9 DEF IInv

\* Before the first session nobody is told anything.
LEMMA InitIInv == Init => IInv
<1> SUFFICES ASSUME Init PROVE IInv
  OBVIOUS
<1> USE DEF Init, Each, Session, NoSession, Current
<1>1. TypeOK
  BY DEF TypeOK
<1>2. Fresh /\ OneCurrent /\ KnownOrFreed /\ NotConnectedWithoutSession
  BY DEF Fresh, OneCurrent, KnownOrFreed, NotConnectedWithoutSession
<1>3. Killers /\ Started /\ Ending /\ Connecting /\ Pairing
  BY DEF Killers, Started, Ending, Connecting, Pairing
<1> QED
  BY <1>1, <1>2, <1>3 DEF IInv

\* No step breaks it.
LEMMA NextKeeps ==
    ASSUME IInv, [Next]_vars
    PROVE  IInv'
<1>1. CASE Buttons
  BY <1>1, ConnectToServerKeeps, TestConnectionKeeps, DisconnectToServerKeeps DEF Buttons
<1>2. CASE TestFinished
  BY <1>2, TestFinishedKeeps
<1>3. CASE Authentication
  BY <1>3, AuthenticationKeeps
<1>4. CASE MainContinues
  BY <1>4, ReleaseSessionKeeps, KillKeeps, JoinKeeps, FreeKeeps, ForgetKeeps, QueueMessageKeeps
     DEF MainContinues
<1>5. ASSUME NEW s \in Session, NetContinues(s) PROVE IInv'
  BY <1>5, StartKeeps, ConnectKeeps, ConnectFailsKeeps, PublishResultKeeps, RoundKeeps,
     RecvAcceptedKeeps, RecvHubItemsKeeps, RecvUnreadKeeps, RecvWouldBlockKeeps,
     RecvEndUnnoticedKeeps, RecvErrorKeeps, AskHubKeeps, PairKeeps, SendQueueKeeps,
     JoinSelfKeeps, KeepMutexKeeps, LeaveKeeps, LoopEndedKeeps, CloseConnectKeeps
     DEF NetContinues
<1>6. ASSUME NEW s \in Session, PeerGone(s) PROVE IInv'
  BY <1>6, PeerGoneKeeps
<1>7. CASE UNCHANGED vars
  BY <1>7 DEF vars, IInv, TypeOK, Fresh, OneCurrent, KnownOrFreed, Killers, Started, Ending,
     Connecting, Pairing, NotConnectedWithoutSession, Current
<1> QED
  BY <1>1, <1>2, <1>3, <1>4, <1>5, <1>6, <1>7 DEF Next

\* A thread that is freed has not been told by the main thread.
LEMMA IInvFreed == IInv => FreedOnlyAfterJoin
<1> SUFFICES ASSUME IInv, NEW s \in Session,
                    \/ freed[s] /\ Alive(s)
                    \/ mainPc = "lock" /\ session = s /\ mutex[s] = "deleted"
             PROVE  killer[s] = "net"
  BY DEF FreedOnlyAfterJoin
<1>1. CASE freed[s] /\ Alive(s)
  BY <1>1 DEF IInv, Killers, Alive
<1>2. CASE mainPc = "lock" /\ session = s /\ mutex[s] = "deleted"
  <2>1. kill[s] /\ killer[s] # "none"
    BY <1>2 DEF IInv, Ending, Killers
  <2>2. ~freed[s]
    BY <1>2 DEF IInv, TypeOK, KnownOrFreed, Fresh, Current, Session, NoSession
  <2>3. killer[s] # "main"
    BY <1>2, <2>2 DEF IInv, Killers
  <2> QED
    BY <2>1, <2>3 DEF IInv, TypeOK
<1> QED
  BY <1>1, <1>2

\* Only the session the manager knows has a thread that goes on.
LEMMA IInvOneWriter == IInv => OneWriter
<1>1. ASSUME IInv, NEW s \in Session, Alive(s), ~kill[s]
      PROVE  s \in Current /\ ~freed[s]
  <2>1. killer[s] = "none" /\ netPc[s] # "ended"
    BY <1>1 DEF IInv, Killers, Alive
  <2>2. ~freed[s]
    BY <2>1, <1>1 DEF IInv, Killers
  <2>3. s \in 1..created
    BY <1>1 DEF IInv, Fresh, Alive, TypeOK, Session
  <2> QED
    BY <1>1, <2>2, <2>3 DEF IInv, KnownOrFreed
<1>2. ASSUME IInv, NEW s \in Current, NEW t \in Current PROVE s = t
  BY <1>2 DEF IInv, OneCurrent, Current
<1> QED
  BY <1>1, <1>2 DEF OneWriter, Current

\* The manager knows at most one session, deletes none that has not started, and
\* tells no thread to end that it does not wait for, in every reachable state.
THEOREM LifecycleInvariance == Spec => []IInv
<1>1. IInv /\ [Next]_vars => IInv'
  BY NextKeeps
<1> QED
  BY InitIInv, <1>1, PTL DEF Spec

\* Memory is taken from a thread only when that thread has ended itself.
THEOREM FreedAfterJoin == Spec => []FreedOnlyAfterJoin
BY LifecycleInvariance, IInvFreed, PTL

\* At most one thread that nobody told to end, and it is the manager's session's.
THEOREM SingleWriter == Spec => []OneWriter
BY LifecycleInvariance, IInvOneWriter, PTL

\* Without a session the manager is not connected.
THEOREM ConnectButtonWorks == Spec => []NotConnectedWithoutSession
<1>1. IInv => NotConnectedWithoutSession
  BY DEF IInv
<1> QED
  BY LifecycleInvariance, <1>1, PTL

\* The types of the variables of the manager, the sessions and their connections.
THEOREM LifecycleTypes == Spec => []TypeOK
<1>1. IInv => TypeOK
  BY DEF IInv
<1> QED
  BY LifecycleInvariance, <1>1, PTL

\* closeConnect looks at the state of the session to see whether it has a socket to
\* close: a connection that is up, closed or reset is that of a session that has not
\* forgotten it.
Sockets ==
    \A s \in Session :
        /\ peer[s] \in {"up", "closed", "reset"} => connectState[s] = "CONNECTED"
        /\ netPc[s] = "ended" => connectState[s] = "IDLE"

\* Only the steps that connect or close touch what Sockets is about.
LEMMA SocketsKeep ==
    ASSUME TypeOK, Sockets, [Next]_vars
    PROVE  Sockets'
<1> USE DEF mainVars, managerVars, objectVars, killVars, netVars, sendVars, peerVars
<1>1. CASE Buttons \/ TestFinished \/ Authentication \/ MainContinues \/ UNCHANGED vars
  <2>1. UNCHANGED <<peer, connectState>>
    BY <1>1 DEF Buttons, ConnectToServer, TestConnection, DisconnectToServer, TestFinished,
       Authentication, MainContinues, ReleaseSession, Kill, Join, Free, Forget, QueueMessage, vars
  <2>2. netPc' = netPc \/ \E pc \in {"startMain", "startTest"} :
                             netPc' = [netPc EXCEPT ![created + 1] = pc]
    BY <1>1 DEF Buttons, ConnectToServer, TestConnection, DisconnectToServer, TestFinished, Create,
       Authentication, MainContinues, ReleaseSession, Kill, Join, Free, Forget, QueueMessage, vars
  <2>3. \A t \in Session : netPc'[t] = "ended" => netPc[t] = "ended"
    BY <2>2 DEF TypeOK
  <2> QED
    BY <2>1, <2>3 DEF Sockets
<1>2. ASSUME NEW s \in Session, Connect(s) \/ ConnectFails(s) PROVE Sockets'
  <2>1. /\ netPc' = netPc /\ netPc[s] \in {"loop", "testLoop"}
        /\ \/ /\ connectState' = [connectState EXCEPT ![s] = "CONNECTED"]
              /\ peer' = [peer EXCEPT ![s] = "up"]
           \/ /\ connectState' = [connectState EXCEPT ![s] = "FAIL"]
              /\ peer' = [peer EXCEPT ![s] = "refused"]
    BY <1>2 DEF Connect, ConnectFails, ConnectFirst
  <2> QED
    BY <2>1 DEF TypeOK, Sockets
<1>3. ASSUME NEW s \in Session, CloseConnect(s) PROVE Sockets'
  <2>1. /\ peer' = [peer EXCEPT ![s] = IF connectState[s] = "CONNECTED" THEN "none" ELSE @]
        /\ connectState' = [connectState EXCEPT ![s] = "IDLE"]
        /\ netPc' = [netPc EXCEPT ![s] = "ended"]
    BY <1>3 DEF CloseConnect, Goto
  <2> QED
    BY <2>1 DEF TypeOK, Sockets
<1>4. ASSUME NEW s \in Session, PeerGone(s) PROVE Sockets'
  <2>1. UNCHANGED <<connectState, netPc>> /\ peer[s] = "up"
        /\ \E how \in {"closed", "reset"} : peer' = [peer EXCEPT ![s] = how]
    BY <1>4 DEF PeerGone
  <2> QED
    BY <2>1 DEF TypeOK, Sockets
<1>5. ASSUME NEW s \in Session, NetContinues(s), ~Connect(s), ~ConnectFails(s), ~CloseConnect(s)
      PROVE  Sockets'
  <2>1. connectState' = connectState
    BY <1>5 DEF NetContinues, Start, PublishResult, Round, RecvAccepted, RecvHubItems, RecvUnread,
       RecvWouldBlock, RecvEndUnnoticed, RecvError, AskHub, Pair, SendQueue, JoinSelf, KeepMutex,
       SendError, Leave, LoopEnded
  <2>2. peer' = peer \/ peer' = [peer EXCEPT ![s] = IF @ = "closed" /\ queue[s] > 0 THEN "reset" ELSE @]
    BY <1>5 DEF NetContinues, Start, PublishResult, Round, RecvAccepted, RecvHubItems, RecvUnread,
       RecvWouldBlock, RecvEndUnnoticed, RecvError, AskHub, Pair, SendQueue, JoinSelf, KeepMutex,
       SendError, Leave, LoopEnded
  <2>3. netPc' = netPc \/ \E pc \in {"loop", "testLoop", "recv", "askHub", "pair", "send", "selfJoin",
                                     "tail", "close"} : netPc' = [netPc EXCEPT ![s] = pc]
    BY <1>5 DEF NetContinues, Start, PublishResult, Round, RecvAccepted, RecvHubItems, RecvUnread,
       RecvWouldBlock, RecvEndUnnoticed, RecvError, AskHub, Pair, SendQueue, JoinSelf, KeepMutex,
       Leave, LoopEnded, Goto
  <2>4. \A t \in Session : netPc'[t] = "ended" => netPc[t] = "ended"
    BY <2>3 DEF TypeOK
  <2>5. \A t \in Session : peer'[t] \in {"up", "closed", "reset"} => peer[t] \in {"up", "closed", "reset"}
    BY <2>2 DEF TypeOK
  <2> QED
    BY <2>1, <2>4, <2>5 DEF Sockets
<1> QED
  BY <1>1, <1>2, <1>3, <1>4, <1>5 DEF Next

LEMMA InitSockets == Init => Sockets
BY DEF Init, Each, Sockets

LEMMA SocketsClosed == TypeOK /\ Sockets => SocketClosed
BY DEF TypeOK, Sockets, SocketClosed

\* No thread ends with the connection it had still open.
THEOREM SocketsAreClosed == Spec => []SocketClosed
<1>1. TypeOK /\ Sockets /\ [Next]_vars => Sockets'
  BY SocketsKeep
<1> QED
  BY LifecycleTypes, InitSockets, <1>1, SocketsClosed, PTL DEF Spec

-----------------------------------------------------------------------------
(* The send error that hangs a thread.                                     *)

\* Where a thread that has left the mutex locked can be.
Hanging(s) ==
    Stuck(s) => netPc[s] \in {"selfJoin", "loop", "recv", "askHub", "pair", "send", "tail"}

\* The mutex is unlocked by nobody, and the way to the end of threadMain needs it.
LEMMA HangingStays ==
    ASSUME IInv, NEW s \in Session, Hanging(s), [Next]_vars
    PROVE  Hanging(s)' /\ (Stuck(s) => Stuck(s)')
<1> USE DEF mainVars, managerVars, objectVars, killVars, netVars, sendVars, peerVars
<1>0. TypeOK /\ Fresh
  BY DEF IInv
<1>1. CASE Buttons \/ TestFinished \/ Authentication \/ MainContinues \/ UNCHANGED vars
  <2>1. mutex' = mutex
    BY <1>1 DEF Buttons, ConnectToServer, TestConnection, DisconnectToServer, TestFinished, Create,
       Authentication, MainContinues, ReleaseSession, Kill, Join, Free, Forget, QueueMessage, vars
  <2>2. \A u \in Session : u <= created => netPc'[u] = netPc[u]
    <3>1. netPc' = netPc \/ \E pc \in {"startMain", "startTest"} :
                              netPc' = [netPc EXCEPT ![created + 1] = pc]
      BY <1>1 DEF Buttons, ConnectToServer, TestConnection, DisconnectToServer, TestFinished, Create,
         Authentication, MainContinues, ReleaseSession, Kill, Join, Free, Forget, QueueMessage, vars
    <3>2. netPc \in [Session -> {netPc[u] : u \in Session}] /\ created \in Nat /\ Session \subseteq Nat
      BY <1>0 DEF TypeOK, Session
    <3>3. \A u \in Session : u <= created => u # created + 1
      BY <3>2
    <3> QED
      BY <3>1, <3>2, <3>3
  <2>3. Stuck(s) => s <= created
    BY <1>0 DEF Fresh, Stuck, TypeOK, Session
  <2> QED
    BY <2>1, <2>2, <2>3 DEF Hanging, Stuck
<1>2. ASSUME NEW t \in Session, SendError(t), JoinSelf(t) \/ KeepMutex(t)
      PROVE  Hanging(s)' /\ (Stuck(s) => Stuck(s)')
  <2>1. /\ mutex' = [mutex EXCEPT ![t] = "net"]
        /\ \E pc \in {"selfJoin", "loop"} : netPc' = [netPc EXCEPT ![t] = pc]
    BY <1>2 DEF SendError, JoinSelf, KeepMutex, Goto
  <2> QED
    BY <1>0, <2>1 DEF TypeOK, Hanging, Stuck
<1>3. ASSUME NEW t \in Session, LoopEnded(t)
      PROVE  Hanging(s)' /\ (Stuck(s) => Stuck(s)')
  <2>1. /\ mutex[t] = "free" /\ mutex' = [mutex EXCEPT ![t] = "deleted"]
        /\ netPc' = [netPc EXCEPT ![t] = "close"]
    BY <1>3 DEF LoopEnded, Goto
  <2> QED
    BY <1>0, <2>1 DEF TypeOK, Hanging, Stuck
<1>4. ASSUME NEW t \in Session, PeerGone(t)
      PROVE  Hanging(s)' /\ (Stuck(s) => Stuck(s)')
  BY <1>4 DEF PeerGone, Hanging, Stuck
<1>5. ASSUME NEW t \in Session, NetContinues(t), ~JoinSelf(t), ~KeepMutex(t), ~LoopEnded(t)
      PROVE  Hanging(s)' /\ (Stuck(s) => Stuck(s)')
  <2>1. mutex' = mutex
    BY <1>5 DEF NetContinues, Start, Connect, ConnectFails, ConnectFirst, PublishResult, Round, RecvAccepted,
       RecvHubItems, RecvUnread, RecvWouldBlock, RecvEndUnnoticed, RecvError, AskHub, Pair, SendQueue, Leave,
       CloseConnect
  <2>2. \/ netPc' = netPc
        \/ /\ netPc[t] \in {"loop", "recv", "askHub", "pair", "send"}
           /\ \E pc \in {"loop", "recv", "askHub", "pair", "send", "tail"} :
                netPc' = [netPc EXCEPT ![t] = pc]
        \/ /\ netPc[t] \in {"startMain", "startTest", "testLoop", "close"}
           /\ \E pc \in {"loop", "testLoop", "close", "ended"} : netPc' = [netPc EXCEPT ![t] = pc]
    BY <1>5 DEF NetContinues, Start, Connect, ConnectFails, ConnectFirst, PublishResult, Round, RecvAccepted,
       RecvHubItems, RecvUnread, RecvWouldBlock, RecvEndUnnoticed, RecvError, AskHub, Pair, SendQueue, Leave,
       CloseConnect, Goto
  <2> QED
    BY <1>0, <2>1, <2>2 DEF TypeOK, Hanging, Stuck
<1> QED
  BY <1>1, <1>2, <1>3, <1>4, <1>5 DEF Next, JoinSelf, KeepMutex

\* A send error hangs its thread for ever, told to end or not: nothing unlocks the
\* queue's mutex, and no thread that holds it ends.
THEOREM HangsForEver ==
    ASSUME NEW s \in Session
    PROVE  Spec => [](Stuck(s) => [](Stuck(s) /\ Alive(s)))
<1>1. Init => Hanging(s)
  BY DEF Init, Each, Hanging, Stuck
<1>2. IInv /\ Hanging(s) /\ [Next]_vars => Hanging(s)' /\ (Stuck(s) => Stuck(s)')
  BY HangingStays
<1>3. Hanging(s) /\ Stuck(s) => Alive(s)
  BY DEF Hanging, Alive
<1> QED
  BY LifecycleInvariance, <1>1, <1>2, <1>3, PTL DEF Spec

=============================================================================
