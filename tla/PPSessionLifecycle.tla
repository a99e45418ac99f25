-------------------------- MODULE PPSessionLifecycle --------------------------
(***************************************************************************)
(* The life of the 3DS client's sessions, one after the other: created by  *)
(* ConnectToServer or TestConnection, run by a thread of their own         *)
(* (threadMain, threadTest), ended by DisconnectToServer or by an error of *)
(* the socket (PPSession.cpp, PPSessionManager.cpp).                       *)
(*                                                                         *)
(* The pairing that PPSession models byte by byte is here two answers; what *)
(* is modelled is who ends a thread, who waits for it, who holds the        *)
(* queue's mutex, and what is freed when.                                   *)
(***************************************************************************)
EXTENDS Integers

CONSTANT MaxSessions   \* bound: sessions created in a behaviour

ASSUME MaxSessionsAssumption == MaxSessions \in Nat

Session == 1..MaxSessions
NoSession == 0

VARIABLES
    \* the main thread and the manager
    created,       \* how many sessions have been created
    session,       \* PPSessionManager::_session
    testSession,   \* PPSessionManager::_testSession
    sessionState,  \* _sessionState, without its SS_ prefix
    busyState,     \* _busyState
    mainPc,        \* what the main thread is doing
    victim,        \* the session it is deleting
    \* each session
    running,       \* _running
    kill,          \* _kill
    killer,        \* history: the thread that set _kill
    connectState,  \* _connect_state
    testResult,    \* _testConnectionResult
    queue,         \* the number of messages in _sendingMessages
    mutex,         \* _queueMessageMutex: free, held by a thread, or deleted
    netPc,         \* where its thread is
    phase,         \* how far the pairing is
    errno,         \* the thread's errno: is it EWOULDBLOCK?
    freed,         \* has its destructor run?
    \* each session's connection
    peer,          \* up, closed by the server, or reset; none without a socket,
                   \* refused with the socket of a connection that failed
    asked          \* the requests the server has got and may yet answer

managerVars == <<sessionState, busyState>>
objectVars  == <<created, session, testSession, victim>>
mainVars    == <<objectVars, managerVars, mainPc>>
killVars    == <<running, kill, killer>>
netVars     == <<connectState, testResult, phase, errno>>
sendVars    == <<queue, mutex>>
peerVars    == <<peer, asked>>
vars == <<created, session, testSession, sessionState, busyState, mainPc, victim, running,
          kill, killer, connectState, testResult, queue, mutex, netPc, phase, errno, freed,
          peer, asked>>

Each(x) == [s \in Session |-> x]

Init ==
    /\ created = 0
    /\ session = NoSession
    /\ testSession = NoSession
    /\ sessionState = "NOT_CONNECTED"
    /\ busyState = "NONE"
    /\ mainPc = "idle"
    /\ victim = NoSession
    /\ running = Each(FALSE)
    /\ kill = Each(FALSE)
    /\ killer = Each("none")
    /\ connectState = Each("IDLE")
    /\ testResult = Each(0)
    /\ queue = Each(0)
    /\ mutex = Each("free")
    /\ netPc = Each("none")
    /\ phase = Each("new")
    /\ errno = Each("other")
    /\ freed = Each(FALSE)
    /\ peer = Each("none")
    /\ asked = Each(0)

-----------------------------------------------------------------------------
(* The network.                                                            *)

\* The server closes the connection, or it is reset or the wifi is gone.
PeerGone(s) ==
    /\ peer[s] = "up"
    /\ \E how \in {"closed", "reset"} : peer' = [peer EXCEPT ![s] = how]
    /\ UNCHANGED <<mainVars, killVars, netVars, sendVars, netPc, freed, asked>>

-----------------------------------------------------------------------------
(* The main thread: buttons and dialogs.                                   *)

\* A new session and its thread, which starts at pc.
Create(pc) ==
    /\ created < MaxSessions
    /\ created' = created + 1
    /\ netPc' = [netPc EXCEPT ![created + 1] = pc]

\* The connect button, shown as long as nothing is connected.
ConnectToServer ==
    /\ mainPc = "idle"
    /\ sessionState = "NOT_CONNECTED"
    /\ session = NoSession
    /\ testSession = NoSession
    /\ Create("startMain")
    /\ session' = created + 1
    /\ sessionState' = "CONNECTING"
    /\ UNCHANGED <<testSession, victim, busyState, mainPc, killVars, netVars, sendVars, freed,
                   peerVars>>

\* The connection test of a new profile, on the same screen.
TestConnection ==
    /\ mainPc = "idle"
    /\ sessionState = "NOT_CONNECTED"
    /\ session = NoSession
    /\ testSession = NoSession
    /\ Create("startTest")
    /\ testSession' = created + 1
    /\ UNCHANGED <<session, victim, managerVars, mainPc, killVars, netVars, sendVars, freed,
                   peerVars>>

\* Polled until it has a result, TestConnection deletes its session.
TestFinished ==
    /\ mainPc = "idle"
    /\ testSession # NoSession
    /\ testResult[testSession] # 0
    /\ mainPc' = "release"
    /\ victim' = testSession
    /\ UNCHANGED <<created, session, testSession, managerVars, killVars, netVars, sendVars,
                   netPc, freed, peerVars>>

AuthenticationNeeded == busyState = "NONE" /\ sessionState = "CONNECTED"

\* AddMessageToQueue's look at the session, before it takes the mutex.
QueueOpen(s) == running[s] /\ connectState[s] = "CONNECTED" /\ ~kill[s]

\* Authentication, up to the mutex.
Authentication ==
    /\ mainPc = "idle"
    /\ session # NoSession
    /\ AuthenticationNeeded
    /\ busyState' = "AUTHENTICATION"
    /\ mainPc' = IF QueueOpen(session) THEN "lock" ELSE "idle"
    /\ UNCHANGED <<objectVars, sessionState, killVars, netVars, sendVars, netPc, freed, peerVars>>

\* The rest of AddMessageToQueue.  What locking a deleted mutex does is not
\* defined: here it goes through, and the push is lost with the queue.
QueueMessage ==
    /\ mainPc = "lock"
    /\ mutex[session] \in {"free", "deleted"}
    /\ queue' = IF mutex[session] = "free" THEN [queue EXCEPT ![session] = @ + 1] ELSE queue
    /\ mainPc' = "idle"
    /\ UNCHANGED <<objectVars, managerVars, killVars, netVars, mutex, netPc, freed, peerVars>>

\* The error dialog's button, or the paired screen's: DisconnectToServer
\* deletes the session.
DisconnectToServer ==
    /\ mainPc = "idle"
    /\ sessionState \in {"FAILED", "PAIRED"}
    /\ session # NoSession
    /\ mainPc' = "release"
    /\ victim' = session
    /\ UNCHANGED <<created, session, testSession, managerVars, killVars, netVars, sendVars, netPc,
                   freed, peerVars>>

\* MUTANT: a running thread is taken for one that has ended.
ReleaseSessionInverted ==
    /\ mainPc = "release"
    /\ mainPc' = IF ~running[victim] /\ ~kill[victim] THEN "kill" ELSE "free"
    /\ UNCHANGED <<objectVars, managerVars, killVars, netVars, sendVars, netPc, freed, peerVars>>

\* The steps of delete _session (or _testSession): ReleaseSession looks
\* whether the thread is still to be ended,
ReleaseSession ==
    /\ mainPc = "release"
    /\ mainPc' = IF running[victim] /\ ~kill[victim] THEN "kill" ELSE "free"
    /\ UNCHANGED <<objectVars, managerVars, killVars, netVars, sendVars, netPc, freed, peerVars>>

\* MUTANT: the thread is ended and not waited for.
KillWithoutJoin ==
    /\ mainPc = "kill"
    /\ kill' = [kill EXCEPT ![victim] = TRUE]
    /\ killer' = [killer EXCEPT ![victim] = IF @ = "none" THEN "main" ELSE @]
    /\ running' = [running EXCEPT ![victim] = FALSE]
    /\ mainPc' = "free"
    /\ UNCHANGED <<objectVars, managerVars, netVars, sendVars, netPc, freed, peerVars>>

\* MUTANT: the thread is waited for and not told to end.
JoinWithoutKill ==
    /\ mainPc = "kill"
    /\ running' = [running EXCEPT ![victim] = FALSE]
    /\ mainPc' = "join"
    /\ UNCHANGED <<objectVars, managerVars, kill, killer, netVars, sendVars, netPc, freed, peerVars>>

\* tells it to end,
Kill ==
    /\ mainPc = "kill"
    /\ kill' = [kill EXCEPT ![victim] = TRUE]
    /\ killer' = [killer EXCEPT ![victim] = IF @ = "none" THEN "main" ELSE @]
    /\ running' = [running EXCEPT ![victim] = FALSE]
    /\ mainPc' = "join"
    /\ UNCHANGED <<objectVars, managerVars, netVars, sendVars, netPc, freed, peerVars>>

\* and waits for it;
Join ==
    /\ mainPc = "join"
    /\ netPc[victim] = "ended"
    /\ mainPc' = "free"
    /\ UNCHANGED <<objectVars, managerVars, killVars, netVars, sendVars, netPc, freed, peerVars>>

\* the object is freed,
Free ==
    /\ mainPc = "free"
    /\ freed' = [freed EXCEPT ![victim] = TRUE]
    /\ mainPc' = "forget"
    /\ UNCHANGED <<objectVars, managerVars, killVars, netVars, sendVars, netPc, peerVars>>

\* MUTANT: the state is not reset.
ForgetSessionOnly ==
    /\ mainPc = "forget"
    /\ session' = IF victim = session THEN NoSession ELSE session
    /\ testSession' = IF victim = testSession THEN NoSession ELSE testSession
    /\ victim' = NoSession
    /\ mainPc' = "idle"
    /\ UNCHANGED <<created, managerVars, killVars, netVars, sendVars, netPc, freed, peerVars>>

\* and DisconnectToServer, or TestConnection, forgets it.  The busy state is
\* left as it is.
Forget ==
    /\ mainPc = "forget"
    /\ session' = IF victim = session THEN NoSession ELSE session
    /\ testSession' = IF victim = testSession THEN NoSession ELSE testSession
    /\ sessionState' = "NOT_CONNECTED"
    /\ victim' = NoSession
    /\ mainPc' = "idle"
    /\ UNCHANGED <<created, busyState, killVars, netVars, sendVars, netPc, freed, peerVars>>

MainContinues == ReleaseSession \/ Kill \/ Join \/ Free \/ Forget \/ QueueMessage

Buttons == ConnectToServer \/ TestConnection \/ DisconnectToServer

-----------------------------------------------------------------------------
(* The network thread of a session.                                        *)

Goto(s, pc) == netPc' = [netPc EXCEPT ![s] = pc]

\* threadMain and threadTest begin.
Start(s) ==
    /\ netPc[s] \in {"startMain", "startTest"}
    /\ running' = [running EXCEPT ![s] = TRUE]
    /\ Goto(s, IF netPc[s] = "startMain" THEN "loop" ELSE "testLoop")
    /\ UNCHANGED <<mainVars, kill, killer, netVars, sendVars, freed, peerVars>>

\* connectToServer, in the loop of either thread.
ConnectFirst(s) ==
    /\ netPc[s] \in {"loop", "testLoop"}
    /\ ~kill[s]
    /\ connectState[s] = "IDLE"
    /\ UNCHANGED <<objectVars, busyState, mainPc, killVars, testResult, phase, errno, sendVars,
                   netPc, freed, asked>>

Connect(s) ==
    /\ ConnectFirst(s)
    /\ connectState' = [connectState EXCEPT ![s] = "CONNECTED"]
    /\ sessionState' = "CONNECTED"
    /\ peer' = [peer EXCEPT ![s] = "up"]

\* The socket of a connection that fails stays open.
ConnectFails(s) ==
    /\ ConnectFirst(s)
    /\ connectState' = [connectState EXCEPT ![s] = "FAIL"]
    /\ sessionState' = "FAILED"
    /\ peer' = [peer EXCEPT ![s] = "refused"]

\* MUTANT: a failure is no result.
PublishSuccess(s) ==
    /\ netPc[s] = "testLoop"
    /\ ~kill[s]
    /\ connectState[s] = "CONNECTED"
    /\ testResult' = [testResult EXCEPT ![s] = 1]
    /\ UNCHANGED <<mainVars, killVars, connectState, phase, errno, sendVars, netPc, freed, peerVars>>

\* threadTest publishes the result, on every round.
PublishResult(s) ==
    /\ netPc[s] = "testLoop"
    /\ ~kill[s]
    /\ connectState[s] \in {"CONNECTED", "FAIL"}
    /\ testResult' = [testResult EXCEPT ![s] = IF connectState[s] = "CONNECTED" THEN 1 ELSE -1]
    /\ UNCHANGED <<mainVars, killVars, connectState, phase, errno, sendVars, netPc, freed, peerVars>>

\* threadMain receives, if it is connected; otherwise it only sleeps.
Round(s) ==
    /\ netPc[s] = "loop"
    /\ ~kill[s]
    /\ connectState[s] = "CONNECTED"
    /\ Goto(s, "recv")
    /\ UNCHANGED <<mainVars, killVars, netVars, sendVars, freed, peerVars>>

\* recvSocketData reads an answer: the authentication is accepted, and the
\* manager is not busy any more;
RecvAccepted(s) ==
    /\ netPc[s] = "recv"
    /\ peer[s] \in {"up", "closed"}
    /\ asked[s] > 0
    /\ phase[s] = "new"
    /\ asked' = [asked EXCEPT ![s] = @ - 1]
    /\ busyState' = "NONE"
    /\ phase' = [phase EXCEPT ![s] = "authenticated"]
    /\ Goto(s, "askHub")
    /\ UNCHANGED <<objectVars, sessionState, mainPc, killVars, connectState, testResult, errno,
                   sendVars, freed, peer>>

\* the hub items are there, and the manager is not busy any more.
RecvHubItems(s) ==
    /\ netPc[s] = "recv"
    /\ peer[s] \in {"up", "closed"}
    /\ asked[s] > 0
    /\ phase[s] = "authenticated"
    /\ asked' = [asked EXCEPT ![s] = @ - 1]
    /\ busyState' = "NONE"
    /\ phase' = [phase EXCEPT ![s] = "paired"]
    /\ Goto(s, "pair")
    /\ UNCHANGED <<objectVars, sessionState, mainPc, killVars, connectState, testResult, errno,
                   sendVars, freed, peer>>

\* MUTANT: more is read than was asked for.
RecvUnasked(s) ==
    /\ netPc[s] = "recv"
    /\ peer[s] \in {"up", "closed"}
    /\ asked' = [asked EXCEPT ![s] = @ - 1]
    /\ Goto(s, "send")
    /\ UNCHANGED <<mainVars, killVars, netVars, sendVars, freed, peer>>

\* A refusal, and an answer that the client does not expect (PPSession).
RecvUnread(s) ==
    /\ netPc[s] = "recv"
    /\ peer[s] \in {"up", "closed"}
    /\ asked[s] > 0
    /\ asked' = [asked EXCEPT ![s] = @ - 1]
    /\ Goto(s, "send")
    /\ UNCHANGED <<mainVars, killVars, netVars, sendVars, freed, peer>>

\* SendMsgRequestHubItems.
AskHub(s) ==
    /\ netPc[s] = "askHub"
    /\ busyState' = "HUB_ITEMS"
    /\ queue' = IF QueueOpen(s) THEN [queue EXCEPT ![s] = @ + 1] ELSE queue
    /\ Goto(s, "send")
    /\ UNCHANGED <<objectVars, sessionState, mainPc, killVars, netVars, mutex, freed, peerVars>>

Pair(s) ==
    /\ netPc[s] = "pair"
    /\ sessionState' = "PAIRED"
    /\ Goto(s, "send")
    /\ UNCHANGED <<objectVars, busyState, mainPc, killVars, netVars, sendVars, freed, peerVars>>

\* The thread ends itself.
KillSelf(s) ==
    /\ kill' = [kill EXCEPT ![s] = TRUE]
    /\ killer' = [killer EXCEPT ![s] = IF @ = "none" THEN "net" ELSE @]

\* recv has no data yet.
RecvWouldBlock(s) ==
    /\ netPc[s] = "recv"
    /\ peer[s] = "up"
    /\ errno' = [errno EXCEPT ![s] = "EWOULDBLOCK"]
    /\ Goto(s, "send")
    /\ UNCHANGED <<mainVars, killVars, connectState, testResult, phase, sendVars, freed, peerVars>>

\* recv is at the end of the stream, which sets no errno: behind a call that
\* would have blocked that is no error, either.
RecvEndUnnoticed(s) ==
    /\ netPc[s] = "recv"
    /\ peer[s] = "closed"
    /\ errno[s] = "EWOULDBLOCK"
    /\ Goto(s, "send")
    /\ UNCHANGED <<mainVars, killVars, netVars, sendVars, freed, peerVars>>

\* recv fails, or is at the end of the stream behind no such call.
RecvError(s) ==
    /\ netPc[s] = "recv"
    /\ peer[s] = "reset" \/ (peer[s] = "closed" /\ errno[s] # "EWOULDBLOCK")
    /\ errno' = [errno EXCEPT ![s] = "other"]
    /\ KillSelf(s)
    /\ Goto(s, "send")
    /\ UNCHANGED <<mainVars, running, connectState, testResult, phase, sendVars, freed, peerVars>>

\* sendMessageData sends the queue.  A server that has closed the connection
\* answers with a reset.
SendQueue(s) ==
    /\ netPc[s] = "send"
    /\ mutex[s] = "free"
    /\ queue[s] = 0 \/ peer[s] \in {"up", "closed"}
    /\ queue' = [queue EXCEPT ![s] = 0]
    /\ asked' = [asked EXCEPT ![s] = IF peer[s] = "up" THEN @ + queue[s] ELSE @]
    /\ peer' = [peer EXCEPT ![s] = IF @ = "closed" /\ queue[s] > 0 THEN "reset" ELSE @]
    /\ Goto(s, "loop")
    /\ UNCHANGED <<mainVars, killVars, netVars, mutex, freed>>

\* A send fails, with the mutex locked.
SendError(s) ==
    /\ netPc[s] = "send"
    /\ mutex[s] = "free"
    /\ queue[s] > 0
    /\ peer[s] = "reset"
    /\ queue' = [queue EXCEPT ![s] = @ - 1]
    /\ mutex' = [mutex EXCEPT ![s] = "net"]
    /\ UNCHANGED <<mainVars, netVars, freed, peerVars>>

\* ReleaseSession, called by the thread itself, joins it to itself,
JoinSelf(s) ==
    /\ SendError(s)
    /\ running[s] /\ ~kill[s]
    /\ KillSelf(s)
    /\ running' = [running EXCEPT ![s] = FALSE]
    /\ Goto(s, "selfJoin")

\* or, if it is already told to end, does nothing.
KeepMutex(s) ==
    /\ SendError(s)
    /\ ~running[s] \/ kill[s]
    /\ Goto(s, "loop")
    /\ UNCHANGED killVars

\* The loop ends.
Leave(s) ==
    /\ netPc[s] \in {"loop", "testLoop"}
    /\ kill[s]
    /\ Goto(s, IF netPc[s] = "loop" THEN "tail" ELSE "close")
    /\ UNCHANGED <<mainVars, killVars, netVars, sendVars, freed, peerVars>>

\* The rest of threadMain: what is left is sent or dropped, the queue is emptied
\* and its mutex deleted, also after an error that left it locked.
LoopEnded(s) ==
    /\ netPc[s] = "tail"
    /\ mutex[s] = "free"
    /\ queue' = [queue EXCEPT ![s] = 0]
    /\ mutex' = [mutex EXCEPT ![s] = "deleted"]
    /\ Goto(s, "close")
    /\ UNCHANGED <<mainVars, killVars, netVars, freed, peerVars>>

\* MUTANT: the state is reset before it decides whether there is a socket to close.
CloseConnectLate(s) ==
    /\ netPc[s] = "close"
    /\ connectState' = [connectState EXCEPT ![s] = "IDLE"]
    /\ Goto(s, "ended")
    /\ UNCHANGED <<mainVars, killVars, testResult, phase, errno, sendVars, freed, peerVars>>

\* closeConnect, and the thread ends.
CloseConnect(s) ==
    /\ netPc[s] = "close"
    /\ peer' = [peer EXCEPT ![s] = IF connectState[s] = "CONNECTED" THEN "none" ELSE @]
    /\ connectState' = [connectState EXCEPT ![s] = "IDLE"]
    /\ Goto(s, "ended")
    /\ UNCHANGED <<mainVars, killVars, testResult, phase, errno, sendVars, freed, asked>>

NetContinues(s) ==
    \/ Start(s) \/ Connect(s) \/ ConnectFails(s) \/ PublishResult(s) \/ Round(s)
    \/ RecvAccepted(s) \/ RecvHubItems(s) \/ RecvUnread(s)
    \/ RecvWouldBlock(s) \/ RecvEndUnnoticed(s) \/ RecvError(s)
    \/ AskHub(s) \/ Pair(s)
    \/ SendQueue(s) \/ JoinSelf(s) \/ KeepMutex(s)
    \/ Leave(s) \/ LoopEnded(s) \/ CloseConnect(s)

Next ==
    \/ Buttons
    \/ TestFinished
    \/ Authentication
    \/ MainContinues
    \/ \E s \in Session : NetContinues(s) \/ PeerGone(s)

\* Both threads run; the test dialog polls; nobody has to press a button.
Fairness ==
    /\ WF_vars(TestFinished)
    /\ WF_vars(MainContinues)
    /\ \A s \in Session : WF_vars(NetContinues(s))

Spec == Init /\ [][Next]_vars /\ Fairness

-----------------------------------------------------------------------------
(* Properties.                                                             *)

TypeOK ==
    /\ created \in 0..MaxSessions
    /\ {session, testSession, victim} \subseteq 0..created
    /\ sessionState \in {"NOT_CONNECTED", "CONNECTING", "CONNECTED", "FAILED", "PAIRED"}
    /\ busyState \in {"NONE", "AUTHENTICATION", "HUB_ITEMS"}
    /\ mainPc \in {"idle", "lock", "release", "kill", "join", "free", "forget"}
    /\ running \in [Session -> BOOLEAN]
    /\ kill \in [Session -> BOOLEAN]
    /\ killer \in [Session -> {"none", "main", "net"}]
    /\ connectState \in [Session -> {"IDLE", "CONNECTED", "FAIL"}]
    /\ testResult \in [Session -> {-1, 0, 1}]
    /\ queue \in [Session -> Nat]
    /\ mutex \in [Session -> {"free", "net", "deleted"}]
    /\ netPc \in [Session -> {"none", "startMain", "startTest", "loop", "testLoop", "recv", "askHub",
                              "pair", "send", "selfJoin", "tail", "close", "ended"}]
    /\ phase \in [Session -> {"new", "authenticated", "paired"}]
    /\ errno \in [Session -> {"other", "EWOULDBLOCK"}]
    /\ freed \in [Session -> BOOLEAN]
    /\ peer \in [Session -> {"none", "refused", "up", "closed", "reset"}]
    /\ asked \in [Session -> Nat]

\* Its thread has code of the session to run.
Alive(s) == netPc[s] \notin {"none", "ended"}

\* A session is freed under its thread, and the queue's mutex deleted under the
\* main thread, only if the session's thread ended itself: an error of the
\* socket is what ReleaseSession (PPSession.cpp:80) mistakes for a thread that
\* has been joined.
FreedOnlyAfterJoin ==
    \A s \in Session :
        \/ freed[s] /\ Alive(s)
        \/ mainPc = "lock" /\ session = s /\ mutex[s] = "deleted"
        => killer[s] = "net"

\* A thread that nobody told to end belongs to the session the manager knows,
\* and there is one at most: no thread of an earlier session goes on writing
\* the receive buffer and the manager's state, which all sessions share.
OneWriter ==
    \A s \in Session : Alive(s) /\ ~kill[s] =>
        /\ s \in {session, testSession}
        /\ ~freed[s]
        /\ \A t \in Session : Alive(t) /\ ~kill[t] => t = s

\* Without a session the manager is not connected, whatever its thread did to
\* the state while it was being deleted: the connect button works again.
NotConnectedWithoutSession ==
    session = NoSession /\ testSession = NoSession => sessionState = "NOT_CONNECTED"

\* A thread that has ended has closed the connection it had, and no socket it
\* leaves open is anything but that of a connection that failed.
SocketClosed == \A s \in Session : netPc[s] = "ended" => peer[s] \in {"none", "refused"}

\* A send error, the only thing that leaves the mutex locked, hangs the thread.
Stuck(s) == mutex[s] = "net"

\* The main thread gets through the deletion of a session, and through the
\* queue's mutex, unless a send error hangs the session's thread.
DisconnectReturns ==
    \A s \in Session :
        victim = s \/ (mainPc = "lock" /\ session = s) ~> mainPc = "idle" \/ Stuck(s)

\* A connection test comes to an end: its result, once there, is taken, and its
\* thread is joined.
TestConcludes == testSession # NoSession ~> testSession = NoSession

\* What the destructor's "join thread" (PPSession.cpp:83) is for: nothing of a
\* session is used once it is freed.
NoUseAfterFree == \A s \in Session : freed[s] => ~Alive(s)

\* "SS_FAILED when send message" (PPSession.cpp:267): an error of send shows in
\* the manager's state.
SendErrorShown == \A s \in Session : mutex[s] = "net" ~> sessionState = "FAILED"

=============================================================================
