------------------------------ MODULE ServerSelect ------------------------------
(***************************************************************************)
(* The 3DS client's server select screen (PPUI.cpp), where the sessions of  *)
(* PPSessionLifecycle meet the profiles of ConfigManager: a session is      *)
(* opened to a profile of the list, a profile is added by the test of its   *)
(* connection, and both end with the app, which can be started again.       *)
(*                                                                         *)
(* One main thread does all of it: while it starts or writes the file it    *)
(* presses no button, and the sessions' threads go on.                      *)
(***************************************************************************)
EXTENDS PPSessionLifecycle, ConfigManager

CONSTANT MaxServers   \* bound: profiles in the list

ASSUME MaxServersAssumption == MaxServers \in Nat

appVars == <<vars, configVars>>

AppInit == Init /\ ConfigInit

-----------------------------------------------------------------------------

\* The start, and the writing of the file, in the main thread.
ConfigStep == ConfigContinues /\ UNCHANGED vars

\* The list's connect button.
ConnectToProfile == servers # << >> /\ ConnectToServer /\ UNCHANGED configVars

\* The OK button of a new profile, as long as the bound leaves room for it.
TestProfile == Len(servers) < MaxServers /\ TestConnection /\ UNCHANGED configVars

\* What the finished test found: the profile is good.
TestPassed(s) == s = testSession /\ testResult[s] = 1

\* The end of a deletion.  Behind a test that passed, the profile is pushed and saved.
ForgetTest ==
    /\ Forget
    /\ IF TestPassed(victim) THEN \E p \in Profiles : AddServer(p)
                             ELSE UNCHANGED configVars

\* The rest of what the main thread does to a session.
MainStep ==
    /\ \/ DisconnectToServer \/ TestFinished \/ Authentication \/ QueueMessage
       \/ ReleaseSession \/ Kill \/ Join \/ Free
    /\ UNCHANGED configVars

\* The list's remove button, on the screen that no session's dialog covers.
RemoveProfile ==
    /\ mainPc = "idle"
    /\ session = NoSession
    /\ testSession = NoSession
    /\ RemoveServer
    /\ UNCHANGED vars

MainThread ==
    \/ ConfigStep
    \/ /\ configPc = "idle"
       /\ ConnectToProfile \/ TestProfile \/ ForgetTest \/ MainStep \/ RemoveProfile

NetworkThread(s) == NetContinues(s) /\ UNCHANGED configVars

\* The sessions, their threads and their sockets end with the app.
ExitApp ==
    /\ Exit
    /\ created' = 0
    /\ session' = NoSession
    /\ testSession' = NoSession
    /\ sessionState' = "NOT_CONNECTED"
    /\ busyState' = "NONE"
    /\ mainPc' = "idle"
    /\ victim' = NoSession
    /\ running' = Each(FALSE)
    /\ kill' = Each(FALSE)
    /\ killer' = Each("none")
    /\ connectState' = Each("IDLE")
    /\ testResult' = Each(0)
    /\ queue' = Each(0)
    /\ mutex' = Each("free")
    /\ netPc' = Each("none")
    /\ phase' = Each("new")
    /\ errno' = Each("other")
    /\ freed' = Each(FALSE)
    /\ peer' = Each("none")
    /\ asked' = Each(0)

AppNext ==
    \/ MainThread
    \/ \E s \in Session : NetworkThread(s) \/ (PeerGone(s) /\ UNCHANGED configVars)
    \/ ExitApp

\* The lifecycle's, and the file is written in the end or its writing fails.
AppFairness ==
    /\ WF_appVars(ConfigStep)
    /\ WF_appVars(configPc = "idle" /\ TestFinished /\ UNCHANGED configVars)
    /\ WF_appVars(configPc = "idle" /\ (ForgetTest \/ (MainStep /\ mainPc # "idle")))
    /\ \A s \in Session : WF_appVars(NetworkThread(s))

AppSpec == AppInit /\ [][AppNext]_appVars /\ AppFairness

=============================================================================
