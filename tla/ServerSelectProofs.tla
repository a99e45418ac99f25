--------------------------- MODULE ServerSelectProofs ---------------------------
(***************************************************************************)
(* What holds of the profiles and of the sessions together, over any number *)
(* of starts of the app, of profiles and of sessions.                       *)
(***************************************************************************)
EXTENDS ServerSelect, PPSessionLifecycleProofs

AsWritten(list) == [version |-> FORCE_OVERRIDE_VERSION, servers |-> list]

\* What the next start will read from the file.
Readable == IF Usable(file) THEN file.servers ELSE << >>

\* What the app has in memory is what the user has made of it; what it has not
\* lost, it has written, or the next start will read.
ConfigInv ==
    /\ ConfigTypeOK
    /\ configPc = "boot" =>
         /\ servers = << >>
         /\ ~lossy => ledger = Readable
    /\ configPc # "boot" =>
         /\ servers = ledger
         /\ config = AsWritten(servers)
    /\ configPc = "idle" /\ ~lossy => file = config
    /\ configPc \in {"open", "write"} /\ ~lossy => servers = << >> /\ ~Usable(file)

LEMMA VersionUsable ==
    \A f \in Settings \cup {Absent, Torn} :
        Usable(f) <=> f \in Settings /\ f.version = FORCE_OVERRIDE_VERSION
BY DEF Usable, Settings, Absent, Torn, FORCE_OVERRIDE_VERSION

LEMMA CurrentInSettings == \A list \in Lists :
    AsWritten(list) \in Settings /\ Usable(AsWritten(list))
BY DEF Settings, AsWritten, Usable, FORCE_OVERRIDE_VERSION

LEMMA SettingsOfLists == \A f \in Settings : f.servers \in Lists
BY DEF Settings

LEMMA EmptyList == << >> \in Lists
BY DEF Lists

\* No change loses what it was given.
LEMMA SaveKeeps ==
    ASSUME ConfigInv, NEW list \in Lists, Save(list)
    PROVE  ConfigInv'
<1>1. ConfigTypeOK'
  BY CurrentInSettings DEF ConfigInv, ConfigTypeOK, Save, Rewritten, AsWritten
<1> QED
  BY <1>1 DEF ConfigInv, Save, Rewritten, AsWritten

LEMMA ConfigContinuesKeeps ==
    ASSUME ConfigInv, ConfigContinues
    PROVE  ConfigInv'
<1> USE DEF ConfigInv, ConfigTypeOK, Readable
<1>1. CASE LoadConfigFile
  <2>1. file \in Settings /\ file = AsWritten(file.servers) /\ file.servers \in Lists
    BY <1>1, VersionUsable, SettingsOfLists DEF LoadConfigFile, Settings, AsWritten
  <2> QED
    BY <1>1, <2>1, EmptyList DEF LoadConfigFile, Believe
<1>2. CASE CreateNewConfigFile
  <2>1. ledger' = << >> /\ servers = << >>
    BY <1>2 DEF CreateNewConfigFile, Believe
  <2> QED
    BY <1>2, <2>1, EmptyList, CurrentInSettings DEF CreateNewConfigFile, AsWritten, Usable
<1>3. CASE OpenFile
  <2>1. ~Usable(Torn)
    BY DEF Usable, Torn, FORCE_OVERRIDE_VERSION
  <2> QED
    BY <1>3, <2>1 DEF OpenFile, Usable
<1>4. CASE WriteFile
  BY <1>4, CurrentInSettings DEF WriteFile
<1>5. CASE SaveFails
  BY <1>5 DEF SaveFails
<1> QED
  BY <1>1, <1>2, <1>3, <1>4, <1>5 DEF ConfigContinues

LEMMA ExitKeeps ==
    ASSUME ConfigInv, Exit
    PROVE  ConfigInv'
<1>1. ConfigTypeOK'
  BY EmptyList DEF ConfigInv, ConfigTypeOK, Exit
<1>2. ~lossy => ledger = Readable
  <2>1. CASE configPc = "boot"
    BY <2>1 DEF ConfigInv
  <2>2. CASE configPc = "idle"
    <3>1. ~lossy => file = AsWritten(ledger) /\ ledger \in Lists
      BY <2>2 DEF ConfigInv, ConfigTypeOK
    <3>2. AsWritten(ledger).servers = ledger
      BY DEF AsWritten
    <3> QED
      BY <3>1, <3>2, CurrentInSettings DEF Readable
  <2>3. CASE configPc \in {"open", "write"}
    BY <2>3 DEF ConfigInv, Readable
  <2> QED
    BY <2>1, <2>2, <2>3 DEF ConfigInv, ConfigTypeOK
<1> QED
  BY <1>1, <1>2 DEF ConfigInv, Exit, Readable, Usable

LEMMA RemoveServerKeeps ==
    ASSUME ConfigInv, RemoveServer
    PROVE  ConfigInv'
<1>1. PICK i \in 1..Len(servers) :
        Save(SubSeq(servers, 1, i - 1) \o SubSeq(servers, i + 1, Len(servers)))
  BY DEF RemoveServer
<1>2. SubSeq(servers, 1, i - 1) \o SubSeq(servers, i + 1, Len(servers)) \in Lists
  BY DEF ConfigInv, ConfigTypeOK, Lists
<1> QED
  BY <1>1, <1>2, SaveKeeps

LEMMA AddServerKeeps ==
    ASSUME ConfigInv, NEW p \in Profiles, AddServer(p)
    PROVE  ConfigInv'
<1>1. Append(servers, p) \in Lists
  BY DEF ConfigInv, ConfigTypeOK, Lists
<1> QED
  BY <1>1, SaveKeeps DEF AddServer

LEMMA ConfigNextKeeps ==
    ASSUME ConfigInv, [ConfigNext]_configVars
    PROVE  ConfigInv'
<1>1. CASE UNCHANGED configVars
  BY <1>1 DEF configVars, ConfigInv, ConfigTypeOK, Readable, Usable
<1> QED
  BY <1>1, ConfigContinuesKeeps, AddServerKeeps, RemoveServerKeeps, ExitKeeps
     DEF ConfigNext, Add

LEMMA InitConfigInv == ConfigInit => ConfigInv
<1> SUFFICES ASSUME ConfigInit PROVE ConfigInv
  OBVIOUS
<1>1. PICK list \in {<< >>} \cup {<<p>> : p \in Profiles} :
        /\ file \in {Absent} \cup {[version |-> v, servers |-> list] :
                                     v \in 1..FORCE_OVERRIDE_VERSION}
        /\ ledger = IF Usable(file) THEN list ELSE << >>
  BY DEF ConfigInit
<1>2. list \in Lists
  <2>1. \A p \in Profiles : <<p>> \in Seq(Profiles)
    OBVIOUS
  <2>2. CASE list = << >>
    BY <2>2, EmptyList
  <2>3. CASE list \in {<<p>> : p \in Profiles}
    BY <2>1, <2>3 DEF Lists
  <2> QED
    BY <1>1, <2>2, <2>3
<1>3. file = Absent \/ (file \in Settings /\ file.servers = list)
  BY <1>1, <1>2 DEF Settings
<1>4. ~Usable(Absent)
  BY DEF Usable, Absent, FORCE_OVERRIDE_VERSION
<1> QED
  BY <1>1, <1>2, <1>3, <1>4, EmptyList DEF ConfigInit, ConfigInv, ConfigTypeOK, Readable

-----------------------------------------------------------------------------
(* The composition.                                                        *)

\* Every step of the app is a step of the lifecycle, or starts it anew.
LEMMA LifecycleStep ==
    ASSUME AppNext
    PROVE  [Next]_vars \/ Init'
<1>1. CASE MainThread
  <2>1. CASE ConfigStep
    BY <2>1 DEF ConfigStep
  <2>2. CASE ConnectToProfile \/ TestProfile
    BY <2>2 DEF ConnectToProfile, TestProfile, Next, Buttons
  <2>3. CASE ForgetTest
    BY <2>3 DEF ForgetTest, Next, MainContinues
  <2>4. CASE MainStep
    BY <2>4 DEF MainStep, Next, Buttons, MainContinues
  <2>5. CASE RemoveProfile
    BY <2>5 DEF RemoveProfile
  <2> QED
    BY <1>1, <2>1, <2>2, <2>3, <2>4, <2>5 DEF MainThread
<1>2. ASSUME NEW s \in Session, NetworkThread(s) \/ (PeerGone(s) /\ UNCHANGED configVars)
      PROVE  Next
  BY <1>2 DEF NetworkThread, Next
<1>3. CASE ExitApp
  BY <1>3 DEF ExitApp, Init
<1> QED
  BY <1>1, <1>2, <1>3 DEF AppNext

\* Every step of the app leaves the profiles alone or is a step of ConfigManager.
LEMMA ProfilesStep ==
    ASSUME [AppNext]_appVars
    PROVE  [ConfigNext]_configVars
BY DEF AppNext, MainThread, ConfigStep, ConnectToProfile, TestProfile, ForgetTest, MainStep,
       RemoveProfile, NetworkThread, ExitApp, Add, ConfigNext, appVars

\* What the screen and the sessions do to the profiles is what ConfigManager says.
THEOREM ScreenUsesConfig == AppSpec => ConfigSpec
<1>1. AppInit => ConfigInit
  BY DEF AppInit
<1>2. [AppNext]_appVars => [ConfigNext]_configVars
  BY ProfilesStep
<1> QED
  BY <1>1, <1>2, PTL DEF AppSpec, ConfigSpec

\* In memory, in the file or about to be read: the profiles are where the user left
\* them, over every start of the app.
THEOREM ProfilesSurvive == AppSpec => []ProfilesKept
<1>1. ConfigInv /\ [ConfigNext]_configVars => ConfigInv'
  BY ConfigNextKeeps
<1>2. ConfigInv => ProfilesKept
  BY DEF ConfigInv, ProfilesKept, AsWritten
<1> QED
  BY InitConfigInv, <1>1, <1>2, ScreenUsesConfig, PTL DEF ConfigSpec

\* What is proved of the sessions of one start holds over all of them.
THEOREM SessionsOverRestarts ==
    AppSpec => [](/\ TypeOK /\ FreedOnlyAfterJoin /\ OneWriter
                  /\ NotConnectedWithoutSession /\ SocketClosed)
<1>1. AppInit => IInv /\ Sockets
  BY InitIInv, InitSockets DEF AppInit
<1>2. Init' => IInv' /\ Sockets'
  <2>1. (Init => IInv /\ Sockets)'
    BY InitIInv, InitSockets, PTL
  <2> QED
    BY <2>1
<1>3. IInv /\ Sockets /\ [AppNext]_appVars => IInv' /\ Sockets'
  <2> SUFFICES ASSUME IInv, Sockets, [AppNext]_appVars PROVE IInv' /\ Sockets'
    OBVIOUS
  <2>1. [Next]_vars \/ Init'
    BY LifecycleStep DEF appVars
  <2>2. TypeOK
    BY DEF IInv
  <2> QED
    BY <1>2, <2>1, <2>2, NextKeeps, SocketsKeep
<1>4. IInv /\ Sockets => /\ TypeOK /\ FreedOnlyAfterJoin /\ OneWriter
                        /\ NotConnectedWithoutSession /\ SocketClosed
  BY IInvFreed, IInvOneWriter, SocketsClosed DEF IInv
<1> QED
  BY <1>1, <1>3, <1>4, PTL DEF AppSpec

=============================================================================
