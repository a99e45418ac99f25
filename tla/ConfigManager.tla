----------------------------- MODULE ConfigManager -----------------------------
(***************************************************************************)
(* The 3DS client's list of server profiles (ConfigManager.cpp): read from *)
(* the SD card when the app starts, changed by the buttons of PPUI, and    *)
(* written back whole by every change.  The app can be ended at any step,  *)
(* by the HOME menu or the power switch.                                   *)
(*                                                                         *)
(* The file and the parsed _config are the settings the profiles depend    *)
(* on: the version and the list.  The files are those this program, of     *)
(* this version or an older one, has written.                              *)
(***************************************************************************)
EXTENDS Integers, Sequences

CONSTANT Profiles   \* what the user may enter: name, ip and port

FORCE_OVERRIDE_VERSION == 2

VARIABLES
    servers,     \* ConfigManager::servers
    config,      \* _config
    file,        \* pinbox.cfg
    configPc,    \* where the main thread is in a start or a change
    ledger,      \* history: the profiles the user has added and not removed
    lossy        \* history: has the last change not reached the file?

configVars == <<servers, config, file, configPc, ledger, lossy>>

Lists == Seq(Profiles)
Settings == [version : 1..FORCE_OVERRIDE_VERSION, servers : Lists]

\* The file is not there, or only its beginning is: the version is the last setting.
Absent == [version |-> 0, servers |-> << >>]
Torn == [version |-> -1, servers |-> << >>]

Usable(f) == f.version >= FORCE_OVERRIDE_VERSION

\* The first start: no file, a current one or an outdated one, whose profiles are given up.
ConfigInit ==
    /\ \E list \in {<< >>} \cup {<<p>> : p \in Profiles} :
         /\ file \in {Absent} \cup {[version |-> v, servers |-> list] :
                                      v \in 1..FORCE_OVERRIDE_VERSION}
         /\ ledger = IF Usable(file) THEN list ELSE << >>
    /\ servers = << >>
    /\ config = Absent
    /\ configPc = "boot"
    /\ lossy = FALSE

-----------------------------------------------------------------------------
(* InitConfig.                                                             *)

\* After a change that was lost with the app, what the file says counts.
Believe(list) == ledger' = IF lossy THEN list ELSE ledger

\* loadConfigFile
LoadConfigFile ==
    /\ configPc = "boot"
    /\ Usable(file)
    /\ config' = file
    /\ servers' = file.servers
    /\ Believe(file.servers)
    /\ lossy' = FALSE
    /\ configPc' = "idle"
    /\ UNCHANGED file

\* createNewConfigFile: without a version, or with an old one, all settings are new.
CreateNewConfigFile ==
    /\ configPc = "boot"
    /\ ~Usable(file)
    /\ config' = [version |-> FORCE_OVERRIDE_VERSION, servers |-> << >>]
    /\ Believe(<< >>)
    /\ configPc' = "open"
    /\ UNCHANGED <<servers, file, lossy>>

-----------------------------------------------------------------------------
(* The buttons, and Save.                                                  *)

\* MUTANT: the loop that empties the list ends one too early.
RewrittenShort(list) == SubSeq(config.servers, Len(config.servers), Len(config.servers)) \o list

\* Save's list: every old element is removed (and one more, which fails), every profile
\* added.
Rewritten(list) == list

Save(list) ==
    /\ servers' = list
    /\ ledger' = list
    /\ config' = [version |-> FORCE_OVERRIDE_VERSION, servers |-> Rewritten(list)]
    /\ configPc' = "open"
    /\ lossy' = TRUE
    /\ UNCHANGED file

\* The new profile, whose connection has been tested.
AddServer(p) == Save(Append(servers, p))

RemoveServer ==
    /\ configPc = "idle"
    /\ \E i \in 1..Len(servers) :
         Save(SubSeq(servers, 1, i - 1) \o SubSeq(servers, i + 1, Len(servers)))

\* config_write_file opens the file, which empties it,
OpenFile ==
    /\ configPc = "open"
    /\ file' = Torn
    /\ configPc' = "write"
    /\ UNCHANGED <<servers, config, ledger, lossy>>

\* and writes it.
WriteFile ==
    /\ configPc = "write"
    /\ file' = config
    /\ lossy' = FALSE
    /\ configPc' = "idle"
    /\ UNCHANGED <<servers, config, ledger>>

\* It cannot be opened, or the card is full.  The result is printed and the app goes on.
SaveFails ==
    /\ configPc \in {"open", "write"}
    /\ lossy' = TRUE
    /\ configPc' = "idle"
    /\ UNCHANGED <<servers, config, file, ledger>>

-----------------------------------------------------------------------------

\* The app ends, in whatever it is doing: by its own button, the HOME menu or the switch.
Exit ==
    /\ configPc' = "boot"
    /\ servers' = << >>
    /\ config' = Absent
    /\ UNCHANGED <<file, ledger, lossy>>

\* The start of the app, or the end of a change.
ConfigContinues == LoadConfigFile \/ CreateNewConfigFile \/ OpenFile \/ WriteFile \/ SaveFails

Add ==
    /\ configPc = "idle"
    /\ \E p \in Profiles : AddServer(p)

ConfigNext == ConfigContinues \/ Add \/ RemoveServer \/ Exit

ConfigSpec == ConfigInit /\ [][ConfigNext]_configVars

-----------------------------------------------------------------------------
(* Properties.                                                             *)

ConfigTypeOK ==
    /\ {servers, ledger} \subseteq Lists
    /\ config \in Settings \cup {Absent}
    /\ file \in Settings \cup {Absent, Torn}
    /\ configPc \in {"boot", "idle", "open", "write"}
    /\ lossy \in BOOLEAN

\* However often the app is started, ended and killed, the list shows the profiles the user
\* has added and not removed, and the file holds them for the next start, unless the app
\* went down in the middle of the last change or its write failed (ConfigManager.cpp:154-215).
ProfilesKept ==
    configPc = "idle" /\ ~lossy =>
        servers = ledger /\ file = [version |-> FORCE_OVERRIDE_VERSION, servers |-> servers]

=============================================================================
