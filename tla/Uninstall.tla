------------------------------- MODULE Uninstall -------------------------------
(***************************************************************************)
(* What whspr leaves on a machine, and the command that takes it away      *)
(* (whspr-cli: uninstall_cmd.rs; whspr-config: autostart.rs, lib.rs,        *)
(* secrets/migrate.rs; whspr-app: app.rs).  The command does its steps one  *)
(* after the other, each of which may fail without stopping the rest, and   *)
(* takes no notice of an app that runs.                                     *)
(***************************************************************************)
EXTENDS Sequences

CONSTANTS
  KnownBackends, (* KNOWN_KEY_BACKENDS                                       *)
  OtherBackends, (* further backends config.toml may have a key for          *)
  NoConfig,      (* there is no config.toml; the app does not run            *)
  Torn           (* config.toml as a save left it that was cut short         *)

Backends == KnownBackends \cup OtherBackends
Config == [autostart : BOOLEAN, apiKeys : SUBSET Backends]

\* SecretName: what whspr may have in the keystore, for each backend and besides.
FixedNames == {"hf-token", "history-key"}
SecretNames == Backends \cup FixedNames

ASSUME NoConfigAssumption == NoConfig \notin Config /\ Torn \notin Config /\ NoConfig # Torn

VARIABLES
  configToml,   (* config.toml                                               *)
  appConfig,    (* State::config of the running app                          *)
  dataDir,      (* the data directory exists                                 *)
  loginEntry,   (* the launch-at-login entry exists                          *)
  keyEntries,   (* the names of the secrets in the keystore                  *)
  leftToRemove, (* the command's steps still to do                           *)
  keyNames,     (* whspr_secret_names, of the config the command loaded      *)
  drifted,      (* history: the setting and the entry parted, for a known    *)
                (* reason                                                    *)
  clean         (* history: an uninstall without a failure or an app running *)
                (* since it began, and neither app nor installer since       *)

uninstallVars == <<configToml, appConfig, dataDir, loginEntry, keyEntries, leftToRemove,
                   keyNames, drifted, clean>>

DefaultConfig == [autostart |-> FALSE, apiKeys |-> {}]

UninstallInit ==
  /\ configToml = NoConfig /\ appConfig = NoConfig /\ dataDir = FALSE
  /\ loginEntry = FALSE /\ keyEntries = {} /\ leftToRemove = <<>> /\ keyNames = {}
  /\ drifted = FALSE /\ clean = FALSE

\* load_from: the defaults, where the file is missing or does not parse.
Loads(file) == IF file \in {NoConfig, Torn} THEN DefaultConfig ELSE file
Loaded == Loads(configToml)

\* Config::save truncates the file and writes it, or cannot open it at all.
SaveSettings(config) ==
  /\ configToml' \in {config, configToml, Torn}
  /\ drifted' = (drifted \/ Loads(configToml').autostart # config.autostart)

\* boot: plaintext keys move to the keystore, where there is one that lasts, and the
\* config is saved without them; some may have moved before one does not.  Without a
\* file, load_from writes the defaults to one.
BootApp ==
  /\ appConfig = NoConfig
  /\ \/ /\ Loaded.apiKeys # {}
        /\ appConfig' = [Loaded EXCEPT !.apiKeys = {}]
        /\ keyEntries' = keyEntries \cup Loaded.apiKeys
        /\ SaveSettings(appConfig')
     \/ /\ appConfig' = Loaded
        /\ \E moved \in SUBSET Loaded.apiKeys : keyEntries' = keyEntries \cup moved
        /\ \/ configToml = NoConfig /\ SaveSettings(DefaultConfig)
           \/ configToml # NoConfig /\ UNCHANGED <<configToml, drifted>>
  /\ clean' = FALSE
  /\ UNCHANGED <<dataDir, loginEntry, leftToRemove, keyNames>>

CloseApp ==
  /\ appConfig # NoConfig /\ appConfig' = NoConfig
  /\ UNCHANGED <<configToml, dataDir, loginEntry, keyEntries, leftToRemove, keyNames, drifted, clean>>

\* mutant: the entry is written, and never removed
AutostartToggledOn ==
  /\ appConfig # NoConfig
  /\ appConfig' = [appConfig EXCEPT !.autostart = ~@]
  /\ loginEntry' \in {TRUE, loginEntry}
  /\ configToml' \in {appConfig', configToml, Torn}
  /\ drifted' = \/ loginEntry' = loginEntry /\ loginEntry' # appConfig'.autostart
                \/ Loads(configToml').autostart # appConfig'.autostart
  /\ UNCHANGED <<dataDir, keyEntries, leftToRemove, keyNames, clean>>

\* Message::AutostartToggled: the setting changes and is saved even if the entry
\* could not be changed (last_error says so), or the other way round.
AutostartToggled ==
  /\ appConfig # NoConfig
  /\ appConfig' = [appConfig EXCEPT !.autostart = ~@]
  /\ loginEntry' \in {appConfig'.autostart, loginEntry}
  /\ configToml' \in {appConfig', configToml, Torn}
  /\ drifted' = \/ loginEntry' # appConfig'.autostart
                \/ Loads(configToml').autostart # appConfig'.autostart
  /\ UNCHANGED <<dataDir, keyEntries, leftToRemove, keyNames, clean>>

\* persist_config, on any other change of the settings.
PersistConfig ==
  /\ appConfig # NoConfig /\ SaveSettings(appConfig)
  /\ UNCHANGED <<appConfig, dataDir, loginEntry, keyEntries, leftToRemove, keyNames, clean>>

\* A key saved in the settings or a sign-in (Secrets), for the backends they offer, or
\* the history key (History); an utterance appended to the history, a model downloaded.
SaveKey(name) ==
  /\ appConfig # NoConfig /\ keyEntries' = keyEntries \cup {name}
  /\ UNCHANGED <<configToml, appConfig, dataDir, loginEntry, leftToRemove, keyNames, drifted, clean>>

WriteData ==
  /\ appConfig # NoConfig /\ dataDir' = TRUE
  /\ UNCHANGED <<configToml, appConfig, loginEntry, keyEntries, leftToRemove, keyNames, drifted, clean>>

\* config.toml edited by hand: a key written into it, or [autostart].enabled.
EditConfig(backend) ==
  /\ appConfig = NoConfig /\ configToml # NoConfig
  /\ \/ configToml' = [Loaded EXCEPT !.apiKeys = @ \cup {backend}] /\ UNCHANGED drifted
     \/ configToml' = [Loaded EXCEPT !.autostart = ~@] /\ drifted' = TRUE
  /\ UNCHANGED <<appConfig, dataDir, loginEntry, keyEntries, leftToRemove, keyNames, clean>>

\* The installer's Run value (Installer), which no setting of the app's says.
InstallerWritesEntry ==
  /\ loginEntry' = TRUE /\ drifted' = TRUE /\ clean' = FALSE
  /\ UNCHANGED <<configToml, appConfig, dataDir, keyEntries, leftToRemove, keyNames>>

-----------------------------------------------------------------------------
Steps == <<"autostart", "secrets", "config", "data">>

\* mutant: only the backends config.toml has a key for
SecretNamesInConfig(config) == config.apiKeys

WhsprSecretNames(config) == KnownBackends \cup config.apiKeys \cup FixedNames

\* whspr uninstall --yes, up to its first step.
UninstallStarts ==
  /\ leftToRemove = <<>> /\ leftToRemove' = Steps
  /\ keyNames' = WhsprSecretNames(Loaded)
  /\ configToml' = IF configToml = NoConfig THEN DefaultConfig ELSE configToml
  /\ clean' = (appConfig = NoConfig)
  /\ UNCHANGED <<appConfig, dataDir, loginEntry, keyEntries, drifted>>

RemoveStep ==
  LET step == Head(leftToRemove) IN
    /\ leftToRemove # <<>> /\ leftToRemove' = Tail(leftToRemove)
    /\ loginEntry' = (loginEntry /\ step # "autostart")
    /\ keyEntries' = (IF step = "secrets" THEN keyEntries \ keyNames ELSE keyEntries)
    /\ configToml' = (IF step = "config" THEN NoConfig ELSE configToml)
    /\ dataDir' = (dataDir /\ step # "data")
    /\ drifted' = (drifted \/ loginEntry' # loginEntry \/ configToml' # configToml)
    /\ UNCHANGED <<appConfig, keyNames, clean>>

\* A step that fails, the deletion of keys for some of them, is reported and skipped.
RemoveStepFails ==
  /\ leftToRemove # <<>> /\ leftToRemove' = Tail(leftToRemove)
  /\ \/ UNCHANGED keyEntries
     \/ Head(leftToRemove) = "secrets" /\ \E kept \in SUBSET keyNames : keyEntries' = keyEntries \ kept
  /\ clean' = FALSE
  /\ UNCHANGED <<configToml, appConfig, dataDir, loginEntry, keyNames, drifted>>

UninstallNext ==
  \/ BootApp \/ CloseApp \/ AutostartToggled \/ PersistConfig \/ WriteData
  \/ \E name \in KnownBackends \cup FixedNames : SaveKey(name)
  \/ \E backend \in Backends : EditConfig(backend)
  \/ InstallerWritesEntry \/ UninstallStarts \/ RemoveStep \/ RemoveStepFails

UninstallSpec == UninstallInit /\ [][UninstallNext]_uninstallVars

-----------------------------------------------------------------------------
UninstallTypeOK ==
  /\ configToml \in Config \cup {NoConfig, Torn} /\ appConfig \in Config \cup {NoConfig}
  /\ dataDir \in BOOLEAN /\ loginEntry \in BOOLEAN /\ drifted \in BOOLEAN /\ clean \in BOOLEAN
  /\ keyEntries \subseteq SecretNames /\ keyNames \subseteq SecretNames
  /\ leftToRemove \in Seq({"autostart", "secrets", "config", "data"})

\* A running app's launch-at-login setting says whether there is an entry, unless
\* they parted: the installer wrote one, a change of either failed, a save that was cut
\* short lost the setting, or either was changed or removed by hand or by an uninstall.
AutostartAgrees == appConfig # NoConfig /\ ~drifted => (appConfig.autostart <=> loginEntry)

\* uninstall_cmd.rs: an uninstall that nothing failed in, with no app running since
\* it began, leaves no entry, no config, no data, and no secret but the keys of backends
\* that are neither known nor named by config.toml any more.
NothingLeft ==
  clean /\ leftToRemove = <<>> =>
    /\ ~loginEntry /\ configToml = NoConfig /\ ~dataDir
    /\ keyEntries \cap (KnownBackends \cup FixedNames \cup keyNames) = {}

UninstallFits == AutostartAgrees /\ NothingLeft

\* "Every keystore entry whspr may have created" (whspr_secret_names) is removed.
NoSecretLeft == clean /\ leftToRemove = <<>> => keyEntries = {}
=============================================================================
