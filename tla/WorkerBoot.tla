------------------------------ MODULE WorkerBoot ------------------------------
(***************************************************************************)
(* How settings reach dictation (whspr-app: worker/mod.rs, backends.rs,     *)
(* app.rs, worker_events.rs; whspr-config: lib.rs, language.rs).  The app   *)
(* and the dictation worker each load config.toml, at times of their own.   *)
(* The worker builds its recognizer and refiner, or parks for good; when    *)
(* it listens it sends the app a channel, through which the app pushes the  *)
(* settings it saves from then on.  They reach the captures; the pipeline   *)
(* stays as it was built.                                                   *)
(*                                                                         *)
(* Of the settings, those kept are: what the pipeline is built from (the    *)
(* recognizer and its model, the refiner, the language, the key of OpenAI,  *)
(* and translating, shortening and normalizing as one choice), and one that *)
(* the captures read each time, microphone privacy.                         *)
(***************************************************************************)
EXTENDS Naturals, Sequences, SequencesExt

CONSTANT MaxSaves   \* bound of the model on saves and restarts

ASSUME SavesAssumption == MaxSaves \in Nat

AppConfig == [asr : {"whisper", "openai"}, model : BOOLEAN, refine : {"noop", "openai"},
              languageSwitch : BOOLEAN, fixedLanguage : {"unset", "es"},
              language : {"unset", "fr"}, rewrites : BOOLEAN, micPrivacy : BOOLEAN]

OpenaiKeys == {"none", "first", "second"}

BootDefaults == [asr |-> "whisper", model |-> FALSE, refine |-> "noop", languageSwitch |-> TRUE,
             fixedLanguage |-> "unset", language |-> "unset", rewrites |-> FALSE, micPrivacy |-> TRUE]

VARIABLES
  config,      (* State::config                                              *)
  configFile,  (* config.toml, as last written                               *)
  fileTorn,    (* it was emptied since, and not written                      *)
  openaiKey,   (* the key of OpenAI in the keystore                          *)
  saving,      (* how far the app is inside Config::save                     *)
  worker,      (* how far the worker is                                      *)
  session,     (* Session::config, from the worker's own load on             *)
  pipeline,    (* what the pipeline was built from                           *)
  settings,    (* the channel of saved settings                              *)
  workerConfig,(* State::worker_config is present                            *)
  reports,     (* the worker's events the app has not handled                *)
  needsModel,  (* State::needs_model                                         *)
  lastError,   (* State::last_error is present                               *)
  saves,       (* counter of the bound                                       *)
  changed,     (* history: what the pipeline is built from was changed since
                  the worker loaded                                          *)
  unheardSave, (* history: the last save fell between the worker's load and
                  the app's receipt of the channel                           *)
  tornLoad,    (* history: the worker loaded the file in, or after, a save
                  that was not complete                                      *)
  saveFailed   (* history: the last save failed                              *)

bootVars == <<config, configFile, fileTorn, openaiKey, saving, worker, session, pipeline,
              settings, workerConfig, reports, needsModel, lastError, saves, changed, unheardSave,
              tornLoad, saveFailed>>
bootHistory == <<changed, unheardSave, tornLoad, saveFailed>>

EffectiveLanguage(c) ==
  IF c.languageSwitch THEN "unset"
  ELSE IF c.fixedLanguage # "unset" THEN c.fixedLanguage ELSE c.language

UsesOpenai(c) == c.asr = "openai" \/ c.refine = "openai"

\* build_asr_backend, build_refiner, the language and translate: what a pipeline is built
\* from, with the key as the keystore has it.
PipelineFor(c, key) ==
  [asr |-> c.asr, refine |-> c.refine, language |-> EffectiveLanguage(c),
   rewrites |-> c.rewrites, key |-> IF UsesOpenai(c) THEN key ELSE "none"]

IsMissingWhisperModel(c) == c.asr = "whisper" /\ ~c.model
Builds(c) == /\ ~IsMissingWhisperModel(c)
             /\ UsesOpenai(c) => openaiKey # "none"

\* load_from: a file that does not parse, or is empty, counts as the defaults.
LoadFrom == IF fileTorn THEN BootDefaults ELSE configFile

BootInit ==
  /\ config \in [asr : {"whisper", "openai"}, model : BOOLEAN, refine : {"noop"},
                 languageSwitch : BOOLEAN, fixedLanguage : {"unset", "es"},
                 language : {"unset"}, rewrites : {FALSE}, micPrivacy : {TRUE}]
  /\ configFile = config /\ fileTorn = FALSE /\ openaiKey \in {"none", "first"} /\ saving = "no"
  /\ worker = "starting" /\ session = BootDefaults /\ pipeline = PipelineFor(BootDefaults, "none")
  /\ settings = <<>> /\ workerConfig = FALSE /\ reports = <<>>
  /\ needsModel = FALSE /\ lastError = FALSE /\ saves = 0
  /\ changed = FALSE /\ unheardSave = FALSE /\ tornLoad = FALSE /\ saveFailed = FALSE

-----------------------------------------------------------------------------
(* The worker *)

\* worker::run loads the settings itself.
LoadSettings ==
  /\ worker = "starting" /\ worker' = "building"
  /\ session' = LoadFrom
  /\ changed' = FALSE /\ unheardSave' = FALSE /\ tornLoad' = (saving # "no" \/ saveFailed)
  /\ UNCHANGED <<config, configFile, fileTorn, openaiKey, saving, pipeline, settings, workerConfig,
                 reports, needsModel, lastError, saves, saveFailed>>

\* The backends, then the hotkey listener; what fails is reported, and the worker
\* waits for ever.
BuildPipeline ==
  /\ worker = "building"
  /\ \/ /\ Builds(session)
        /\ worker' = "listening" /\ pipeline' = PipelineFor(session, openaiKey) /\ UNCHANGED reports
     \/ /\ ~Builds(session)
        /\ worker' = "parked" /\ UNCHANGED pipeline
        /\ reports' = Append(reports, IF IsMissingWhisperModel(session) THEN "needsModel" ELSE "failed")
  /\ UNCHANGED <<config, configFile, fileTorn, openaiKey, saving, session, settings, workerConfig,
                 needsModel, lastError, saves, bootHistory>>

StartListener ==
  /\ worker = "listening"
  /\ \/ worker' = "running" /\ reports' = Append(reports, "ready")
     \/ worker' = "parked" /\ reports' = Append(reports, "failed")
  /\ UNCHANGED <<config, configFile, fileTorn, openaiKey, saving, session, pipeline, settings,
                 workerConfig, needsModel, lastError, saves, bootHistory>>

\* newest_config, apply_config: the pipeline stays as it is.
ApplySettings ==
  /\ worker = "running" /\ settings # <<>>
  /\ session' = Last(settings) /\ settings' = <<>>
  /\ UNCHANGED <<config, configFile, fileTorn, openaiKey, saving, worker, pipeline, workerConfig,
                 reports, needsModel, lastError, saves, bootHistory>>

\* A turn; its text is typed, which clears the error, or cannot be.
Dictate ==
  /\ worker = "running" /\ saving = "no"
  /\ lastError' \in BOOLEAN
  /\ UNCHANGED <<config, configFile, fileTorn, openaiKey, saving, worker, session, pipeline, settings,
                 workerConfig, reports, needsModel, saves, bootHistory>>

-----------------------------------------------------------------------------
(* The app, which does nothing else while it saves *)

\* mutant: the worker is sent its settings only once it is known to run well
PushUnlessError(new) ==
  settings' = IF workerConfig /\ ~lastError THEN Append(settings, new) ELSE settings

\* persist_config: first to the worker, then to the file.
PushSettings(new) == settings' = IF workerConfig THEN Append(settings, new) ELSE settings

SaveConfig(new) ==
  /\ saving = "no" /\ saves < MaxSaves /\ saves' = saves + 1 /\ saving' = "opening"
  /\ config' = new
  /\ PushSettings(new)
  /\ changed' = \/ changed \/ new.model # config.model
                \/ PipelineFor(new, openaiKey') # PipelineFor(config, openaiKey)
  /\ unheardSave' = ~workerConfig
  /\ UNCHANGED <<configFile, fileTorn, worker, session, pipeline, workerConfig, reports, needsModel,
                 lastError, tornLoad, saveFailed>>

\* HfAsrSelected, HfRefineSelected, LanguageChanged, TranslateToggled and the like,
\* MicPrivacyToggled.
SelectSetting ==
  /\ UNCHANGED openaiKey
  /\ \/ SaveConfig([config EXCEPT !.asr = "whisper", !.model = TRUE])
     \/ SaveConfig([config EXCEPT !.asr = "openai"])
     \/ \E refine \in {"noop", "openai"} : SaveConfig([config EXCEPT !.refine = refine])
     \/ \E language \in {"unset", "fr"} : SaveConfig([config EXCEPT !.language = language])
     \/ SaveConfig([config EXCEPT !.rewrites = ~@])
     \/ SaveConfig([config EXCEPT !.micPrivacy = ~@])

\* ApiKeySaved, ApiKeyRemoved.
SetKey == openaiKey' \in OpenaiKeys \ {openaiKey} /\ SaveConfig(config)

\* Config::save: std::fs::write empties the file, then writes it.
EmptyFile ==
  /\ saving = "opening" /\ saving' = "writing" /\ fileTorn' = TRUE
  /\ UNCHANGED <<config, configFile, openaiKey, worker, session, pipeline, settings,
                 workerConfig, reports, needsModel, lastError, saves, bootHistory>>

WriteFile ==
  /\ saving = "writing" /\ saving' = "no"
  /\ configFile' = config /\ fileTorn' = FALSE /\ saveFailed' = FALSE
  /\ UNCHANGED <<config, openaiKey, worker, session, pipeline, settings, workerConfig,
                 reports, needsModel, lastError, saves, changed, unheardSave, tornLoad>>

SaveFails ==
  /\ saving # "no" /\ saving' = "no" /\ saveFailed' = TRUE /\ lastError' = TRUE
  /\ UNCHANGED <<config, configFile, fileTorn, openaiKey, worker, session, pipeline, settings,
                 workerConfig, reports, needsModel, saves, changed, unheardSave, tornLoad>>

\* WorkerEvent::Ready, NeedsModel, Failed.
HandleReport ==
  /\ reports # <<>> /\ saving = "no"
  /\ reports' = Tail(reports)
  /\ workerConfig' = (workerConfig \/ Head(reports) = "ready")
  /\ needsModel' = (needsModel \/ Head(reports) = "needsModel")
  /\ lastError' = (lastError \/ Head(reports) = "failed")
  /\ UNCHANGED <<config, configFile, fileTorn, openaiKey, saving, worker, session, pipeline, settings,
                 saves, bootHistory>>

\* Quit, perhaps in the middle of a save, and started again.
RestartWorker ==
  /\ saves < MaxSaves /\ saves' = saves + 1
  /\ config' = LoadFrom /\ saving' = "no"
  /\ worker' = "starting" /\ settings' = <<>> /\ workerConfig' = FALSE /\ reports' = <<>>
  /\ needsModel' = FALSE /\ lastError' = FALSE
  /\ session' = BootDefaults /\ pipeline' = PipelineFor(BootDefaults, "none")
  /\ changed' = FALSE /\ unheardSave' = FALSE /\ tornLoad' = FALSE /\ saveFailed' = FALSE
  /\ UNCHANGED <<configFile, fileTorn, openaiKey>>

BootNext ==
  \/ LoadSettings \/ BuildPipeline \/ StartListener \/ ApplySettings \/ Dictate
  \/ SelectSetting \/ SetKey \/ EmptyFile \/ WriteFile \/ SaveFails \/ HandleReport \/ RestartWorker

BootSpec == BootInit /\ [][BootNext]_bootVars

-----------------------------------------------------------------------------
BootTypeOK ==
  /\ config \in AppConfig /\ configFile \in AppConfig /\ session \in AppConfig
  /\ openaiKey \in OpenaiKeys /\ fileTorn \in BOOLEAN /\ workerConfig \in BOOLEAN
  /\ saving \in {"no", "opening", "writing"}
  /\ worker \in {"starting", "building", "listening", "running", "parked"}
  /\ pipeline \in [asr : {"whisper", "openai"}, refine : {"noop", "openai"},
                   language : {"unset", "es", "fr"}, rewrites : BOOLEAN, key : OpenaiKeys]
  /\ settings \in Seq(AppConfig) /\ reports \in Seq({"ready", "needsModel", "failed"})
  /\ needsModel \in BOOLEAN /\ lastError \in BOOLEAN /\ saves \in 0..MaxSaves
  /\ changed \in BOOLEAN /\ unheardSave \in BOOLEAN /\ tornLoad \in BOOLEAN /\ saveFailed \in BOOLEAN

\* A running worker that has taken what was pushed to it goes by the settings of the app
\* -- but for what the pipeline is built from, which stays as it was when the worker
\* loaded (SettingsReachPipeline); for a save that fell before the app had the channel,
\* until the next save; and for a file read in the middle of a save.  A worker that parked
\* has been sent nothing, and the user is told, or is about to be.  And between saves, but
\* for one that failed, the next start will load what the app has now.
SettingsApply ==
  /\ saving = "no" /\ ~saveFailed => LoadFrom = config
  /\ worker = "running" /\ settings = <<>> /\ ~unheardSave =>
       session = config \/ tornLoad
  /\ worker = "running" =>
       pipeline = PipelineFor(config, openaiKey) \/ changed \/ tornLoad
  /\ worker # "running" => settings = <<>> /\ ~workerConfig
  /\ worker = "parked" => reports # <<>> \/ needsModel \/ lastError
  /\ needsModel => IsMissingWhisperModel(config) \/ changed \/ tornLoad

\* "the app pushes every saved `Config` back in (`WorkerEvent::Ready`) so a settings change
\* applies to the very next dictation" (worker/mod.rs): once the running worker has taken
\* what was saved, dictation goes by all of it, the pipeline included.
SettingsReachPipeline ==
  worker = "running" /\ settings = <<>> /\ ~unheardSave /\ ~tornLoad =>
    pipeline = PipelineFor(config, openaiKey)
=============================================================================
