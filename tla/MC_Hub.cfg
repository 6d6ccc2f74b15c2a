\* Speakers
CONSTANTS
  Reach = 2
  MarginStep = 1
  MarginCap = 1
  Voices = {0, 1, 3}
  Names = {"ann"}
  MaxTurns = 3
  MaxScans = 1
  MaxEdits = 1
\* ModelStore, ModelSearch, HfLogin
  Models = {m1}
  UserDirs = {d1, d2}
  DefaultDir = dd
  MaxOps = 5
  Queries = {"a", "b"}
  Repos = {r1, r2}
  NoRepo = norepo
  MaxRequests = 4
  MaxLogins = 2
  MaxChecks = 1
  MaxStrays = 1
\* WorkerBoot
  MaxSaves = 2
\* Delivery
  MaxUtterances = 2
  MaxCopies = 2
\* Devices
  Devices = {usb, headset}
  NoDevice = nodevice
  OtherNotice = othernotice
  ChangeSlots = 1
\* Rolling, Normalizer
  WindowSecs = 6
  OverlapSecs = 2
  LastStart = 8
  Timelines <- MCTimelines
  Answers <- MCAnswers
  Speeches <- MCSpeeches
\* Uninstall
  KnownBackends = {openai}
  OtherBackends = {groq}
  NoConfig = noconfig
  Torn = torn
\* LocalRefiner, Clip
  Pipelines = {worker, file}
  RefineTimeout = 3
  LoadTicks = 1
  Needs = {1, 3}
  MaxGens = 3
  Recordings <- MCRecordings
  Rates = {1, 2}
  WindowLen = 2
  MinKeep = 3
  SilenceThreshold = 4
  VadThresholds = {1, 9}
  ClipStarts = {0, 3}
SPECIFICATION HubSpec
INVARIANTS
  HubTypeOK
  SpeakersFit
  ModelsTabFits
  DeliveryFits
  SettingsFit
  StartsInOrder WordsOnce
  WrittenAsMeant FallsBackForAReason
  ClipFits
  SetupFits
CHECK_DEADLOCK FALSE
