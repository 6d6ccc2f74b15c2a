SPECIFICATION FairTasksSpec
CONSTANTS
\* HotkeyListener
  MinHold = 2
  DoublePressWindow = 3
  RawCapacity = 1
  ActionCapacity = 1
  MaxTime = 4
  MaxUnread = 2
\* Transcription
  OutputCapacity = 2
  BackendsFail = TRUE
  MaxChunks = 2
  MaxJobs = 1
\* Secrets
  ApiKeys = {openai, deepgram}
  HfToken = hf
  CanFail = TRUE
  MaxValues = 3
  MaxSettings = 1
INVARIANTS
  TypeOK HoldsAlternate
  TranscriptionTypeOK AnswersInOrder AnswersBeforeNextTurn
  SecretsTypeOK NoPlaintextLeft
PROPERTIES
  ImplementsHoldStream RecordingEnds TapsAreDiscarded StartsAreApart
  EveryChunkAnswered TraySettles
  SecretsKept
