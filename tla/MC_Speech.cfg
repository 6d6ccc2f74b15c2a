SPECIFICATION SpeechSpec
CONSTANTS
\* CaptureSession
  usb = usb
  DefaultDevice = default
  NoMonitor = NoMonitor
  NoCapture = NoCapture
  NoSpeech = NoSpeech
  Builtin = builtin
  Mics = {usb}
  Settings <- OnlyAutoSending
  InitialSetting <- AutoSending
  CanFail = FALSE
  Hotplug = FALSE
  Pause = 2
  MaxHolds = 3
  MaxUtterances = 4
  MaxSaves = 1
  MaxPending = 2
\* History
  CallsFail = TRUE
  MaxEntries = 2
  MaxSwitches = 2
  MaxOtherSaves = 1
  MaxCrashes = 1
  MaxRuns = 1
\* LinkImport
  Links = {l1, l2}
  NoLink = nolink
  Closed = closed
  NoDesk = nodesk
  Sample = sample
  MaxDialogs = 2
  MaxTasks = 3
SYMMETRY LinkSymmetry
CHECK_DEADLOCK FALSE
INVARIANTS
  SpeechTypeOK NothingIsLost SpeechInOrder
  EncryptedWhileOn NothingHidden
  LinkFits WavsRemoved
PROPERTIES EntriesKept
