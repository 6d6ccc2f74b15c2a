SPECIFICATION Spec
CONSTANTS
  usb = usb
  DefaultDevice = default
  NoMonitor = NoMonitor
  NoCapture = NoCapture
  NoSpeech = NoSpeech
  Builtin = builtin
  Mics = {usb}
  Settings <- OnlyAutoSending
  InitialSetting <- AutoSending
  CanFail = TRUE
  Hotplug = FALSE
  Pause = 1
  MaxHolds = 2
  MaxUtterances = 3
  MaxSaves = 1
  MaxPending = 1
PROPERTIES RemainderIsSilence
