SPECIFICATION FairSpec
CONSTANTS
  usb = usb
  DefaultDevice = default
  NoMonitor = NoMonitor
  NoCapture = NoCapture
  NoSpeech = NoSpeech
  Builtin = builtin
  Mics = {usb}
  Settings <- MovingSettings
  InitialSetting <- UsbMonitored
  CanFail = TRUE
  Hotplug = TRUE
  Pause = 1
  MaxHolds = 2
  MaxUtterances = 1
  MaxSaves = 2
  MaxPending = 1
INVARIANTS TypeOK MicOnlyWhileHeld MicPrivacyHonoured
PROPERTIES CaptureNeverReplaced KeepsMicrophone PrerollFromSameMicrophone MicPrivacyApplies
