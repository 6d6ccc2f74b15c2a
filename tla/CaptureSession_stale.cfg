SPECIFICATION Spec
CONSTANTS
  usb = usb
  DefaultDevice = default
  NoMonitor = NoMonitor
  NoCapture = NoCapture
  NoSpeech = NoSpeech
  Builtin = builtin
  Mics = {usb}
  Settings <- UsbOnly
  InitialSetting <- UsbMonitored
  CanFail = FALSE
  Hotplug = TRUE
  Pause = 1
  MaxHolds = 2
  MaxUtterances = 3
  MaxSaves = 1
  MaxPending = 1
PROPERTIES PrerollIsRecent
