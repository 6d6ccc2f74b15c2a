SPECIFICATION BootSpec
CONSTANTS
  MaxSaves = 1
CHECK_DEADLOCK FALSE
INVARIANTS SettingsReachPipeline
