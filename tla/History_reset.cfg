SPECIFICATION HistorySpec
CONSTANTS
  CallsFail = TRUE
  MaxEntries = 3
  MaxSwitches = 2
  MaxOtherSaves = 1
  MaxCrashes = 2
  MaxRuns = 2
CHECK_DEADLOCK FALSE
INVARIANTS EncryptedAtRest
