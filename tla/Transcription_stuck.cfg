SPECIFICATION FairTranscriptionSpec
CONSTANTS
  OutputCapacity = 2
  BackendsFail = TRUE
  MaxChunks = 1
  MaxJobs = 0
PROPERTIES TraySettlesAlways
