SPECIFICATION SecretsSpec
CONSTANTS
  ApiKeys = {openai, deepgram}
  HfToken = hf
  CanFail = TRUE
  MaxValues = 3
  MaxSettings = 1
INVARIANTS FileIsNewer
