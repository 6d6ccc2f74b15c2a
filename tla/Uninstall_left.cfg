SPECIFICATION UninstallSpec
CONSTANTS
  KnownBackends = {openai}
  OtherBackends = {groq}
  NoConfig = noconfig
  Torn = torn
CHECK_DEADLOCK FALSE
INVARIANTS NoSecretLeft
