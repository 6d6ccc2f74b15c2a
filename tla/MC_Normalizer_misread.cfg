SPECIFICATION NormalizerSpec
CONSTANTS
  Speeches <- MisreadSpeeches
CHECK_DEADLOCK FALSE
INVARIANTS DigitsAsMeant
