SPECIFICATION Spec
CONSTANTS
  Letter <- Letters
  Dictionaries <- Lists
  MAX_CHOICE = 3
INVARIANTS
  WheelTypeOK
  NeverContradicts
PROPERTIES
  EvasiveSpec
  RoundAdvances
CHECK_DEADLOCK FALSE
