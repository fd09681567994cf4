SPECIFICATION Spec
CONSTANTS
  MaxProcs = 4
  MaxForkFaults = 1
  MAX_PASSWORD = 2
  MAXLINE = 8
  Char = {"a", "b", "c"}
  Ids <- TypedNames
  Passwords <- TypedNames
  MaxLines = 2
  MaxPassFaults = 1
  MaxReads = 4
  INT_MAX = 3
  MaxLength = 5
INVARIANTS
  OutputDetermined
  VerdictTrue
  CountReported
  AsDescribed
PROPERTY
  ProgramsEnd
CHECK_DEADLOCK FALSE
