SPECIFICATION FairSpec
CONSTANTS
  Client <- Clients
  Inputs <- Streams
  BUFSIZE = 4
  MINCHARS = 2
  MAXCHARS = 3
  MaxQuits = 1
INVARIANTS
  BufTypeOK
  NoLineLeftBehind
PROPERTIES
  FramingSpec
  EveryoneServed
CHECK_DEADLOCK FALSE
