SPECIFICATION Spec
CONSTANTS
  MAX_CONNECTIONS = 3
  MAX_BACKLOG = 1
  Fd = {1, 2, 3}
  MaxConnects = 3
  MaxSends = 4
  MaxDrops = 1
  MaxStalls = 0
INVARIANT
  MessagesAreEchoed
CHECK_DEADLOCK FALSE
