SPECIFICATION FairSpec
CONSTANTS
  MAX_CONNECTIONS = 3
  MAX_BACKLOG = 1
  Fd = {1, 2, 3, 4}
  MaxConnects = 5
  MaxSends = 5
  MaxDrops = 2
  MaxStalls = 1
INVARIANTS
  RoomAgrees
  EveryoneHears
  StaysUp
PROPERTY
  MessagesAreRead
CHECK_DEADLOCK FALSE
