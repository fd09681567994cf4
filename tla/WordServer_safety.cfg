SPECIFICATION Spec
CONSTANTS
  Letter <- Letters
  Words <- Dictionary
  MAX_GUESSES = 1
  MAX_MSG = 128
  Fd = {1, 2, 3}
  MAX_QUEUE = 1
  MAX_WORD = 5
  MAX_NAME = 6
  Char <- Chars
  Messages <- OneLine
  MaxConnects = 3
  MaxSends = 4
  MaxDrops = 2
  MaxStalls = 0
INVARIANTS
  ServerTypeOK
  NoLeak
  TurnHeld
  NamelessDoNotPlay
  EveryoneInformed
  StaysUp
PROPERTY
  HangmanSpec
CHECK_DEADLOCK FALSE
