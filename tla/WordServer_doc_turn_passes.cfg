SPECIFICATION Spec
CONSTANTS
  Letter <- Letters
  Words <- Dictionary
  MAX_GUESSES = 1
  MAX_MSG = 128
  Fd = {1, 2}
  MAX_QUEUE = 1
  MAX_WORD = 5
  MAX_NAME = 6
  Char <- Chars
  Messages <- OneLine
  MaxConnects = 2
  MaxSends = 2
  MaxDrops = 1
  MaxStalls = 0
INVARIANT
  TurnMovesOn
CHECK_DEADLOCK FALSE
