SPECIFICATION FairSpec
CONSTANTS
  Letter <- Letters
  Words <- Dictionary
  MAX_GUESSES = 1
  MAX_MSG = 128
  Fd = {1, 2, 3}
  MAX_QUEUE = 1
  MAX_WORD = 5
  MAX_NAME = 6
  Char <- Chars
  Messages <- OneLine
  MaxConnects = 3
  MaxSends = 3
  MaxDrops = 2
  MaxStalls = 1
PROPERTIES
  LinesAreRead
  HandlersEnd
CHECK_DEADLOCK FALSE
