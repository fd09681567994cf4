SPECIFICATION GameSpec
CONSTANTS
  Letter <- Letters
  Words <- Dictionary
  MAX_GUESSES = 4
  MAX_MSG = 128
INVARIANTS
  BoardIsTrue
  StatusFits
PROPERTIES
  GuessesProgress
  HangmanSpec
