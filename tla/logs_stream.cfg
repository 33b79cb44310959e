\* A game that writes, closes its streams, leaves heirs and ends; Ctrl-C at any time.
CONSTANTS
  MaxLines = 2
  MayInherit = TRUE
SPECIFICATION LogsSpec
INVARIANTS PrintsWhatWasWritten LeavesNothingBehind
PROPERTIES EndsWithTheGame
