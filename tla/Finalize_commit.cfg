SPECIFICATION Spec
CONSTANTS
  lint = lint
  test = test
  Commands <- TwoCommands
  MaxMoves = 1
  Texts <- UpToTwoWords
INVARIANT ValidatedTheCommit
CHECK_DEADLOCK FALSE
