SPECIFICATION Spec
CONSTANTS
  lint = lint
  test = test
  Commands <- TwoCommands
  MaxMoves = 2
  Texts <- UpToTwoWords
INVARIANT CompletedIsProved
INVARIANT ReviewIsDecided
INVARIANT ReceiptMeansCompleted
CHECK_DEADLOCK FALSE
