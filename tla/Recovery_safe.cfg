SPECIFICATION RecoverySpec
CONSTANTS
  Callers <- AllCallers
  MaxIterations = 4
  InitialBudget <- SmallBudget
  MaxEdits = 1
  NoObs = NoObs
  NoReceipt = NoReceipt
INVARIANT LoopActsOnReceipt
INVARIANT RetriesBounded
INVARIANT RestartAccountsForWork
CHECK_DEADLOCK FALSE
