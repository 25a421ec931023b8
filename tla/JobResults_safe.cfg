SPECIFICATION FairSpec
CONSTANTS
  i1 = i1
  i2 = i2
  None = None
  Ids = {i1, i2}
  MaxJobs = 2
  MaxQueue = 1
  MaxAttempts = 2
  MaxFaults = 1
  MaxEras = 2
INVARIANTS
  NoResultLost
PROPERTIES
  NoEcho
  StaysInItsContext
  ResultsArrive
CHECK_DEADLOCK FALSE
