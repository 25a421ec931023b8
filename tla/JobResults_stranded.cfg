SPECIFICATION FairSpec
CONSTANTS
  i1 = i1
  i2 = i2
  None = None
  Ids = {i1}
  MaxJobs = 1
  MaxQueue = 1
  MaxAttempts = 2
  MaxFaults = 0
  MaxEras = 1
PROPERTIES
  DeliveredAutomatically
CHECK_DEADLOCK FALSE
