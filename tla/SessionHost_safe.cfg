SPECIFICATION FairSpec
CONSTANTS
  fs = fs
  n1 = n1
  n2 = n2
  d1 = d1
  d2 = d2
  r1 = r1
  None = None
  Capabilities = {fs}
  Connections = {n1, n2}
  Definitions = {d1, d2}
  Requests = {r1}
  MaxOutstanding = 1
  MaxLeases = 2
  RingSize = 1
  MaxEvents = 2
  MaxGenerations = 2
  MaxActivations = 1
INVARIANTS
  LiveLeaseIsInstalled
  RequestsFollowLease
  ReplayIsComplete
PROPERTIES
  HolderDecides
  ReadyIsAuthorized
  LapsedIsRemoved
  TeardownSettles
CHECK_DEADLOCK FALSE
