SPECIFICATION Spec
CONSTANTS
  c1 = c1
  c2 = c2
  c3 = c3
  p1 = p1
  p2 = p2
  p3 = p3
  h1 = h1
  h2 = h2
  Contenders = {c1, c2, c3}
  Pids = {p1, p2, p3}
  PidOf <- MCPidOfShared
  Hosts = {h1, h2}
  HostOf <- MCTwoHosts
  HostQualified = TRUE
  PsUnknown = {}
  Stamps = {1, 2}
  Retries = 2
  NoDir = NoDir
  NoInfo = NoInfo
INVARIANTS
  ExclusiveUnlessEscape
CONSTRAINT NoEscapeYet
CHECK_DEADLOCK FALSE
