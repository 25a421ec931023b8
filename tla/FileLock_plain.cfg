SPECIFICATION Spec
CONSTANTS
  c1 = c1
  c2 = c2
  c3 = c3
  p1 = p1
  p2 = p2
  p3 = p3
  h1 = h1
  h2 = h2
  Contenders = {c1, c2, c3}
  Pids = {p1, p2}
  PidOf <- MCPidOf
  Hosts = {h1, h2}
  HostOf <- MCOneHost
  HostQualified = FALSE
  PsUnknown = {}
  Stamps = {1, 2}
  Retries = 2
  NoDir = NoDir
  NoInfo = NoInfo
INVARIANTS
  ExclusiveUnlessEscape
  HeldLockIsOnDisk
  ReleaseFailsOnlyAfterEscape
CONSTRAINT NoEscapeYet
CHECK_DEADLOCK FALSE
