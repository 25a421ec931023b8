SPECIFICATION FairSpec
CONSTANTS
  o1 = o1
  o2 = o2
  Owners <- TwoOwners
  Blind <- OneBlind
  GcInside = FALSE
  MaxRenewals = 1
  NoLease = NoLease
  NoSocket = NoSocket
INVARIANTS
  HolderKeepsLease
  AuthorityIsLeased
  NoRenewalBesideRelease
  SocketLeadsToHolder
PROPERTIES
  ImplementsSingleOwner
  TeardownCompletes
  DeposedOwnerStops
CHECK_DEADLOCK FALSE
