SPECIFICATION FairSpec
CONSTANTS
  c1 = c1
  m1 = m1
  t1 = t1
  t2 = t2
  Inbound <- OneCommand
  Outbound <- OneMessage
  Tasks <- TwoTasks
  MaxTerminal = 1
  Absent = Absent
  NoEffect = NoEffect
  MaxDeliveries = 3
  MaxFaults = 1
  MaxTries = 1
INVARIANTS
  OneHolder
  SentOnceUnlessExpired
  ReceiptHasEffect
  WorkIsScheduled
PROPERTIES
  OpenIsKept
  EffectsSettle
CHECK_DEADLOCK FALSE
