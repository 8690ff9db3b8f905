SPECIFICATION LiveSpec
CONSTANTS
  r1 = r1
  r2 = r2
  r3 = r3
  Records <- ThreeRecords
  LongRecords <- OneLong
  HugeRecords <- None
  MaxPending = 2
  CompactMinAcks = 2
  Faults = {"write", "sync", "ack", "compact"}
INVARIANTS
  TypeOK
  Durable
  NoResurrection
  FreshIDs
  PendingCountExact
PROPERTIES
  ImplementsDurableAccept
  EventuallyStored
