SPECIFICATION Spec
CONSTANTS
  r1 = r1
  r2 = r2
  r3 = r3
  Records <- TwoRecords
  LongRecords <- OneLong
  HugeRecords <- None
  MaxPending = 0
  CompactMinAcks = 2
  Faults = {}
INVARIANTS
  NeverFatal
