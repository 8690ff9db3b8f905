SPECIFICATION LiveSpec
CONSTANTS
  p1 = p1
  p2 = p2
  p3 = p3
  o1 = o1
  k1 = k1
  k2 = k2
  NoTable = NoTable
  NoOne = NoOne
  Inserts <- AllInserts
  Opaque <- OneOpaque
  Journaled <- AllInserts
  Keys <- TwoKeys
  KeyOf <- KeyOfAll
  RowsOf <- RowsOfAll
  FlushCount = 3
  FlushInterval = 1
  CleanInterval = 1
  MaxTables = 3
INVARIANTS
  TypeOK
  Conserved
  BatchAcksItsRows
  OneTimerPerTable
PROPERTIES
  EverySent
