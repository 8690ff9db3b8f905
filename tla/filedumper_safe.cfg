SPECIFICATION LiveSpec
CONSTANTS
  r1 = r1
  r2 = r2
  r3 = r3
  NoFile = NoFile
  Requests <- Three
  KindOf <- KindOfThree
  MaxDumpFiles = 2
  Base = 3
  MaxClock = 1
  Faults = {"write", "remove", "refuse", "crash"}
INVARIANTS
  TypeOK
  DumpedIsSafe
  PendingBounded
  LoopSendsOnce
PROPERTIES
  EverySent
\* With every request dumped and sent, nothing is left to do.
CHECK_DEADLOCK FALSE
