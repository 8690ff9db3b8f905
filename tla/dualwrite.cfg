SPECIFICATION LiveSpec
CONSTANTS
  b1 = b1
  s1 = s1
  Inserts <- BatchedAndSynced
  Opaque <- OneSynced
  Synced <- OneSynced
  Faults = {"live", "backup"}
  MaxEnds = 2
INVARIANTS
  TypeOK
  AcceptedIsSafe
  BackupMisses
  SyncReachesBackupAfterLive
PROPERTIES
  EarlyReachBoth
  EventuallyDelivered
\* Every insert is answered and settled.
CHECK_DEADLOCK FALSE
