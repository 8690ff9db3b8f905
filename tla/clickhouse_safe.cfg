SPECIFICATION LiveSpec
CONSTANTS
  q1 = q1
  q2 = q2
  s1 = s1
  h1 = h1
  h2 = h2
  NoOne = NoOne
  Queued <- OneQueued
  Synced <- OneSynced
  Servers <- TwoServers
  Readers <- Both
  Faults <- EveryFault
  MaxDumpFiles = 1
INVARIANTS
  TypeOK
  AckedUnlessLogged
  Conserved
  FlushedWhenDone
PROPERTIES
  NoServerTwice
  SettlesUnlessCrossed
\* Every request has been given; or the two locks are waited for in a circle.
CHECK_DEADLOCK FALSE
