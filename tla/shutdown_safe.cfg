SPECIFICATION LiveSpec
CONSTANTS
  i1 = i1
  i2 = i2
  i3 = i3
  Nothing = Nothing
  Inserts <- Three
  FlushCount = 2
  Journaled = TRUE
  Ends <- BothEnds
INVARIANTS
  TypeOK
  JournaledSurvives
  EarlyReachTheWorker
PROPERTIES
  Exits
\* The process exits.
CHECK_DEADLOCK FALSE
