SPECIFICATION Spec
CONSTANTS
  i1 = i1
  i2 = i2
  i3 = i3
  Nothing = Nothing
  Inserts <- One
  FlushCount = 2
  Journaled = FALSE
  Ends <- SignalEnds
INVARIANTS
  DrainedAtExit
\* The process exits.
CHECK_DEADLOCK FALSE
