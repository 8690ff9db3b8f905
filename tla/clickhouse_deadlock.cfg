SPECIFICATION LiveSpec
CONSTANTS
  q1 = q1
  q2 = q2
  s1 = s1
  h1 = h1
  h2 = h2
  NoOne = NoOne
  Queued <- TwoQueued
  Synced <- Nobody
  Servers <- OneServer
  Readers <- Replay
  Faults <- Nobody
  MaxDumpFiles = 0
PROPERTIES
  EveryRequestSettles
\* Every request has been given; or the two locks are waited for in a circle.
CHECK_DEADLOCK FALSE
