SPECIFICATION LiveSpec
CONSTANTS
  worker = worker
  replay = replay
  sync = sync
  Callers <- Three
  Rps = 2
  Burst = 0
  Second = 6
  MinSleep = 1
  History = 4
INVARIANTS
  TypeOK
  WithinBucket
PROPERTIES
  EveryoneGetsThrough
