SPECIFICATION Spec
CONSTANTS
  MaxInt = 15
  Limits <- SomeLimits
  Sizes <- SomeSizes
  BatchLists <- SomeLists
INVARIANTS
  TypeOK
  BodyIsWhole
  LimitHolds
  StatementDecides
\* The request is answered.
CHECK_DEADLOCK FALSE
