SPECIFICATION Spec
CONSTANTS
  MaxInt = 15
  Limits <- NoLimit
  Sizes <- SmallSizes
  BatchLists <- SomeLists
INVARIANTS
  QueriesAreProxied
\* The request is answered.
CHECK_DEADLOCK FALSE
