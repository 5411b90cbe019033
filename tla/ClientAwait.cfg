SPECIFICATION Spec
CONSTANTS
  Calls = {c1, c2}
  Queries = {q1}
  HasCache = TRUE
  MaxVersion = 2
  MaxEvents = 2
SYMMETRY Interchangeable
CHECK_DEADLOCK FALSE
INVARIANTS
  CacheAndNetworkFetches
