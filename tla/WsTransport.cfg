SPECIFICATION FairSpec
CONSTANTS
  Tls = TRUE
  MaxSends = 4
  MaxArrivals = 3
CHECK_DEADLOCK FALSE
INVARIANTS
  WriteOwnsBuffer
  NothingSkipped
PROPERTIES
  KeepsContract
  MessagesSettle
  CloseSettles
