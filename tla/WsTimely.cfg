SPECIFICATION Spec
CONSTANTS
  Subs = {s1, s2}
  NoId = noId
  MaxConns = 3
  MaxReady = 3
  MaxHeld = 2
  LateTimer = FALSE
  DestroyedIn = {"thread", "next", "terminal"}
SYMMETRY Interchangeable
CHECK_DEADLOCK FALSE
INVARIANTS
  SingleConnection
  WireProtocol
  AllSubscribed
  NoOrphanOperation
  EventsReachSubscribers
  SendsAreTimely
PROPERTIES
  StopClosesSockets
