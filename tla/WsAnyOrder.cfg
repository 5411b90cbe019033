SPECIFICATION Spec
CONSTANTS
  Subs = {s1, s2}
  NoId = noId
  MaxConns = 3
  MaxReady = 3
  MaxHeld = 1
  LateTimer = TRUE
  DestroyedIn = {"thread", "next", "terminal"}
SYMMETRY Interchangeable
CHECK_DEADLOCK FALSE
INVARIANTS
  TransportMatchesState
  NobodyStranded
  NoLostSubscriber
  NoZombieSubscription
  StopSettlesAll
PROPERTIES
  KeepsContract
