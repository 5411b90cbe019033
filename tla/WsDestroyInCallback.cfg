SPECIFICATION Spec
CONSTANTS
  Subs = {s1, s2}
  NoId = noId
  MaxConns = 1
  MaxReady = 3
  MaxHeld = 1
  LateTimer = FALSE
  DestroyedIn = {"terminal"}
SYMMETRY Interchangeable
CHECK_DEADLOCK FALSE
INVARIANTS
  NoDanglingIterator
