SPECIFICATION Spec
CONSTANTS
  Subs = {s1, s2}
  NoId = noId
  MaxConns = 3
  MaxReady = 3
  MaxHeld = 1
  LateTimer = TRUE
  DestroyedIn = {}
SYMMETRY Interchangeable
CHECK_DEADLOCK FALSE
INVARIANTS
  SingleConnection
