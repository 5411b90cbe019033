SPECIFICATION Spec
CONSTANTS
  Subs = {s1}
  NoId = noId
  MaxConns = 7
  MaxReady = 3
  MaxHeld = 1
  LateTimer = FALSE
  DestroyedIn = {}
CHECK_DEADLOCK FALSE
PROPERTIES
  RetriesAreBounded
