SPECIFICATION FairSpec
CONSTANTS
  Subs = {s1, s2}
  NoId = noId
  MaxConns = 2
  MaxReady = 2
  MaxHeld = 1
  LateTimer = FALSE
  DestroyedIn = {"thread"}
CHECK_DEADLOCK FALSE
PROPERTIES
  EverySubscriptionRuns
  CancelReachesServer
  StopReturns
