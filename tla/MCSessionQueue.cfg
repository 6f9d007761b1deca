CONSTANTS
  gm1 = gm1
  gm2 = gm2
  p1 = p1
  p2 = p2
  None = None
  Accounts <- Four
  GameMasters <- Masters
  Limits <- SomeLimits
  MaxChanges = 2
SPECIFICATION Spec
INVARIANTS
  SessionQueueTypeOK
  WaitsOnlyWhenFull
  ToldPlace
PROPERTIES
  AdmitsWithinLimit
  QueueAdvances
