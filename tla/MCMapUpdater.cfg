SPECIFICATION FairSpec
CONSTANTS
  c1 = c1
  i1 = i1
  i2 = i2
  w1 = w1
  w2 = w2
  NoMap = NoMap
  Maps <- MCMaps
  Continents <- MCContinents
  Workers <- MCWorkers
INVARIANTS
  TypeOK
  PendingExact
  NoDanglingMap
  OneThreadPerMap
  NoNullRequest
PROPERTIES
  ImplementsTick
  TickEnds
  ShutdownEnds
