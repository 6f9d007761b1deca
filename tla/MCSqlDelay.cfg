CONSTANTS
  world = world
  other = other
  None = None
  Clients <- TwoClients
  World = world
  MaxOps <- TwoAndOne
  MaxStmts = 2
SPECIFICATION Spec
INVARIANTS
  SqlTypeOK
  ReadYourWrites
PROPERTIES
  ImplementsDelayQueue
  QueriesAnswered
  HaltFlushes
