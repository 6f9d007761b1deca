SPECIFICATION Spec
CONSTANTS
  k1 = k1
  k2 = k2
  k3 = k3
  None = None
  Sockets <- ThreeSockets
  MaxRecv = 1
  MaxLogins = 1
  MaxKicks = 0
SYMMETRY SocketSymmetry
INVARIANTS
  SocketBacklink
  SessionsAlive
PROPERTIES
  NoOrphanConnection
CHECK_DEADLOCK FALSE
