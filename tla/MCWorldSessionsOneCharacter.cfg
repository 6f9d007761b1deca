SPECIFICATION Spec
CONSTANTS
  k1 = k1
  k2 = k2
  k3 = k3
  None = None
  Sockets <- TwoSockets
  MaxRecv = 1
  MaxLogins = 2
  MaxKicks = 1
INVARIANT
  OneOnlineCharacter
CHECK_DEADLOCK FALSE
