SPECIFICATION TSpec
CONSTANTS
  c1 = c1
  c2 = c2
  i1 = i1
  w1 = w1
  w2 = w2
  t1 = t1
  t2 = t2
  NoMap = NoMap
  Maps <- MCMaps
  Continents <- MCContinents
  Workers <- MCWorkers
  Transports <- MCTransports
INVARIANTS
  TransportTypeOK
  TransportInOnePlace
PROPERTIES
  OwnThreadOnly
  OneHopPerTick
  TransportArrives
