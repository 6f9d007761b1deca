CONSTANTS
  ann = ann
  bob = bob
  cid = cid
  sword = sword
  shield = shield
  ward = ward
  None = None
  Players <- Trio
  Items <- Goods
  Spells <- Wards
  TradedCount = 1
  MaxMoney = 1
  Space = 1
  InitGold = 1
  MaxChanges = 1
  MaxPending = 1
SYMMETRY Alike
SPECIFICATION Spec
INVARIANTS
  TradeTypeOK
  TradeSymmetric
  AcceptedAsShown
  DbMintsNothing
PROPERTIES
  FairExchange
