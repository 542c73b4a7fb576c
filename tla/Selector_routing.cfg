SPECIFICATION Spec
CONSTANTS
  k1 = k1
  k2 = k2
  m1 = m1
  Keys = {k1, k2}
  Methods = {m1}
  Upserts <- SomeUpserts
  Heights = {0, 4}
  Gateways <- SomeGateways
  Blocks = {0, 1}
  DefaultWeight = 2
  StateWindow = 3
  NoHeight = NoHeight
  NoNode = NoNode
  NoCall = NoCall
INVARIANTS
  TypeOK
  UniqueKeys
  
  DrawIsProportional
PROPERTY ReturnsEligibleNode
