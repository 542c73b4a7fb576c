SPECIFICATION Spec
CONSTANTS
  h1 = h1
  h2 = h2
  k1 = k1
  k2 = k2
  m1 = m1
  absent = absent
  Handlers = {h1, h2}
  Keys = {k1, k2}
  Methods = {m1}
  Weights = {0, 100}
  DefaultWeight = 100
  Ops <- NodeOps
  Absent = absent
  MaxRev = 4
INVARIANT OfficialIsKept
CHECK_DEADLOCK FALSE
