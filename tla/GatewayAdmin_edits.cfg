SPECIFICATION Spec
CONSTANTS
  h1 = h1
  h2 = h2
  k1 = k1
  k2 = k2
  m1 = m1
  absent = absent
  Handlers = {h1, h2}
  Keys = {k1, k2}
  Methods = {m1}
  Weights = {0, 100}
  DefaultWeight = 100
  Ops <- EditOps
  Absent = absent
  MaxRev = 5
SYMMETRY Symmetry
INVARIANTS
  TypeOK
  AddReplacesNothing
  ConfigIsNormal
PROPERTY EditsAreAtomic
CHECK_DEADLOCK FALSE
