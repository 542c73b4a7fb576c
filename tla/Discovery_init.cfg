CONSTANTS
  n1 = n1
  n2 = n2
  h1 = h1
  v1 = v1
  v2 = v2
  bad = bad
  Keys = {n1, n2}
  KindOf <- TwoNodes
  Values = {v1}
  Malformed <- AllDecode
  NoVal = NoVal
  Cap = 1
  MaxChanges = 2
  MaxFaults = 0
SPECIFICATION FairSpec
PROPERTY InitReturns
CHECK_DEADLOCK FALSE
