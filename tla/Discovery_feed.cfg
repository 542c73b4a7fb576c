CONSTANTS
  n1 = n1
  n2 = n2
  h1 = h1
  v1 = v1
  v2 = v2
  bad = bad
  Keys = {n1, h1}
  KindOf <- NodeAndHeight
  Values = {v1, v2, bad}
  Malformed <- BadFails
  NoVal = NoVal
  Cap = 1
  MaxChanges = 3
  MaxFaults = 1
SPECIFICATION FairSpec
INVARIANTS
  TypeOK
  ExactlyOnce
  UpToDate
  DeleteNamesDelivered
PROPERTIES
  ImplementsFeed
  CatchesUp
CHECK_DEADLOCK FALSE
