CONSTANTS
  k1 = k1
  a0 = a0
  a1 = a1
  a2 = a2
  a3 = a3
  Keys = {k1}
  Addrs = {a0, a1, a2, a3}
  Unbuildable = {a3}
  ZeroAddr = a0
  Updates <- AnyUpdates
  NoNode = NoNode
  ChannelCap = 2
  MaxEvents = 3
SPECIFICATION LoopSpec
INVARIANTS
  NoGhost
  LatestOrPending
PROPERTIES
  DowngradeTakesEffect
  Converges
CHECK_DEADLOCK FALSE
