CONSTANTS
  k1 = k1
  a0 = a0
  a1 = a1
  a2 = a2
  a3 = a3
  Keys = {k1}
  Addrs = {a0, a1, a2}
  Unbuildable = {}
  ZeroAddr = a0
  Updates <- StableUpdates
  NoNode = NoNode
  ChannelCap = 2
  MaxEvents = 3
SPECIFICATION Spec
INVARIANT DeleteRemoves
CHECK_DEADLOCK FALSE
