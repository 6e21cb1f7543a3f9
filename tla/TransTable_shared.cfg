SPECIFICATION Spec
CONSTANTS
  k1 = k1
  k2 = k2
  k3 = k3
  Workers = {w1, w2}
  Keys <- MCTwoKeys
  Slots = {1}
  Index <- MCOneSlot
  Types = {exact}
  Exact = exact
  Bests = {b1}
  Depths <- MCShallow
  Policies = {"always", "pv", "depth"}
  Byte = 4
  NoEntry = NoEntry
  NoReply = NoReply
  NoArg = NoArg
SYMMETRY MCSymmetry
PROPERTIES
  CacheSpec
  DepthPrefered
CHECK_DEADLOCK FALSE
