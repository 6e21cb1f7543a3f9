SPECIFICATION Spec
CONSTANTS
  k1 = k1
  k2 = k2
  k3 = k3
  Workers = {w1}
  Keys <- MCTwoKeys
  Slots = {1}
  Index <- MCOneSlot
  Types = {exact}
  Exact = exact
  Bests = {b1}
  Depths <- MCSigned
  Policies = {"depth"}
  Byte = 256
  NoEntry = NoEntry
  NoReply = NoReply
  NoArg = NoArg
PROPERTIES
  DepthPrefered
CHECK_DEADLOCK FALSE
