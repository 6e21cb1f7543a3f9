SPECIFICATION Spec
CONSTANTS
  k1 = k1
  k2 = k2
  k3 = k3
  Workers = {w1}
  Keys <- MCThreeKeys
  Slots = {1, 2}
  Index <- MCTwoSlots
  Types = {exact}
  Exact = exact
  Bests = {b1}
  Depths <- MCWholeRange
  Policies = {"depth"}
  Byte = 4
  NoEntry = NoEntry
  NoReply = NoReply
  NoArg = NoArg
INVARIANTS
  SettledSlots
PROPERTIES
  DeeperStays
  TableSpec
CHECK_DEADLOCK FALSE
