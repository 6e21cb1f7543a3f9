SPECIFICATION Spec
CONSTANTS
  Moves = {m1, m2, m3}
  N = 3
  MaxScore = 2
  Ranges <- MCRanges
SYMMETRY MCSymmetry
INVARIANTS
  EveryMoveOnce
  SortedPrefix
  BestOfSearched
  PreviousKept
CHECK_DEADLOCK FALSE
