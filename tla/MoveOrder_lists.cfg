SPECIFICATION Spec
CONSTANTS
  CaptureMoves = {c1}
  PromotionMoves = {p1}
  QuietMoves = {q1, q2, q3}
  NullMove = NullMove
  Routines = {"next_move", "next_capture"}
  CaptureGains <- MCCaptureGains
  PromotionGains <- MCPromotionGains
  Histories <- MCHistories
SYMMETRY MCSymmetry
INVARIANTS
  NoisyFirst
PROPERTIES
  PickerSpec
  EveryStepCounts
CHECK_DEADLOCK FALSE
