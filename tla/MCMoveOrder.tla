---------------------------- MODULE MCMoveOrder ----------------------------
(* A small instance of MoveOrder.  The gains are those of real exchanges: a   *)
(* king takes a pawn, a queen takes a queen; a plain promotion to a knight,   *)
(* and one to a queen that captures a queen.                                  *)
EXTENDS MoveOrder, TLC

MCCaptureGains == {100 - 10400, 900 - 900}
MCPromotionGains == {0 + 320, 900 + 900}
MCHistories == {0, 2048}

MCSymmetry == Permutations(QuietMoves)
=============================================================================
