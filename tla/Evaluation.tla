---------------------------- MODULE Evaluation -----------------------------
(***************************************************************************)
(* The leaves of the search (src/src/eval.c): eval, the material and the   *)
(* square tables seen from the side to move.                               *)
(*                                                                         *)
(* A position is the squares of each kind of piece for each colour, whose  *)
(* turn it is, and what the chess library says of it: is_draw,             *)
(* is_checkmate and is_stalemate.  The square tables are a constant.       *)
(***************************************************************************)
EXTENDS Geometry, FiniteSetsExt

CONSTANTS
  SquareTable, \* kind of piece and 8x8 square to a score
  Leaves       \* the positions that may be scored

VARIABLE scored  \* the positions eval has been called with

Kinds == {"pawn", "knight", "light_bishop", "dark_bishop", "rook", "queen"}
Colours == {"white", "black"}
Other(colour) == IF colour = "white" THEN "black" ELSE "white"

DRAW_SCORE_CENTIPAWNS == 0
CHECKMATE_SCORE_CENTIPAWNS == -16384
STALEMATE_SCORE_CENTIPAWNS == 0

Value(kind) ==
  CASE kind = "pawn"   -> 100
    [] kind = "knight" -> 320
    [] kind \in {"light_bishop", "dark_bishop"} -> 330
    [] kind = "rook"   -> 500
    [] kind = "queen"  -> 900

\* Mutant: the board is turned round, so the files change places as well.
TurnedSquare(sq) == rankfile_to_sq0x88(7 - rank07(sq), 7 - file07(sq))

flipped_square(sq) == rankfile_to_sq0x88(7 - rank07(sq), file07(sq))

\* Black's squares are looked up as if Black played up the board.
Placed(position, colour, kind) ==
  SumFunction([sq \in position[colour][kind] |->
    SquareTable[kind][sq0x88_to_sq8x8(IF colour = "white" THEN sq ELSE flipped_square(sq))]])

material_score(position) ==
  LET score == SumFunction([kind \in Kinds \union {"king"} |->
                 Placed(position, "white", kind) - Placed(position, "black", kind)])
  IN IF position.turn = "black" THEN -score ELSE score

eval(position) ==
  LET Count(colour, kind) == Cardinality(position[colour][kind]) IN
  CASE position.end = "draw"      -> DRAW_SCORE_CENTIPAWNS
    [] position.end = "checkmate" -> CHECKMATE_SCORE_CENTIPAWNS
    [] position.end = "stalemate" -> STALEMATE_SCORE_CENTIPAWNS
    [] OTHER ->
         SumFunction([kind \in Kinds |->
           (Count(position.turn, kind) - Count(Other(position.turn), kind)) * Value(kind)])
         + material_score(position)

----------------------------------------------------------------------------
(* What games of chess lead to: a king each, and of the eight pawns each some  *)
(* that have been promoted to pieces beyond those of the first position.       *)

FirstCount(kind) ==
  CASE kind \in {"knight", "rook"} -> 2
    [] kind \in {"light_bishop", "dark_bishop", "queen"} -> 1
    [] kind = "pawn" -> 0

IsSide(side) ==
  /\ side \in [Kinds \union {"king"} -> SUBSET Board]
  /\ \E sq \in Board : side["king"] = {sq}
  /\ SumFunction([kind \in Kinds |->
       IF Cardinality(side[kind]) > FirstCount(kind)
         THEN Cardinality(side[kind]) - FirstCount(kind) ELSE 0]) <= 8

IsLeaf(position) ==
  /\ position = [white |-> position.white, black |-> position.black,
                 turn |-> position.turn, end |-> position.end]
  /\ IsSide(position.white) /\ IsSide(position.black)
  /\ position.turn \in Colours
  /\ position.end \in {"none", "draw", "checkmate", "stalemate"}

\* The square tables of src/include/eval.h are within these bounds.
ASSUME EvaluationAssumption ==
  /\ SquareTable \in [Kinds \union {"king"} -> [0..63 -> -200..200]]
  /\ \A kind \in Kinds, sq \in 0..63 : SquareTable[kind][sq] >= -100
  /\ \A position \in Leaves : IsLeaf(position)

----------------------------------------------------------------------------
\* The position seen in a mirror that lies between the two players.
Image(sq) == 112 - (sq - (sq % 16)) + (sq % 16)
Mirrored(position) ==
  LET Side(side) == [kind \in Kinds \union {"king"} |-> {Image(sq) : sq \in side[kind]}]
  IN [white |-> Side(position.black), black |-> Side(position.white),
      turn |-> Other(position.turn), end |-> position.end]

\* The search negates a score whenever the turn changes.  So a score may not
\* depend on which colour has the move in mirrored positions, and giving the
\* turn to the other side must negate it; and however many pawns have been
\* promoted it stays below the score of a mate.
EvalSymmetric(position) ==
  /\ eval(Mirrored(position)) = eval(position)
  /\ position.end = "none" =>
       /\ eval([position EXCEPT !.turn = Other(@)]) = -eval(position)
       /\ Abs(eval(position)) < -CHECKMATE_SCORE_CENTIPAWNS

\* The two sides judge mirrored positions alike (eval.c, eval).
ScoresSymmetric == \A position \in scored : EvalSymmetric(position)
=============================================================================
