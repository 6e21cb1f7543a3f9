---------------------------- MODULE MCRootSearch ----------------------------
(* Small instances of RootSearch: two or three moves, and every way their     *)
(* scores, exact, open by one or unknown, can change from one iteration to    *)
(* the next.                                                                  *)
EXTENDS RootSearch, TLC

MCRanges == {v \in [low : Scores, high : Scores] : v.high - v.low \in 0 .. 1} \union {Widest}
MCSymmetry == Permutations(Moves)
=============================================================================
