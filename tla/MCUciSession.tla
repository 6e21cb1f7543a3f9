----------------------------- MODULE MCUciSession ----------------------------
(* A game that ends after one, two or three plies. *)
EXTENDS UciSession

CONSTANTS p0, p1, p2, p3, p4

MCPrograms == {"botvbot", "testbot", "chess"}
MCPositions == {p0, p1, p2, p3, p4}
MCSucc == [p \in MCPositions |-> CASE p = p0 -> {p1, p2} [] p = p1 -> {p3, p4}
                                   [] p = p3 -> {p4} [] OTHER -> {}]
=============================================================================
