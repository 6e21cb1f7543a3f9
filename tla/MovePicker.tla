----------------------------- MODULE MovePicker -----------------------------
(***************************************************************************)
(* What a search expects of the move ordering, whatever the order: asked   *)
(* again and again, it returns each move that must be tried once, and then *)
(* the null move.                                                          *)
(***************************************************************************)
EXTENDS Sequences

CONSTANT Moves  \* every move there is

VARIABLES
  wanted,      \* the moves that must be tried
  given,       \* the moves returned, in their order
  ended        \* the null move has been returned

vars == <<wanted, given, ended>>

Given == {given[k] : k \in DOMAIN given}

Init ==
  /\ wanted \in SUBSET Moves
  /\ given = <<>>
  /\ ended = FALSE

Return(m) ==
  /\ ~ended
  /\ m \in wanted \ Given
  /\ given' = Append(given, m)
  /\ UNCHANGED <<wanted, ended>>

ReturnNull ==
  /\ ~ended
  /\ wanted \subseteq Given
  /\ ended' = TRUE
  /\ UNCHANGED <<wanted, given>>

Next == ReturnNull \/ \E m \in Moves : Return(m)

Spec == Init /\ [][Next]_vars
=============================================================================
