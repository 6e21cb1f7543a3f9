---------------------------- MODULE Repetition -----------------------------
(***************************************************************************)
(* The history of a position and is_repetition (src/src/eval.c), by which  *)
(* abSearch takes a position for a draw: the moves of the game, the worker *)
(* that starts its search from what they led to (src/src/worker.c), and    *)
(* the moves the search makes and takes back.                              *)
(*                                                                         *)
(* make_move and unmake_move are the chess library's.  Of the rules of     *)
(* chess, Move has what a history of positions is bound by: the turn       *)
(* passes, a player never leaves their own pieces as they were, and what   *)
(* an irreversible move has changed - pawns, captures, rights to castle -  *)
(* does not come back.                                                     *)
(***************************************************************************)
EXTENDS Integers, FiniteSets

CONSTANTS
  Keys,     \* the positions, by their zobrist keys
  Turn,     \* whose turn it is in each: 0 or 1
  Progress, \* how many irreversible changes each is away from the first one
  MaxPly    \* bound on the length of a history

ASSUME RepetitionAssumption ==
  /\ Turn \in [Keys -> {0, 1}]
  /\ Progress \in [Keys -> Nat]
  /\ MaxPly \in Nat

VARIABLES
  ply_counter,
  zobrists,   \* the keys of ply_stack and, at ply_counter, the position's own
  ply_of_last_irreversible_move, \* the position's, and at lower plies what ply_stack saved
  ply_of_root

repetitionVars == <<ply_counter, zobrists, ply_of_last_irreversible_move, ply_of_root>>

----------------------------------------------------------------------------
LastIrreversible == ply_of_last_irreversible_move[ply_counter]

\* Mutant: the position right after the irreversible move is not looked at.
SeenButFirst ==
  {i \in (LastIrreversible + 1)..(ply_counter - 2) :
     (ply_counter - i) % 2 = 0 /\ zobrists[i] = zobrists[ply_counter]}

\* The plies at which the loop of is_repetition finds the position.
Seen ==
  {i \in LastIrreversible..(ply_counter - 2) :
     (ply_counter - i) % 2 = 0 /\ zobrists[i] = zobrists[ply_counter]}

is_repetition ==
  /\ ply_counter - LastIrreversible >= 3
  /\ \/ \E i \in Seen : i >= ply_of_root
     \/ 1 + Cardinality(Seen) >= 3

----------------------------------------------------------------------------
Extended(plies, top) ==
  [i \in 0..(ply_counter + 1) |-> IF i <= ply_counter THEN plies[i] ELSE top]
Shortened(plies) == [i \in 0..(ply_counter - 1) |-> plies[i]]

\* make_move, by a player or by the search.
Move(key) ==
  /\ ply_counter < MaxPly
  /\ Turn[key] # Turn[zobrists[ply_counter]]
  /\ ply_counter >= 1 => key # zobrists[ply_counter - 1]
  /\ Progress[key] >= Progress[zobrists[ply_counter]]
  /\ ply_counter' = ply_counter + 1
  /\ zobrists' = Extended(zobrists, key)
  /\ ply_of_last_irreversible_move' =
       Extended(ply_of_last_irreversible_move,
              IF Progress[key] > Progress[zobrists[ply_counter]]
                THEN ply_counter + 1 ELSE LastIrreversible)
  /\ UNCHANGED ply_of_root

\* unmake_move, in the search.
Unmake ==
  /\ ply_counter > ply_of_root
  /\ ply_counter' = ply_counter - 1
  /\ zobrists' = Shortened(zobrists)
  /\ ply_of_last_irreversible_move' = Shortened(ply_of_last_irreversible_move)
  /\ UNCHANGED ply_of_root

\* A worker starts on the position the game has reached.
Start ==
  /\ ply_of_root' = ply_counter
  /\ UNCHANGED <<ply_counter, zobrists, ply_of_last_irreversible_move>>

RepetitionInit ==
  /\ ply_counter = 0
  /\ zobrists \in [{0} -> Keys]
  /\ ply_of_last_irreversible_move = [i \in {0} |-> 0]
  /\ ply_of_root = 0

RepetitionNext == (\E key \in Keys : Move(key)) \/ Unmake \/ Start

RepetitionSpec == RepetitionInit /\ [][RepetitionNext]_repetitionVars

----------------------------------------------------------------------------
\* A position is taken for a draw exactly when it has occurred before in the
\* search or twice before in the game, over the whole history: neither the stop
\* at the last irreversible move nor the step of two plies nor the early return
\* of is_repetition (eval.c) passes over an occurrence.
RepetitionsExact ==
  LET before == {i \in 0..(ply_counter - 1) : zobrists[i] = zobrists[ply_counter]} IN
  is_repetition <=> \/ \E i \in before : i >= ply_of_root
                    \/ Cardinality(before) >= 2

\* What makes it so: turns alternate, progress is never undone, no position
\* comes back after one move of each side, and those up to the last
\* irreversible move differ in progress from all that follow it.
History ==
  /\ ply_counter \in Nat
  /\ zobrists \in [0..ply_counter -> Keys]
  /\ ply_of_last_irreversible_move \in [0..ply_counter -> Nat]
  /\ ply_of_root \in 0..ply_counter
Turns == \A i \in 0..ply_counter : Turn[zobrists[i]] = (Turn[zobrists[0]] + i) % 2
Progresses ==
  \A i, j \in 0..ply_counter : i <= j => Progress[zobrists[i]] <= Progress[zobrists[j]]
NoReturn == \A i \in 0..ply_counter : i >= 2 => zobrists[i] # zobrists[i - 2]
Cut ==
  \A j \in 0..ply_counter :
    /\ ply_of_last_irreversible_move[j] <= j
    /\ \A i \in 0..ply_counter :
         i < ply_of_last_irreversible_move[j] => Progress[zobrists[i]] < Progress[zobrists[j]]

RepetitionInv == History /\ Turns /\ Progresses /\ NoReturn /\ Cut
=============================================================================
