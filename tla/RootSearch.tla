----------------------------- MODULE RootSearch -----------------------------
(***************************************************************************)
(* The iterations of a worker at the root (src/src/worker.c, worker_start; *)
(* src/src/search.c, rootSearch): search the moves in the order left by    *)
(* the previous iteration, insert each into the sorted prefix by its       *)
(* score, and give up in the middle when stop() holds.  The move that      *)
(* bot_on_stop prints is the first one.                                    *)
(*                                                                         *)
(* The score of a move at the depth of an iteration is known up to a       *)
(* range, since the table may answer from deeper searches; abSearch is     *)
(* fail-soft, so what it returns is bounded by the window as well as by    *)
(* the range.  Once abort is set it returns whatever it has.  What it then *)
(* stores in the table stays there for later goes: a search that meets it, *)
(* or an entry of negative depth, may return anything, and the range of    *)
(* its move is all the scores (Widest).  Theorem AlwaysRootAnswered of     *)
(* SearchProofs shows that nothing else widens a range.                    *)
(* Scores are those of the side to move at the root: abSearch(w, a, b)     *)
(* negated is the window -b .. -a.  moves[i] of the source is order[i+1].  *)
(***************************************************************************)
EXTENDS Integers, Windows

CONSTANTS
  Moves,       \* the legal moves of the root position
  N,           \* worker_t.move_count
  MaxScore,    \* MAX_SCORE; MIN_SCORE is -MaxScore
  Ranges       \* what the scores of a move may be known up to

ASSUME CountAssumption == N \in Nat \ {0}
ASSUME ScoreAssumption == MaxScore \in Nat

Index == 1 .. N
Scores == -MaxScore .. MaxScore

\* Of a move whose search met a tainted entry nothing is known.
Widest == [low |-> -MaxScore, high |-> MaxScore]

ASSUME RangeAssumption ==
  /\ Ranges \subseteq {v \in [low : Scores, high : Scores] : v.low <= v.high}
  /\ Widest \in Ranges

VARIABLES
  order,       \* worker_t.moves
  scores,      \* worker_t.scores
  i,           \* the loop variable of rootSearch
  j,           \* the loop variable of the insertion
  pc,          \* where the worker is
  abort,       \* bot_t.abort
  range,       \* of the scores of each move at the depth of this iteration
  searched,    \* history: the moves this iteration has searched to the end
  previous     \* history: the first move when this iteration began

vars == <<order, scores, i, j, pc, abort, range, searched, previous>>

TypeOK ==
  /\ order \in [Index -> Moves]
  /\ scores \in [Index -> Scores]
  /\ i \in 1 .. N + 1
  /\ pc \in {"zero", "full", "check", "insert"} => i \in Index
  /\ j \in Index
  /\ pc \in {"poll", "first", "loop", "zero", "full", "check", "insert",
             "stopped"}
  /\ abort \in BOOLEAN
  /\ range \in [Moves -> [low : Scores, high : Scores]]
  /\ searched \subseteq Moves
  /\ previous \in Moves

\* generate_legal_moves fills the list; the scores are still 0.
Init ==
  /\ order \in [Index -> Moves]
  /\ \A m \in Moves : \E k \in Index : order[k] = m
  /\ \A k, l \in Index : order[k] = order[l] => k = l
  /\ scores = [k \in Index |-> 0]
  /\ i = 1 /\ j = 1
  /\ pc = "poll"
  /\ abort = FALSE
  /\ range = [m \in Moves |-> [low |-> 0, high |-> 0]]
  /\ searched = {}
  /\ previous = order[1]

-----------------------------------------------------------------------------
\* What abSearch can return for the move m and the window a .. b; anything for Widest.
Results(m, a, b) ==
  {r \in Scores : abort \/ FailSoft(r, range[m].low, range[m].high, a, b)}

\* Mutant: the moves are generated anew for every iteration.
StartAfresh ==
  /\ pc = "poll" /\ ~abort
  /\ pc' = "first"
  /\ order' = [k \in Index |-> order[N + 1 - k]]
  /\ range' \in [Moves -> Ranges]
  /\ searched' = {}
  /\ previous' = order[1]
  /\ UNCHANGED <<scores, i, j, abort>>

\* The loop condition of worker_start, and the call of rootSearch.  The ranges
\* change with the depth.
StartIteration ==
  /\ pc = "poll" /\ ~abort
  /\ pc' = "first"
  /\ range' \in [Moves -> Ranges]
  /\ searched' = {}
  /\ previous' = order[1]
  /\ UNCHANGED <<order, scores, i, j, abort>>

PollStop ==
  /\ pc = "poll" /\ abort
  /\ pc' = "stopped"
  /\ UNCHANGED <<order, scores, i, j, abort, range, searched, previous>>

\* The first move has the full window.
SearchFirst ==
  /\ pc = "first"
  /\ \E r \in Results(order[1], -MaxScore, MaxScore) :
       scores' = [scores EXCEPT ![1] = r]
  /\ searched' = IF abort THEN searched ELSE {order[1]}
  /\ pc' = "loop" /\ i' = 2
  /\ UNCHANGED <<order, j, abort, range, previous>>

\* !stop(worker) && i < move_count
LoopEnds ==
  /\ pc = "loop"
  /\ abort \/ i > N
  /\ pc' = "poll"
  /\ UNCHANGED <<order, scores, i, j, abort, range, searched, previous>>

\* Mutant: the loop runs past the last move.
LoopRunsOver ==
  /\ pc = "loop" /\ ~abort /\ i <= N + 1
  /\ pc' = "zero"
  /\ UNCHANGED <<order, scores, i, j, abort, range, searched, previous>>

LoopGoesOn ==
  /\ pc = "loop" /\ ~abort /\ i <= N
  /\ pc' = "zero"
  /\ UNCHANGED <<order, scores, i, j, abort, range, searched, previous>>

\* The null-window search around the best score, and the search that follows if
\* the score is above alpha, which is MIN_SCORE throughout.
SearchZeroWindow ==
  /\ pc = "zero"
  /\ \E r \in Results(order[i], scores[1], scores[1] + 1) :
       /\ scores' = [scores EXCEPT ![i] = r]
       /\ pc' = IF r > -MaxScore THEN "full" ELSE "check"
  /\ UNCHANGED <<order, i, j, abort, range, searched, previous>>

\* Mutant: the second search keeps the null window.
SearchNarrowWindow ==
  /\ pc = "full"
  /\ \E r \in Results(order[i], scores[1], scores[1] + 1) :
       scores' = [scores EXCEPT ![i] = r]
  /\ pc' = "check"
  /\ UNCHANGED <<order, i, j, abort, range, searched, previous>>

SearchFullWindow ==
  /\ pc = "full"
  /\ \E r \in Results(order[i], scores[1], MaxScore) :
       scores' = [scores EXCEPT ![i] = r]
  /\ pc' = "check"
  /\ UNCHANGED <<order, i, j, abort, range, searched, previous>>

\* "if (stop(worker)) break": the score of an aborted search is not used.
CheckStops ==
  /\ pc = "check" /\ abort
  /\ pc' = "poll"
  /\ UNCHANGED <<order, scores, i, j, abort, range, searched, previous>>

\* Mutant: the move is inserted although its search was aborted.
CheckNothing ==
  /\ pc = "check"
  /\ pc' = "insert" /\ j' = i
  /\ searched' = IF abort THEN searched ELSE searched \union {order[i]}
  /\ UNCHANGED <<order, scores, i, abort, range, previous>>

CheckGoesOn ==
  /\ pc = "check" /\ ~abort
  /\ pc' = "insert" /\ j' = i
  /\ searched' = searched \union {order[i]}
  /\ UNCHANGED <<order, scores, i, abort, range, previous>>

Swap(f, k) == [f EXCEPT ![k] = f[k - 1], ![k - 1] = f[k]]

\* Mutant: the move takes the other's place and the other is lost.
InsertOverwrites ==
  /\ pc = "insert"
  /\ j > 1 /\ scores[j - 1] < scores[j]
  /\ scores' = Swap(scores, j) /\ order' = [order EXCEPT ![j - 1] = order[j]]
  /\ j' = j - 1
  /\ UNCHANGED <<i, pc, abort, range, searched, previous>>

\* Mutant: the move is moved up by one place only.
InsertOnePlace ==
  /\ pc = "insert"
  /\ j > 1 /\ scores[j - 1] < scores[j]
  /\ scores' = Swap(scores, j) /\ order' = Swap(order, j)
  /\ pc' = "loop" /\ i' = i + 1
  /\ UNCHANGED <<j, abort, range, searched, previous>>

InsertSwaps ==
  /\ pc = "insert"
  /\ j > 1 /\ scores[j - 1] < scores[j]
  /\ scores' = Swap(scores, j) /\ order' = Swap(order, j)
  /\ j' = j - 1
  /\ UNCHANGED <<i, pc, abort, range, searched, previous>>

InsertEnds ==
  /\ pc = "insert"
  /\ ~(j > 1 /\ scores[j - 1] < scores[j])
  /\ pc' = "loop" /\ i' = i + 1
  /\ UNCHANGED <<order, scores, j, abort, range, searched, previous>>

\* bot_stop, or a limit found by stop().
Abort ==
  /\ ~abort /\ abort' = TRUE
  /\ UNCHANGED <<order, scores, i, j, pc, range, searched, previous>>

Worker ==
  \/ StartIteration \/ PollStop
  \/ SearchFirst \/ LoopEnds \/ LoopGoesOn
  \/ SearchZeroWindow \/ SearchFullWindow
  \/ CheckStops \/ CheckGoesOn
  \/ InsertSwaps \/ InsertEnds

Next == Worker \/ Abort

Spec == Init /\ [][Next]_vars

-----------------------------------------------------------------------------
(* Properties.                                                              *)

\* However an iteration ends, the list holds every legal move once.
EveryMoveOnce ==
  /\ \A m \in Moves : \E k \in Index : order[k] = m
  /\ \A k, l \in Index : order[k] = order[l] => k = l

\* "on the root node moves are ordered based on score in previous iteration":
\* the moves an iteration has been through are in the order of their scores.
SortedPrefix ==
  pc = "loop" => \A k, l \in 1 .. i - 1 : k < l => scores[k] >= scores[l]

\* No move this iteration has searched to the end is known to be better than the
\* first one, though the scores of the others are only bounds and an aborted
\* search returns anything.  Where the scores are exact, the first is the best; a move
\* that met a tainted entry is not known to be better or worse than any.
BestOfSearched ==
  pc # "insert" /\ searched # {} =>
    /\ order[1] \in searched
    /\ \A m \in searched : range[m].low <= range[order[1]].high

\* An iteration that is stopped before it has searched a move changes nothing:
\* bestmove is that of the iteration before.
PreviousKept == searched = {} => order[1] = previous
=============================================================================
