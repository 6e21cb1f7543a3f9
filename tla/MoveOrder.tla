----------------------------- MODULE MoveOrder -----------------------------
(***************************************************************************)
(* The moves of a node, one at a time (src/src/move_order.c): next_move    *)
(* for abSearch and next_capture for qSearch, over the move_list_t that    *)
(* init_move_list prepares.  Each iteration of their do loops chooses one  *)
(* move; it is returned if it is legal.                                    *)
(*                                                                         *)
(* The chess library says which moves it generates, in which order, and    *)
(* which of them are legal.  A move is known by what compare_moves looks   *)
(* at; CaptureMoves are the captures that do not promote.  A priority has  *)
(* 12 bits.                                                                *)
(***************************************************************************)
EXTENDS Integers, Sequences, FiniteSets

CONSTANTS
  CaptureMoves, PromotionMoves, QuietMoves,
  NullMove,
  Routines,        \* those used: "next_move", "next_capture"
  CaptureGains,    \* value_of(captured piece) - value_of(capturing piece)
  PromotionGains,  \* value_of(captured piece) + value_of(new piece)
  Histories        \* the quotients of the history and the butterfly board

Moves == CaptureMoves \union PromotionMoves \union QuietMoves
NoisyMoves == CaptureMoves \union PromotionMoves

ASSUME MoveAssumption ==
  /\ NullMove \notin Moves
  /\ CaptureMoves \intersect PromotionMoves = {}
  /\ NoisyMoves \intersect QuietMoves = {}
  /\ IsFiniteSet(Moves)
ASSUME RoutineAssumption == Routines \subseteq {"next_move", "next_capture"}
ASSUME ValueAssumption ==
  CaptureGains \subseteq Int /\ PromotionGains \subseteq Int /\ Histories \subseteq Int

\* enum move_order_state
WinningCapture == 2048
NeutralCapture == 1536
KillerMoves    == 1024
QuietMove      == 0

\* No exchange gives a capture or a promotion the 12 bits of a quiet move.
ASSUME GainAssumption ==
  /\ \A gain \in CaptureGains : (NeutralCapture + gain) % 4096 > 0
  /\ \A gain \in PromotionGains : (WinningCapture + gain) % 4096 > 0

VARIABLES
  routine,     \* the routine that is called for this node
  pseudo,      \* what generate_moves finds in the position, in its order
  legal,       \* those of them is_legal accepts
  hash_move,   \* move_list.hash_move
  state,       \* move_list.state
  list,        \* move_list.moves up to move_count
  selected,    \* selected_move, which the call returns
  pc,          \* "idle" between two calls, "null" after the null move
  yielded      \* history: the moves returned so far, in their order

node == <<routine, pseudo, legal, hash_move>>
vars == <<routine, pseudo, legal, hash_move, state, list, selected, pc, yielded>>

\* No move is generated twice.
Orders ==
  UNION {{s \in [1 .. n -> Moves] : \A x, y \in 1 .. n : s[x] = s[y] => x = y} :
           n \in 0 .. Cardinality(Moves)}

Found == {pseudo[k] : k \in DOMAIN pseudo}

Priorities == 0 .. 4095
Entries == [move : Moves, prio : Priorities]

TypeOK ==
  /\ routine \in Routines
  /\ pseudo \in Orders /\ legal \subseteq Found
  /\ hash_move \in Moves \union {NullMove}
  /\ state \in {"pv", "winning", "neutral", "losing"}
  /\ list \in Seq(Entries) /\ Len(list) <= Len(pseudo)
  /\ selected \in Moves \union {NullMove}
  /\ pc \in {"idle", "select", "test", "null"}
  /\ yielded \in Seq(legal)

\* init_move_list.  The move of a table entry may belong to another position;
\* qSearch has none.
Init ==
  /\ routine \in Routines
  /\ pseudo \in Orders
  /\ legal \in SUBSET Found
  /\ hash_move \in {NullMove} \union (IF routine = "next_move" THEN Moves ELSE {})
  /\ state = "pv"
  /\ list = <<>>
  /\ selected = NullMove
  /\ pc = "idle"
  /\ yielded = <<>>

-----------------------------------------------------------------------------
\* set_priority: what is above 12 bits is cut off.
Priority12(prio) == prio % 4096

\* Mutant: captures are ordered around 0.
CaptureAroundZero(gain) == Priority12(QuietMove + gain)

CapturePriority(gain) == Priority12(NeutralCapture + gain)

PromotionPriority(gain) == Priority12(WinningCapture + gain)

\* moves[k] = moves[--move_count]
SwapRemove(l, k) ==
  [x \in 1 .. Len(l) - 1 |-> IF x = k THEN l[Len(l)] ELSE l[x]]

\* generate_moves; the priority of a new move is 0.
Generated == [k \in DOMAIN pseudo |-> [move |-> pseudo[k], prio |-> 0]]

\* generate_capture_priorities drops the hash move, which was tried before.
WithoutHash(l) ==
  IF \E k \in DOMAIN l : l[k].move = hash_move
  THEN SwapRemove(l, CHOOSE k \in DOMAIN l : l[k].move = hash_move)
  ELSE l

\* In next_move the priority of a promotion is computed but not stored.
CapturePrioritiesFor(l, gain) ==
  [k \in DOMAIN l |->
     [l[k] EXCEPT !.prio =
        IF l[k].move \in CaptureMoves THEN CapturePriority(gain[l[k].move]) ELSE @]]

NoisyPriority(m, gain, bonus) ==
  CASE m \in PromotionMoves -> PromotionPriority(bonus[m])
    [] m \in CaptureMoves -> CapturePriority(gain[m])
    [] OTHER -> QuietMove

NoisyPrioritiesFor(l, gain, bonus) ==
  [k \in DOMAIN l |-> [l[k] EXCEPT !.prio = NoisyPriority(l[k].move, gain, bonus)]]

\* generate_quiet_priorities.  A move is compared with moves[0] and moves[1] of
\* the list itself, not with killer_moves: the first two pass for killers.
QuietPrioritiesFor(l, history) ==
  [k \in DOMAIN l |->
     [l[k] EXCEPT !.prio =
        IF k <= 2 THEN KillerMoves ELSE Priority12(history[l[k].move])]]

\* The loops over the list stop at the best of the entries at the places in S:
\* with >= at the last of them, with > at the first.
LastBest(k, S) ==
  \A x \in S : \/ list[x].prio < list[k].prio
              \/ (list[x].prio = list[k].prio /\ x <= k)
FirstBest(k, S) ==
  \A x \in S : \/ list[x].prio < list[k].prio
              \/ (list[x].prio = list[k].prio /\ k <= x)

NoisyPlaces == {k \in DOMAIN list : list[k].move \in NoisyMoves}

-----------------------------------------------------------------------------
\* The search asks for a move, unless it has had the null move.
Call ==
  /\ pc = "idle"
  /\ pc' = "select"
  /\ UNCHANGED <<node, state, list, selected, yielded>>

\* The case PRIORITY_PV_MOVE, when is_pseudo_legal accepts the hash move.
TryHash ==
  /\ pc = "select" /\ state = "pv"
  /\ hash_move \in Found
  /\ selected' = hash_move
  /\ state' = "winning"
  /\ pc' = "test"
  /\ UNCHANGED <<node, list, yielded>>

Generate ==
  /\ pc = "select"
  /\ state = "winning" \/ (state = "pv" /\ hash_move \notin Found)
  /\ state' = "neutral"
  /\ \E gain \in [CaptureMoves \intersect Found -> CaptureGains],
       bonus \in [PromotionMoves \intersect Found -> PromotionGains] :
       list' = IF routine = "next_move"
               THEN CapturePrioritiesFor(WithoutHash(Generated), gain)
               ELSE NoisyPrioritiesFor(Generated, gain, bonus)
  /\ UNCHANGED <<node, selected, pc, yielded>>

Take(k) ==
  /\ selected' = list[k].move
  /\ list' = SwapRemove(list, k)
  /\ pc' = "test"

\* The case PRIORITY_NEUTRAL_CAPTURE of next_move.
PickNoisy ==
  /\ pc = "select" /\ state = "neutral" /\ routine = "next_move"
  /\ \E k \in NoisyPlaces : LastBest(k, NoisyPlaces) /\ Take(k)
  /\ UNCHANGED <<node, state, yielded>>

\* Mutant: the quiet moves are given priorities at once.
StartQuietsAtOnce ==
  /\ pc = "select" /\ state = "neutral" /\ routine = "next_move"
  /\ list # <<>>
  /\ state' = "losing"
  /\ \E history \in [QuietMoves \intersect Found -> Histories] :
       list' = [k \in DOMAIN list |->
                  IF list[k].move \in QuietMoves
                  THEN QuietPrioritiesFor(list, history)[k] ELSE list[k]]
  /\ UNCHANGED <<node, selected, pc, yielded>>

StartQuiets ==
  /\ pc = "select" /\ state = "neutral" /\ routine = "next_move"
  /\ list # <<>> /\ NoisyPlaces = {}
  /\ state' = "losing"
  /\ \E history \in [QuietMoves \intersect Found -> Histories] :
       list' = QuietPrioritiesFor(list, history)
  /\ UNCHANGED <<node, selected, pc, yielded>>

\* Mutant: the quiet move stays in the list.
PickQuietAndKeep ==
  /\ pc = "select" /\ state = "losing"
  /\ \E k \in DOMAIN list :
       FirstBest(k, DOMAIN list) /\ selected' = list[k].move
  /\ pc' = "test"
  /\ UNCHANGED <<node, state, list, yielded>>

PickQuiet ==
  /\ pc = "select" /\ state = "losing"
  /\ \E k \in DOMAIN list : FirstBest(k, DOMAIN list) /\ Take(k)
  /\ UNCHANGED <<node, state, yielded>>

\* The default case of next_capture.
PickCapture ==
  /\ pc = "select" /\ state = "neutral" /\ routine = "next_capture"
  /\ \E k \in DOMAIN list :
       /\ FirstBest(k, DOMAIN list)
       /\ list[k].move \in NoisyMoves
       /\ Take(k)
  /\ UNCHANGED <<node, state, yielded>>

\* next_capture returns when the best move left is quiet; both return when no
\* move is left.
ReturnNull ==
  /\ pc = "select" /\ state \in {"neutral", "losing"}
  /\ \/ list = <<>>
     \/ /\ routine = "next_capture"
        /\ \E k \in DOMAIN list :
             FirstBest(k, DOMAIN list) /\ list[k].move \in QuietMoves
  /\ selected' = NullMove
  /\ pc' = "null"
  /\ UNCHANGED <<node, state, list, yielded>>

\* "while (!is_legal(position, selected_move))"
ReturnMove ==
  /\ pc = "test" /\ selected \in legal
  /\ yielded' = Append(yielded, selected)
  /\ pc' = "idle"
  /\ UNCHANGED <<node, state, list, selected>>

TryAgain ==
  /\ pc = "test" /\ selected \notin legal
  /\ pc' = "select"
  /\ UNCHANGED <<node, state, list, selected, yielded>>

Step ==
  \/ TryHash \/ Generate
  \/ PickNoisy \/ StartQuiets \/ PickQuiet \/ PickCapture
  \/ ReturnNull \/ ReturnMove \/ TryAgain

Next == Call \/ Step

Spec == Init /\ [][Next]_vars

-----------------------------------------------------------------------------
(* Properties.                                                              *)

\* The moves the search must be given: next_capture leaves out the quiet ones.
Wanted == IF routine = "next_move" THEN legal ELSE legal \intersect NoisyMoves

Picker == INSTANCE MovePicker
  WITH wanted <- Wanted, given <- yielded, ended <- pc = "null"

\* Every legal move (every legal capture and promotion) is returned once, the
\* hash move included, and the null move only after all of them: swapping the
\* last move into the hole, dropping the hash move and cutting priorities to
\* 12 bits lose and repeat nothing.
PickerSpec == Picker!Spec

\* "captures and promotions first": a legal hash move is returned before any
\* other move, and of the others no quiet one before a capture or a promotion.
NoisyFirst ==
  /\ yielded # <<>> /\ hash_move \in legal => yielded[1] = hash_move
  /\ \A k, l \in DOMAIN yielded :
       yielded[k] \in QuietMoves \ {hash_move} /\ yielded[l] \in NoisyMoves => l < k

\* A bound on the steps the calls have still to make: every move left costs two,
\* and every case of the switch that has still to be entered one.
MovesLeft == CASE state = "pv" -> Len(pseudo) + 1
               [] state = "winning" -> Len(pseudo)
               [] OTHER -> Len(list)
CasesLeft == CASE state = "losing" -> 0 [] state = "neutral" -> 1 [] OTHER -> 2
StepsLeft == 2 * MovesLeft + CasesLeft
               + (CASE pc = "test" -> 2 [] pc = "select" -> 1 [] OTHER -> 0)

\* A call returns, however many of the generated moves are illegal: the loop
\* never goes round without having used up a move.
EveryStepCounts == [][Step => StepsLeft' < StepsLeft /\ StepsLeft' >= 0]_vars
=============================================================================
