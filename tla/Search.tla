------------------------------- MODULE Search -------------------------------
(***************************************************************************)
(* abSearch and qSearch (src/src/search.c), call by call, over the         *)
(* transposition table.                                                    *)
(*                                                                         *)
(* The game is a finite graph: a move is the position it leads to, Succ    *)
(* the legal moves and Tactical those qSearch makes.  next_move gives each *)
(* legal move once, in any order (MovePicker says so).  The table is a     *)
(* lossy cache (SharedCache says so) with one entry to a slot.             *)
(*                                                                         *)
(* The C stack is frame[0 .. top]; frame[0] is rootSearch, reduced to the  *)
(* searches it asks for.  worker->position is line[0 .. made], changed by  *)
(* make_move and unmake_move only, so that nothing but the code keeps it   *)
(* in step with the stack.  stop() is a flag that may be raised anywhere.  *)
(***************************************************************************)
EXTENDS Integers, Windows

CONSTANTS
  Nodes,       \* positions; equal positions have equal zobrist keys
  NoNode,      \* no position
  Roots,       \* the positions a go is about
  Succ,        \* the legal moves of a position
  Tactical,    \* promotions and captures that lose no material
  InCheck,     \* is_check
  Drawn,       \* drawn by the 50 move rule, by material or by is_repetition
  DrawnQuiet,  \* drawn for is_draw of the chess library, which qSearch asks
  Static,      \* eval of a position that is not over
  Slots,       \* the indices of table_t.items
  Index,       \* zobrist % capacity
  NoEntry,     \* an empty slot
  Byte,        \* 2^8: an entry has 8 bits for the depth
  Mate,        \* CHECKMATE_SCORE_CENTIPAWNS, negative
  MaxScore,    \* MAX_SCORE; MIN_SCORE is -MAX_SCORE
  RootScores,  \* the scores[0] that rootSearch makes its windows from
  MaxIter,     \* bound: the last iteration
  MaxPly,      \* bound: no line of the game is longer
  MaxCalls,    \* bound: the searches asked for at the root
  Lo, Hi       \* the range of the scores a search of a node to a depth may have

ASSUME GameAssumption ==
  /\ NoNode \notin Nodes /\ Roots \subseteq Nodes
  /\ Succ \in [Nodes -> SUBSET Nodes] /\ Tactical \in [Nodes -> SUBSET Nodes]
  /\ \A n \in Nodes : Static[n] \in Int
  /\ Mate \in Int

ASSUME TableAssumption == Index \in [Nodes -> Slots]

ASSUME BoundAssumption ==
  /\ MaxIter \in Nat /\ MaxPly \in Nat /\ MaxCalls \in Nat
  /\ Byte \in Nat /\ MaxIter < Byte
  /\ MaxScore \in Nat \ {0}
  /\ \A s \in RootScores : s \in Int /\ -MaxScore < s /\ s < MaxScore

MinScore == -MaxScore
Depths == -MaxPly .. MaxIter
Plies == 0 .. MaxPly
Types == {"exact", "upper", "lower"}

VARIABLES
  root,      \* bot->root_position
  frame,     \* the calls under way and their local variables
  top,       \* how many calls of abSearch and qSearch are under way
  returned,  \* a call has returned and its caller has not gone on yet
  ret,       \* the score it returned
  line,      \* worker->position: the positions since the root
  made,      \* ply_counter - root_ply
  table,     \* the slots of the transposition table
  stopped,   \* bot->abort
  calls,     \* how many searches the root has asked for
  tainted    \* history: a cut short or a negative depth has been stored

positionVars == <<line, made>>
goVars == <<root, calls>>
vars == <<root, frame, top, returned, ret, line, made, table, stopped, calls, tainted>>

-----------------------------------------------------------------------------
(* The game.                                                                *)

\* eval() of a position that is neither drawn nor check.
StandPat(n) == IF Succ[n] = {} THEN 0 ELSE Static[n]

\* A position without a move: mates found near the root, at a greater depth,
\* are worse for the side that is mated.
NoMoveScore(n, d) == IF n \in InCheck THEN Mate - d ELSE 0

\* abSearch leaves these to qSearch.
Quiet(n, d) == d <= 0 /\ n \notin InCheck

\* abSearch and qSearch do not ask the same question.
IsDraw(n, d) == IF Quiet(n, d) THEN n \in DrawnQuiet ELSE n \in Drawn

\* What the scores of a node are, as far as any use of the table leaves it open:
\* for each depth a range that follows from those of its moves one ply deeper,
\* and that a search to a greater depth does not leave.
ValuationAssumption ==
  \A n \in Nodes, d \in Depths :
    LET lo == Lo[n][d]
        hi == Hi[n][d]
        Rests(s) == lo <= s /\ s <= hi
        AtMost(m) == d - 1 \in Depths => -Lo[m][d - 1] <= hi
        AtLeast(m) == d - 1 \in Depths => lo <= -Hi[m][d - 1]
    IN
    /\ lo \in Int /\ hi \in Int
    /\ IsDraw(n, d) => Rests(0)
    /\ Quiet(n, d) /\ ~IsDraw(n, d) =>
         /\ StandPat(n) <= hi /\ \A m \in Tactical[n] : AtMost(m)
         /\ lo <= StandPat(n) \/ \E m \in Tactical[n] : AtLeast(m)
    /\ ~Quiet(n, d) /\ ~IsDraw(n, d) =>
         \/ Succ[n] = {} /\ Rests(NoMoveScore(n, d))
         \/ /\ \A m \in Succ[n] : AtMost(m)
            /\ \E m \in Succ[n] : AtLeast(m)
    /\ ~Quiet(n, d) =>
         \A e \in d .. MaxIter : lo <= Lo[n][e] /\ Hi[n][e] <= hi

ASSUME ScoresHaveRanges == ValuationAssumption

-----------------------------------------------------------------------------
(* The C stack.                                                             *)

NewFrame(fn, n, d, low, beta) ==
  [ fn |-> fn, at |-> "enter", node |-> n, depth |-> d,
    low |-> low,            \* history: the argument alpha
    alpha |-> low, beta |-> beta,
    best |-> 0,             \* best_score, not yet set
    left |-> {},            \* the moves next_move has still to give
    child |-> NoNode ]      \* the move being searched

RootFrame(n, d) == [NewFrame("root", n, d, MinScore, MaxScore) EXCEPT !.at = "idle"]

\* What is above the top of the stack.
Unused == NewFrame("none", NoNode, 0, 0, 0)

Top == frame[top]
At(fn, at) == Top.fn = fn /\ Top.at = at
Enters(fn) == ~returned /\ At(fn, "enter")
Score == -ret

\* A recursive call for the node of the caller's frame f.
CallFor(f, fn, low, beta) ==
  /\ top < MaxPly
  /\ frame' = [frame EXCEPT ![top] = f,
                            ![top + 1] = NewFrame(fn, f.child, f.depth - 1, low, beta)]
  /\ top' = top + 1
  /\ returned' = FALSE
  /\ UNCHANGED <<ret, table, stopped, tainted>>

\* The locals while the move m is searched and the moves in rest are still to come.
Searching(f, at, m, rest) == [f EXCEPT !.at = at, !.child = m, !.left = rest]

MakeMove(m) ==
  /\ line' = [line EXCEPT ![made + 1] = m]
  /\ made' = made + 1

UnmakeMove ==
  /\ line' = [line EXCEPT ![made] = NoNode]
  /\ made' = made - 1

ReturnScore(s) ==
  /\ frame' = [frame EXCEPT ![top] = Unused]
  /\ top' = top - 1
  /\ returned' = TRUE
  /\ ret' = s

\* The caller goes on with new values of its locals.
Continue(f) ==
  /\ frame' = [frame EXCEPT ![top] = f]
  /\ returned' = FALSE
  /\ UNCHANGED <<top, ret>>

-----------------------------------------------------------------------------
(* The table.                                                               *)

\* Mutant: the depth is kept as it is.
EntrySigned(n, type, s, d) == [key |-> n, type |-> type, score |-> s, depth |-> d]

Entry(n, type, s, d) == [key |-> n, type |-> type, score |-> s, depth |-> d % Byte]

\* tt_store_depth_prefered.
StoreEntry(n, type, s, d) ==
  table' = [table EXCEPT ![Index[n]] =
    IF @ = NoEntry \/ @.depth < d THEN Entry(n, type, s, d) ELSE @]

\* Mutant: the depth of the entry is not looked at.
UsableAnyDepth(e, f) ==
  /\ e # NoEntry /\ e.key = f.node
  /\ \/ e.type = "exact"
     \/ e.type = "upper" /\ e.score <= f.alpha
     \/ e.type = "lower" /\ e.score >= f.beta

\* tt_get and the tests that let its entry end the search.
Usable(e, f) ==
  /\ e # NoEntry /\ e.key = f.node /\ e.depth >= f.depth
  /\ \/ e.type = "exact"
     \/ e.type = "upper" /\ e.score <= f.alpha
     \/ e.type = "lower" /\ e.score >= f.beta

-----------------------------------------------------------------------------
(* abSearch                                                                 *)

\* depth <= 0 && !is_check: the call becomes a call of qSearch.
EnterQuiet ==
  /\ Enters("ab") /\ Quiet(Top.node, Top.depth)
  /\ frame' = [frame EXCEPT ![top] = [@ EXCEPT !.fn = "q"]]
  /\ UNCHANGED <<top, returned, ret, positionVars, table, stopped, goVars, tainted>>

Searches == Enters("ab") /\ ~Quiet(Top.node, Top.depth)

ReturnDraw ==
  /\ Searches /\ Top.node \in Drawn
  /\ ReturnScore(0)
  /\ UNCHANGED <<positionVars, table, stopped, goVars, tainted>>

ReturnEntry ==
  /\ Searches /\ Top.node \notin Drawn
  /\ LET e == table[Index[Top.node]] IN
       Usable(e, Top) /\ ReturnScore(e.score)
  /\ UNCHANGED <<positionVars, table, stopped, goVars, tainted>>

MustSearch ==
  /\ Searches /\ Top.node \notin Drawn
  /\ ~Usable(table[Index[Top.node]], Top)

ReturnNoMove ==
  /\ MustSearch /\ Succ[Top.node] = {}
  /\ ReturnScore(NoMoveScore(Top.node, Top.depth))
  /\ UNCHANGED <<positionVars, table, stopped, goVars, tainted>>

\* The first move has the whole window; it is searched without a look at stop().
FirstMove ==
  /\ MustSearch
  /\ \E m \in Succ[Top.node] :
       /\ CallFor(Searching(Top, "first", m, Succ[Top.node] \ {m}),
                  "ab", -Top.beta, -Top.alpha)
       /\ MakeMove(m)
  /\ UNCHANGED goVars

\* best_score >= beta: the score is stored as a lower bound and returned.
CutOff(s) ==
  /\ ReturnScore(s)
  /\ StoreEntry(Top.node, "lower", s, Top.depth)
  /\ tainted' = (tainted \/ Top.depth < 0)

Max2(a, b) == IF a >= b THEN a ELSE b

\* Mutant: alpha follows the best score down as well.
BetterFollows(f, s) == [f EXCEPT !.at = "loop", !.best = s, !.alpha = s]

Better(f, s) == [f EXCEPT !.at = "loop", !.best = s, !.alpha = Max2(@, s)]

FirstReturns ==
  /\ returned /\ At("ab", "first")
  /\ UnmakeMove
  /\ \/ Score >= Top.beta /\ CutOff(Score)
     \/ /\ Score < Top.beta /\ Continue(Better(Top, Score))
        /\ UNCHANGED <<table, tainted>>
  /\ UNCHANGED <<stopped, goVars>>

\* The other moves have to prove first that they are better than alpha.
NextMove ==
  /\ ~returned /\ At("ab", "loop") /\ ~stopped
  /\ \E m \in Top.left :
       /\ CallFor(Searching(Top, "null", m, Top.left \ {m}),
                  "ab", -Top.alpha - 1, -Top.alpha)
       /\ MakeMove(m)
  /\ UNCHANGED goVars

\* Mutant: a move that beats alpha is never searched with the whole window.
InsideNever(s) == FALSE

Inside(s) == s > Top.alpha /\ s < Top.beta

\* Inside the window: the same move again, with the whole of it.
NullReturnsInside ==
  /\ returned /\ At("ab", "null") /\ Inside(Score)
  /\ CallFor([Top EXCEPT !.at = "full"], "ab", -Top.beta, -Top.alpha)
  /\ UNCHANGED <<positionVars, goVars>>

\* Mutant: a cut off returns before the move is unmade.
SettleCutOffFirst(s) ==
  /\ \/ s > Top.best /\ s >= Top.beta /\ CutOff(s) /\ UNCHANGED positionVars
     \/ s > Top.best /\ s < Top.beta /\ UnmakeMove /\ Continue(Better(Top, s))
        /\ UNCHANGED <<table, tainted>>
     \/ s <= Top.best /\ UnmakeMove /\ Continue([Top EXCEPT !.at = "loop"])
        /\ UNCHANGED <<table, tainted>>
  /\ UNCHANGED <<stopped, goVars>>

\* The end of the loop's body.
Settle(s) ==
  /\ UnmakeMove
  /\ \/ s > Top.best /\ s >= Top.beta /\ CutOff(s)
     \/ /\ s > Top.best /\ s < Top.beta /\ Continue(Better(Top, s))
        /\ UNCHANGED <<table, tainted>>
     \/ /\ s <= Top.best /\ Continue([Top EXCEPT !.at = "loop"])
        /\ UNCHANGED <<table, tainted>>
  /\ UNCHANGED <<stopped, goVars>>

NullReturns == returned /\ At("ab", "null") /\ ~Inside(Score) /\ Settle(Score)

FullReturns == returned /\ At("ab", "full") /\ Settle(Score)

\* Mutant: the best score is stored as exact whether or not it raised alpha.
KindExact(f) == "exact"

\* best_score > alpha never holds here, since alpha was raised with it.
Kind(f) == IF f.best > f.alpha THEN "exact" ELSE "upper"

\* No move is left, or stop() ends the loop: either way the best score so far is
\* stored as the result of this depth.
LoopEnds ==
  /\ ~returned /\ At("ab", "loop") /\ (Top.left = {} \/ stopped)
  /\ StoreEntry(Top.node, Kind(Top), Top.best, Top.depth)
  /\ ReturnScore(Top.best)
  /\ tainted' = (tainted \/ Top.left # {} \/ Top.depth < 0)
  /\ UNCHANGED <<positionVars, stopped, goVars>>

-----------------------------------------------------------------------------
(* qSearch                                                                  *)

\* is_check: the call becomes a call of abSearch.
EnterCheck ==
  /\ Enters("q") /\ Top.node \in InCheck
  /\ frame' = [frame EXCEPT ![top] = [@ EXCEPT !.fn = "ab"]]
  /\ UNCHANGED <<top, returned, ret, positionVars, table, stopped, goVars, tainted>>

QuietDraw ==
  /\ Enters("q") /\ Top.node \notin InCheck /\ Top.node \in DrawnQuiet
  /\ ReturnScore(0)
  /\ UNCHANGED <<positionVars, table, stopped, goVars, tainted>>

Evaluates == Enters("q") /\ Top.node \notin InCheck \union DrawnQuiet

StandPatCutsOff ==
  /\ Evaluates /\ StandPat(Top.node) >= Top.beta
  /\ ReturnScore(StandPat(Top.node))
  /\ UNCHANGED <<positionVars, table, stopped, goVars, tainted>>

StandPatIsBest ==
  /\ Evaluates /\ StandPat(Top.node) < Top.beta
  /\ Continue([Better(Top, StandPat(Top.node)) EXCEPT !.left = Tactical[Top.node]])
  /\ UNCHANGED <<positionVars, table, stopped, goVars, tainted>>

NextCapture ==
  /\ ~returned /\ At("q", "loop") /\ ~stopped
  /\ \E m \in Top.left :
       /\ CallFor(Searching(Top, "capture", m, Top.left \ {m}),
                  "q", -Top.beta, -Top.alpha)
       /\ MakeMove(m)
  /\ UNCHANGED goVars

CaptureReturns ==
  /\ returned /\ At("q", "capture")
  /\ UnmakeMove
  /\ \/ Score >= Top.beta /\ ReturnScore(Score)
     \/ Score < Top.beta /\ Score > Top.best /\ Continue(Better(Top, Score))
     \/ Score < Top.beta /\ Score <= Top.best /\ Continue([Top EXCEPT !.at = "loop"])
  /\ UNCHANGED <<table, stopped, goVars, tainted>>

CapturesEnd ==
  /\ ~returned /\ At("q", "loop") /\ (Top.left = {} \/ stopped)
  /\ ReturnScore(Top.best)
  /\ tainted' = (tainted \/ Top.left # {})
  /\ UNCHANGED <<positionVars, table, stopped, goVars>>

-----------------------------------------------------------------------------
(* rootSearch, as far as it decides what is searched: the first move with   *)
(* the whole window; a later one with a null window above scores[0] and     *)
(* then, whatever came of it, with the window from scores[0] up.            *)

AsksFor(f, at, d, m, low, beta) ==
  [f EXCEPT !.at = at, !.depth = d, !.child = m, !.alpha = -beta, !.beta = -low]

\* The root asks for a search of the move m in an iteration of depth d.
RootCall(m, d, low, beta, at) ==
  /\ top = 0 /\ ~returned /\ Top.at = "idle" /\ ~stopped
  /\ calls < MaxCalls /\ calls' = calls + 1
  /\ CallFor(AsksFor(Top, at, d, m, low, beta), "ab", low, beta)
  /\ MakeMove(m)
  /\ UNCHANGED root

RootFirst(m, d) == RootCall(m, d, MinScore, MaxScore, "full")

RootNull(m, d, s) == RootCall(m, d, -s - 1, -s, "null")

\* scores[i] > alpha, which is MIN_SCORE: the second search always follows.
RootAgain ==
  /\ top = 0 /\ returned /\ Top.at = "null" /\ Score > MinScore
  /\ CallFor([Top EXCEPT !.at = "full", !.beta = MaxScore], "ab", MinScore, -Top.alpha)
  /\ UNCHANGED <<positionVars, goVars>>

RootTakes ==
  /\ top = 0 /\ returned /\ (Top.at = "full" \/ Score <= MinScore)
  /\ UnmakeMove
  /\ Continue(RootFrame(root, Top.depth))
  /\ UNCHANGED <<table, stopped, goVars, tainted>>

\* The next go: another position, the first iteration, the same table.
NewGo ==
  /\ top = 0 /\ ~returned /\ Top.at = "idle" /\ calls < MaxCalls
  /\ root' \in Roots
  /\ frame' = [frame EXCEPT ![0] = RootFrame(root', 0)]
  /\ line' = [line EXCEPT ![0] = root']
  /\ stopped' = FALSE
  /\ UNCHANGED <<top, returned, ret, made, table, calls, tainted>>

\* A limit is met or the GUI sends stop.
Abort ==
  /\ ~stopped /\ stopped' = TRUE
  /\ UNCHANGED <<root, frame, top, returned, ret, positionVars, table, calls, tainted>>

-----------------------------------------------------------------------------
Init ==
  /\ root \in Roots
  /\ frame = [p \in Plies |-> IF p = 0 THEN RootFrame(root, 0) ELSE Unused]
  /\ top = 0
  /\ returned = FALSE
  /\ ret = 0
  /\ line = [p \in Plies |-> IF p = 0 THEN root ELSE NoNode]
  /\ made = 0
  /\ table = [s \in Slots |-> NoEntry]
  /\ stopped = FALSE
  /\ calls = 0
  /\ tainted = FALSE

AbSearch ==
  \/ EnterQuiet \/ ReturnDraw \/ ReturnEntry \/ ReturnNoMove
  \/ FirstMove \/ NextMove \/ FirstReturns \/ NullReturnsInside \/ NullReturns
  \/ FullReturns \/ LoopEnds

QSearch ==
  \/ EnterCheck \/ QuietDraw \/ StandPatCutsOff \/ StandPatIsBest
  \/ NextCapture \/ CaptureReturns \/ CapturesEnd

RootSearch ==
  \/ \E m \in Succ[root], d \in Top.depth .. MaxIter :
       RootFirst(m, d) \/ \E s \in RootScores : RootNull(m, d, s)
  \/ RootAgain \/ RootTakes

Next == AbSearch \/ QSearch \/ RootSearch \/ NewGo \/ Abort

Spec == Init /\ [][Next]_vars

-----------------------------------------------------------------------------
(* Properties.                                                              *)

Entries == [key : Nodes, type : Types, score : Int, depth : Nat]
Functions == {"ab", "q", "root", "none"}
Places == {"idle", "enter", "first", "null", "full", "loop", "capture"}
NodeSets == SUBSET Nodes
NodeOrNone == Nodes \union {NoNode}
Frames == [ fn : Functions, at : Places, node : NodeOrNone, depth : Int,
            low : Int, alpha : Int, beta : Int, best : Int,
            left : NodeSets, child : NodeOrNone ]

TypeOK ==
  /\ root \in Roots
  /\ frame \in [Plies -> Frames]
  /\ top \in Plies
  /\ returned \in BOOLEAN
  /\ ret \in Int
  /\ line \in [Plies -> NodeOrNone]
  /\ made \in Plies
  /\ table \in [Slots -> Entries \union {NoEntry}]
  /\ stopped \in BOOLEAN
  /\ calls \in 0 .. MaxCalls
  /\ tainted \in BOOLEAN

\* Every make_move is unmade on every way out of abSearch and qSearch: each call
\* works on the position it was made for, and the ply that chooses its row of
\* killer moves and its depth add up to the iteration.
Balanced ==
  /\ made = IF returned THEN top + 1 ELSE top
  /\ returned => line[made] = Top.child
  /\ \A i \in 0 .. top : /\ line[i] = frame[i].node
                         /\ frame[i].depth = frame[0].depth - i

\* No call is made with an empty or an inverted window, and every bound stays
\* between MIN_SCORE and MAX_SCORE, where its negation fits a score_cp_t too.
WindowsOpen ==
  \A i \in 1 .. top : LET f == frame[i] IN
    MinScore <= f.low /\ f.low <= f.alpha /\ f.alpha < f.beta /\ f.beta <= MaxScore

\* r is what a search of n to depth d may return for the window.
ScoreFits(r, n, d, low, beta) == FailSoft(r, Lo[n][d], Hi[n][d], low, beta)

ChildLow(f) == IF f.at = "null" THEN -f.alpha - 1 ELSE -f.beta

\* As long as no search has been cut short and no negative depth stored, every
\* call returns a score its caller may rely on: what RootSearch assumes.
ReturnSound ==
  returned /\ ~tainted =>
    ScoreFits(ret, Top.child, Top.depth - 1, ChildLow(Top), -Top.alpha)

\* As long as no search has been cut short and no negative depth stored, an entry
\* bounds the score of a search at least as deep as it says.
TableSound ==
  ~tainted =>
    \A s \in Slots : table[s] # NoEntry =>
      LET e == table[s] IN
        /\ e.type # "upper" => e.score <= Hi[e.key][e.depth]
        /\ e.type # "lower" => Lo[e.key][e.depth] <= e.score
=============================================================================
