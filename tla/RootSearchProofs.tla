-------------------------- MODULE RootSearchProofs --------------------------
(***************************************************************************)
(* Theorems about RootSearch, for any number of moves, any bound on the    *)
(* scores and whatever ranges the scores of the moves are known up to.     *)
(***************************************************************************)
EXTENDS RootSearch, TLAPS

\* What is known of the score r of a move once both searches around the best
\* score have returned: it is not below the range of the move, and not above it
\* if it is better than the best.
Fits(v, r, best) == v.low <= r /\ (r > best => r <= v.high)

LEMMA FullWindowIsInRange ==
  ASSUME NEW v \in [low : Scores, high : Scores], NEW r \in Scores,
         FailSoft(r, v.low, v.high, -MaxScore, MaxScore)
  PROVE  v.low <= r /\ r <= v.high
<1>1. v.low \in Scores /\ v.high \in Scores
  OBVIOUS
<1>. QED BY <1>1, ScoreAssumption DEF FailSoft, Scores

LEMMA BothWindowsFit ==
  ASSUME NEW v \in [low : Scores, high : Scores], NEW s \in Scores, NEW r \in Scores,
         FailSoft(r, v.low, v.high, s, MaxScore)
  PROVE  Fits(v, r, s)
<1>1. v.low \in Scores /\ v.high \in Scores
  OBVIOUS
<1>. QED BY <1>1, ScoreAssumption DEF FailSoft, Scores, Fits

LEMMA LowestScoreFits ==
  ASSUME NEW v \in [low : Scores, high : Scores], NEW s \in Scores, NEW r \in Scores,
         FailSoft(r, v.low, v.high, s, s + 1), ~(r > -MaxScore)
  PROVE  Fits(v, r, s)
<1>1. v.low \in Scores /\ v.high \in Scores
  OBVIOUS
<1>. QED BY <1>1, ScoreAssumption DEF FailSoft, Scores, Fits

-----------------------------------------------------------------------------
(* The inductive invariant.  The first score is in the range of its move,     *)
(* which lets the others be bounds; between two moves the prefix is sorted, which lets the          *)
(* insertion stop at the first score that is not smaller.                     *)

Searching == {"zero", "full", "check", "insert"}

\* The first k scores but the one at hole are sorted.
SortedBut(hole, k) ==
  \A a, b \in 1 .. k : a < b /\ a # hole /\ b # hole => scores[a] >= scores[b]

FirstIsBest(ms) ==
  /\ order[1] \in searched
  /\ range[order[1]].low <= scores[1] /\ scores[1] <= range[order[1]].high
  /\ \A m \in ms : range[m].low <= scores[1]

Places ==
  /\ pc = "first" => searched = {}
  /\ pc \in Searching \union {"loop"} => i >= 2
  /\ pc \in Searching => searched # {}
  /\ pc = "loop" /\ ~abort => searched # {}

Between ==
  /\ pc \in {"loop", "zero", "full", "check"} => SortedBut(0, i - 1)
  /\ pc # "insert" /\ searched # {} => FirstIsBest(searched)
  /\ pc = "check" /\ ~abort => Fits(range[order[i]], scores[i], scores[1])

Inserting ==
  pc = "insert" =>
    /\ j <= i
    /\ order[j] \in searched
    /\ SortedBut(j, i)
    /\ \A b \in 1 .. i : j < b => scores[j] >= scores[b]
    /\ j > 1 => /\ FirstIsBest(searched \ {order[j]})
                /\ Fits(range[order[j]], scores[j], scores[1])
    /\ j = 1 => FirstIsBest(searched)

RootInv == TypeOK /\ EveryMoveOnce /\ Places /\ Between /\ Inserting

LEMMA InitRootInv == Init => RootInv
  <1> SUFFICES ASSUME Init PROVE RootInv
    OBVIOUS
  <1> USE CountAssumption, ScoreAssumption
  <1>1. 1 \in Index /\ 0 \in Scores
    BY DEF Index, Scores
  <1>2. TypeOK
    <2>1. abort \in BOOLEAN
      BY Zenon DEF Init
    <2> QED
      BY <1>1, <2>1 DEF Init, TypeOK, Index
  <1> QED
    BY <1>2
    DEF Init, RootInv, EveryMoveOnce, Places, Between, Inserting, Searching

LEMMA SwapTwo ==
  ASSUME NEW S, NEW f \in [Index -> S], NEW k \in Index, k > 1
  PROVE  /\ Swap(f, k) \in [Index -> S]
         /\ Swap(f, k)[k] = f[k - 1] /\ Swap(f, k)[k - 1] = f[k]
         /\ \A x \in Index : x # k /\ x # k - 1 => Swap(f, k)[x] = f[x]
  BY CountAssumption DEF Swap, Index

LEMMA ResultsAreScores ==
  ASSUME NEW m, NEW a, NEW b, NEW r \in Results(m, a, b)
  PROVE  r \in Scores
  BY DEF Results

LEMMA StepTypeOK == TypeOK /\ Places /\ [Next]_vars => TypeOK'
  <1> SUFFICES ASSUME TypeOK, Places, [Next]_vars PROVE TypeOK'
    OBVIOUS
  <1> USE CountAssumption DEF Index
  <1>1. CASE StartIteration
    <2>1. range' \in [Moves -> [low : Scores, high : Scores]]
      BY <1>1, RangeAssumption DEF StartIteration
    <2> QED
      BY <1>1, <2>1 DEF TypeOK, StartIteration
  <1>2. CASE PollStop
    BY <1>2 DEF TypeOK, PollStop
  <1>3. CASE SearchFirst
    <2>1. order[1] \in Moves
      BY DEF TypeOK
    <2>2. scores' \in [Index -> Scores]
      BY <1>3, ResultsAreScores DEF TypeOK, SearchFirst
    <2>3. searched' \subseteq Moves
      BY <1>3, <2>1 DEF TypeOK, SearchFirst
    <2> QED
      BY <1>3, <2>2, <2>3 DEF TypeOK, SearchFirst
  <1>4. CASE LoopEnds
    BY <1>4 DEF TypeOK, LoopEnds
  <1>5. CASE LoopGoesOn
    BY <1>5 DEF TypeOK, LoopGoesOn, Places
  <1>6. CASE SearchZeroWindow
    <2>1. scores' \in [Index -> Scores] /\ pc' \in {"full", "check"}
      BY <1>6, ResultsAreScores DEF TypeOK, SearchZeroWindow
    <2> QED
      BY <1>6, <2>1 DEF TypeOK, SearchZeroWindow
  <1>7. CASE SearchFullWindow
    <2>1. scores' \in [Index -> Scores]
      BY <1>7, ResultsAreScores DEF TypeOK, SearchFullWindow
    <2> QED
      BY <1>7, <2>1 DEF TypeOK, SearchFullWindow
  <1>8. CASE CheckStops
    BY <1>8 DEF TypeOK, CheckStops
  <1>9. CASE CheckGoesOn
    BY <1>9 DEF TypeOK, CheckGoesOn
  <1>10. CASE InsertSwaps
    <2>1. Swap(scores, j) \in [Index -> Scores] /\ Swap(order, j) \in [Index -> Moves]
      BY <1>10, SwapTwo DEF TypeOK, InsertSwaps
    <2> QED
      BY <1>10, <2>1 DEF TypeOK, InsertSwaps
  <1>11. CASE InsertEnds
    BY <1>11 DEF TypeOK, InsertEnds
  <1>12. CASE Abort
    BY <1>12 DEF TypeOK, Abort
  <1>13. CASE UNCHANGED vars
    BY <1>13 DEF TypeOK, vars
  <1> QED
    BY <1>1, <1>2, <1>3, <1>4, <1>5, <1>6, <1>7, <1>8, <1>9, <1>10, <1>11,
       <1>12, <1>13 DEF Next, Worker

\* Only an insertion changes the order, and it swaps two moves.
LEMMA StepOrder ==
  ASSUME TypeOK, [Next]_vars
  PROVE  order' = order \/ InsertSwaps
  BY DEF Next, Worker, StartIteration, PollStop, SearchFirst, LoopEnds,
         LoopGoesOn, SearchZeroWindow, SearchFullWindow, CheckStops,
         CheckGoesOn, InsertEnds, Abort, vars

\* What a step of the insertion does to the two lists.
LEMMA InsertionSwaps ==
  ASSUME TypeOK, InsertSwaps
  PROVE  /\ j \in Index /\ j - 1 \in Index /\ j > 1
         /\ order' \in [Index -> Moves] /\ scores' \in [Index -> Scores]
         /\ order'[j] = order[j - 1] /\ order'[j - 1] = order[j]
         /\ scores'[j] = scores[j - 1] /\ scores'[j - 1] = scores[j]
         /\ \A x \in Index : x # j /\ x # j - 1 =>
              order'[x] = order[x] /\ scores'[x] = scores[x]
  <1>1. j \in Index /\ j - 1 \in Index /\ j > 1
    BY CountAssumption DEF TypeOK, InsertSwaps, Index
  <1>2. order \in [Index -> Moves] /\ scores \in [Index -> Scores]
    BY DEF TypeOK
  <1>3. order' = Swap(order, j) /\ scores' = Swap(scores, j)
    BY DEF InsertSwaps
  <1>4. /\ order' \in [Index -> Moves]
        /\ order'[j] = order[j - 1] /\ order'[j - 1] = order[j]
        /\ \A x \in Index : x # j /\ x # j - 1 => order'[x] = order[x]
    BY <1>1, <1>2, <1>3, SwapTwo
  <1>5. /\ scores' \in [Index -> Scores]
        /\ scores'[j] = scores[j - 1] /\ scores'[j - 1] = scores[j]
        /\ \A x \in Index : x # j /\ x # j - 1 => scores'[x] = scores[x]
    BY <1>1, <1>2, <1>3, SwapTwo
  <1> QED
    BY <1>1, <1>4, <1>5

LEMMA StepEveryMoveOnce ==
  TypeOK /\ EveryMoveOnce /\ [Next]_vars => EveryMoveOnce'
  <1> SUFFICES ASSUME TypeOK, EveryMoveOnce, [Next]_vars PROVE EveryMoveOnce'
    OBVIOUS
  <1>1. CASE order' = order
    BY <1>1 DEF EveryMoveOnce
  <1>2. CASE InsertSwaps
    <2>1. /\ j \in Index /\ j - 1 \in Index
          /\ order'[j] = order[j - 1] /\ order'[j - 1] = order[j]
          /\ \A x \in Index : x # j /\ x # j - 1 => order'[x] = order[x]
      BY <1>2, InsertionSwaps
    <2>2. ASSUME NEW m \in Moves PROVE \E k \in Index : order'[k] = m
      <3>1. PICK k \in Index : order[k] = m
        BY DEF EveryMoveOnce
      <3> QED
        BY <2>1, <3>1
    <2>3. ASSUME NEW k \in Index, NEW l \in Index, order'[k] = order'[l]
          PROVE  k = l
      BY <2>1, <2>3, Z3 DEF EveryMoveOnce
    <2> QED
      BY <2>2, <2>3 DEF EveryMoveOnce
  <1> QED
    BY <1>1, <1>2, StepOrder

LEMMA StepPlaces == TypeOK /\ Places /\ [Next]_vars => Places'
  <1> SUFFICES ASSUME TypeOK, Places, [Next]_vars PROVE Places'
    OBVIOUS
  <1> USE CountAssumption DEF TypeOK, Index, Places, Searching
  <1>1. CASE StartIteration
    BY <1>1 DEF StartIteration
  <1>2. CASE PollStop
    BY <1>2 DEF PollStop
  <1>3. CASE SearchFirst
    BY <1>3 DEF SearchFirst
  <1>4. CASE LoopEnds
    BY <1>4 DEF LoopEnds
  <1>5. CASE LoopGoesOn
    BY <1>5 DEF LoopGoesOn
  <1>6. CASE SearchZeroWindow
    BY <1>6 DEF SearchZeroWindow
  <1>7. CASE SearchFullWindow
    BY <1>7 DEF SearchFullWindow
  <1>8. CASE CheckStops
    BY <1>8 DEF CheckStops
  <1>9. CASE CheckGoesOn
    BY <1>9 DEF CheckGoesOn
  <1>10. CASE InsertSwaps
    BY <1>10 DEF InsertSwaps
  <1>11. CASE InsertEnds
    BY <1>11 DEF InsertEnds
  <1>12. CASE Abort
    BY <1>12 DEF Abort
  <1>13. CASE UNCHANGED vars
    BY <1>13 DEF vars
  <1> QED
    BY <1>1, <1>2, <1>3, <1>4, <1>5, <1>6, <1>7, <1>8, <1>9, <1>10, <1>11,
       <1>12, <1>13 DEF Next, Worker

\* After the full window of the first move.
LEMMA FirstMove ==
  ASSUME RootInv, SearchFirst
  PROVE  Between'
  <1> USE CountAssumption DEF Index
  <1>1. SortedBut(0, i - 1)' /\ pc' = "loop"
    BY DEF SortedBut, SearchFirst
  <1>2. CASE abort
    BY <1>1, <1>2 DEF RootInv, Between, Places, SearchFirst
  <1>3. CASE ~abort
    <2>1. order[1] \in Moves /\ range[order[1]] \in [low : Scores, high : Scores]
      BY DEF RootInv, TypeOK
    <2>2. PICK r \in Results(order[1], -MaxScore, MaxScore) : scores'[1] = r
      BY DEF RootInv, TypeOK, SearchFirst
    <2>5. range[order[1]].low <= r /\ r <= range[order[1]].high
      BY <1>3, <2>1, <2>2, FullWindowIsInRange DEF Results
    <2>3. order' = order /\ range' = range /\ searched' = {order[1]}
      BY <1>3 DEF SearchFirst
    <2>4. FirstIsBest(searched)'
      BY <2>1, <2>2, <2>3, <2>5 DEF FirstIsBest
    <2> QED
      BY <1>1, <2>4 DEF Between
  <1> QED
    BY <1>2, <1>3 DEF RootInv, TypeOK

\* The two searches of a later move leave what is before it.
LEMMA LaterMove ==
  ASSUME RootInv, SearchZeroWindow \/ SearchFullWindow
  PROVE  Between'
  <1> USE CountAssumption DEF Index
  <1>1. i \in Index /\ i >= 2 /\ searched # {}
    BY DEF RootInv, TypeOK, Places, Searching, SearchZeroWindow, SearchFullWindow
  <1>2. PICK r \in Scores :
          /\ scores' = [scores EXCEPT ![i] = r]
          /\ pc' = "check" /\ ~abort => Fits(range[order[i]], r, scores[1])
    <2>1. /\ order[i] \in Moves /\ scores[1] \in Scores
          /\ range[order[i]] \in [low : Scores, high : Scores]
      BY <1>1 DEF RootInv, TypeOK
    <2>2. CASE SearchZeroWindow
      BY <2>1, <2>2, LowestScoreFits, ResultsAreScores
      DEF SearchZeroWindow, Results
    <2>3. CASE SearchFullWindow
      BY <2>1, <2>3, BothWindowsFit, ResultsAreScores
      DEF SearchFullWindow, Results
    <2> QED
      BY <2>2, <2>3
  <1>3. /\ scores'[i] = r
        /\ \A x \in 1 .. i - 1 : scores'[x] = scores[x]
    BY <1>1, <1>2 DEF RootInv, TypeOK
  <1>4. /\ pc \in {"zero", "full"} /\ pc' \in {"full", "check"}
        /\ UNCHANGED <<order, i, j, abort, range, searched>>
    BY DEF SearchZeroWindow, SearchFullWindow
  <1>5. SortedBut(0, i - 1) /\ FirstIsBest(searched)
    BY <1>1, <1>4 DEF RootInv, Between
  <1>6. SortedBut(0, i - 1)'
    BY <1>1, <1>3, <1>4, <1>5 DEF SortedBut
  <1>7. scores'[1] = scores[1]
    BY <1>1, <1>3
  <1>8. FirstIsBest(searched)'
    BY <1>4, <1>5, <1>7 DEF FirstIsBest
  <1> QED
    BY <1>2, <1>3, <1>4, <1>6, <1>7, <1>8 DEF Between, Fits

\* The move joins the list at its end.
LEMMA InsertionBegins ==
  ASSUME RootInv, CheckGoesOn
  PROVE  Inserting'
  <1> USE CountAssumption DEF Index
  <1>1. i \in Index /\ i >= 2 /\ searched # {}
    BY DEF RootInv, TypeOK, Places, Searching, CheckGoesOn
  <1>2. /\ SortedBut(0, i - 1) /\ FirstIsBest(searched)
        /\ Fits(range[order[i]], scores[i], scores[1])
    BY <1>1 DEF RootInv, Between, CheckGoesOn
  <1>3. /\ j' = i /\ searched' = searched \union {order[i]}
        /\ UNCHANGED <<order, scores, i, range>>
    BY DEF CheckGoesOn
  <1>4. j' <= i' /\ order'[j'] \in searched'
    BY <1>1, <1>3
  <1>5. SortedBut(j, i)'
    BY <1>1, <1>2, <1>3 DEF SortedBut
  <1>6. \A b \in 1 .. i' : ~(j' < b)
    BY <1>1, <1>3
  <1>7. FirstIsBest(searched \ {order[j]})'
    BY <1>2, <1>3 DEF FirstIsBest
  <1> QED
    BY <1>1, <1>2, <1>3, <1>4, <1>5, <1>6, <1>7 DEF Inserting

\* One place up: the score passed is not below those behind it.
LEMMA InsertionGoesOn ==
  ASSUME RootInv, InsertSwaps
  PROVE  Inserting'
  <1> USE CountAssumption DEF Index
  <1>1. /\ j \in Index /\ j - 1 \in Index /\ j > 1
        /\ order'[j] = order[j - 1] /\ order'[j - 1] = order[j]
        /\ scores'[j] = scores[j - 1] /\ scores'[j - 1] = scores[j]
        /\ \A x \in Index : x # j /\ x # j - 1 =>
             order'[x] = order[x] /\ scores'[x] = scores[x]
    BY InsertionSwaps DEF RootInv
  <1>2. /\ j' = j - 1 /\ scores[j - 1] < scores[j]
        /\ UNCHANGED <<i, range, searched>>
    BY DEF InsertSwaps
  <1>3. /\ i \in Index /\ j <= i
        /\ order[j] \in searched /\ SortedBut(j, i)
        /\ \A b \in 1 .. i : j < b => scores[j] >= scores[b]
        /\ FirstIsBest(searched \ {order[j]})
        /\ Fits(range[order[j]], scores[j], scores[1])
    BY <1>1 DEF RootInv, TypeOK, Inserting, InsertSwaps
  <1>4. /\ \A x \in Index : scores[x] \in Int
        /\ \A m \in searched : range[m].low \in Int /\ range[m].high \in Int
    BY ScoreAssumption DEF RootInv, TypeOK, Scores
  <1>5. j' <= i' /\ order'[j'] \in searched'
    BY <1>1, <1>2, <1>3
  <1>6. SortedBut(j, i)'
    <2> SUFFICES ASSUME NEW a \in 1 .. i, NEW b \in 1 .. i,
                        a < b, a # j - 1, b # j - 1
                 PROVE  scores'[a] >= scores'[b]
      BY <1>2 DEF SortedBut
    <2>1. a \in Index /\ b \in Index
      BY <1>3
    <2>2. CASE a = j
      BY <1>1, <1>3, <2>1, <2>2 DEF SortedBut
    <2>3. CASE b = j
      BY <1>1, <1>3, <2>1, <2>3 DEF SortedBut
    <2>4. CASE a # j /\ b # j
      BY <1>1, <1>3, <2>1, <2>4 DEF SortedBut
    <2> QED
      BY <2>2, <2>3, <2>4
  <1>7. ASSUME NEW b \in 1 .. i', j' < b PROVE scores'[j'] >= scores'[b]
    <2>1. b \in Index /\ b >= j
      BY <1>1, <1>2, <1>3, <1>7
    <2>2. CASE b = j
      BY <1>1, <1>2, <1>4, <2>2
    <2>3. CASE b > j
      BY <1>1, <1>2, <1>3, <2>1, <2>3, <1>7
    <2> QED
      BY <2>1, <2>2, <2>3, <1>1
  <1>8. CASE j' > 1
    <2>1. /\ order'[1] = order[1] /\ scores'[1] = scores[1]
          /\ order'[j'] = order[j] /\ scores'[j'] = scores[j]
      BY <1>1, <1>2, <1>8
    <2> QED
      BY <1>2, <1>3, <1>5, <1>6, <1>7, <1>8, <2>1 DEF Inserting, FirstIsBest
  <1>9. CASE j' = 1
    <2>1. /\ j = 2 /\ scores'[1] = scores[2] /\ order'[1] = order[2]
          /\ scores[1] < scores[2]
      BY <1>1, <1>2, <1>9
    <2>2. range[order[2]].low <= scores[2] /\ scores[2] <= range[order[2]].high
      BY <1>1, <1>3, <1>4, <2>1 DEF Fits
    <2>3. \A m \in searched : range[m].low <= scores[2]
      BY <1>1, <1>3, <1>4, <2>1, <2>2 DEF FirstIsBest
    <2>4. FirstIsBest(searched)'
      BY <1>2, <1>3, <2>1, <2>2, <2>3 DEF FirstIsBest
    <2> QED
      BY <1>2, <1>5, <1>6, <1>7, <1>9, <2>4 DEF Inserting
  <1> QED
    BY <1>1, <1>2, <1>8, <1>9

\* The insertion stops at a score that is not smaller: the first move stays.
LEMMA InsertionEnds ==
  ASSUME RootInv, InsertEnds
  PROVE  Between'
  <1> USE CountAssumption DEF Index
  <1>1. /\ pc' = "loop" /\ i' = i + 1
        /\ UNCHANGED <<order, scores, j, range, searched>>
    BY DEF InsertEnds
  <1>2. /\ i \in Index /\ j \in Index /\ j <= i
        /\ order[j] \in searched /\ SortedBut(j, i)
        /\ \A b \in 1 .. i : j < b => scores[j] >= scores[b]
        /\ j > 1 => /\ FirstIsBest(searched \ {order[j]})
                    /\ Fits(range[order[j]], scores[j], scores[1])
                    /\ scores[j - 1] >= scores[j]
        /\ j = 1 => FirstIsBest(searched)
    <2>1. pc = "insert" /\ i \in Index /\ j \in Index
      BY DEF RootInv, TypeOK, InsertEnds
    <2>2. j > 1 => scores[j - 1] >= scores[j]
      <3> SUFFICES ASSUME j > 1 PROVE scores[j - 1] >= scores[j]
        OBVIOUS
      <3>1. scores[j - 1] \in Scores /\ scores[j] \in Scores
        BY <2>1 DEF RootInv, TypeOK
      <3> QED
        BY <3>1, ScoreAssumption DEF InsertEnds, Scores
    <2> QED
      BY <2>1, <2>2 DEF RootInv, Inserting
  <1>3. /\ \A x \in Index : scores[x] \in Int
        /\ \A m \in searched : range[m].low \in Int /\ range[m].high \in Int
    BY ScoreAssumption DEF RootInv, TypeOK, Scores
  <1>4. \A a \in 1 .. i : a < j => scores[a] >= scores[j]
    <2> SUFFICES ASSUME NEW a \in 1 .. i, a < j PROVE scores[a] >= scores[j]
      OBVIOUS
    <2>1. a = j - 1 \/ scores[a] >= scores[j - 1]
      BY <1>2 DEF SortedBut
    <2>2. scores[j - 1] >= scores[j] /\ a \in Index /\ j - 1 \in Index
      BY <1>2
    <2> QED
      BY <1>2, <1>3, <2>1, <2>2
  <1>5. SortedBut(0, i - 1)'
    <2> SUFFICES ASSUME NEW a \in 1 .. i, NEW b \in 1 .. i, a < b
                 PROVE  scores[a] >= scores[b]
      BY <1>1, <1>2 DEF SortedBut
    <2> QED
      BY <1>2, <1>4 DEF SortedBut
  <1>6. FirstIsBest(searched)
    <2>1. CASE j = 1
      BY <1>2, <2>1
    <2>2. CASE j > 1
      <3>1. scores[1] >= scores[j]
        BY <1>2, <1>4, <2>2
      <3>2. range[order[j]].low <= scores[1]
        BY <1>2, <1>3, <2>2, <3>1 DEF Fits
      <3> QED
        BY <1>2, <2>2, <3>2 DEF FirstIsBest
    <2> QED
      BY <1>2, <2>1, <2>2
  <1>7. FirstIsBest(searched)'
    BY <1>1, <1>6 DEF FirstIsBest
  <1> QED
    BY <1>1, <1>5, <1>7 DEF Between

LEMMA StepBetween ==
  ASSUME RootInv, [Next]_vars
  PROVE  Between' /\ Inserting'
  <1> USE DEF Searching
  <1>1. CASE StartIteration
    BY <1>1 DEF Between, Inserting, StartIteration
  <1>2. CASE PollStop
    BY <1>2 DEF RootInv, Between, Inserting, PollStop, FirstIsBest
  <1>3. CASE SearchFirst
    BY <1>3, FirstMove DEF Inserting, SearchFirst
  <1>4. CASE LoopEnds
    BY <1>4 DEF RootInv, Between, Inserting, LoopEnds, FirstIsBest
  <1>5. CASE LoopGoesOn
    BY <1>5 DEF RootInv, Between, Inserting, LoopGoesOn, FirstIsBest, SortedBut
  <1>6. CASE SearchZeroWindow
    <2>1. pc' \in {"full", "check"}
      BY <1>6 DEF SearchZeroWindow
    <2> QED
      BY <1>6, <2>1, LaterMove DEF Inserting
  <1>7. CASE SearchFullWindow
    BY <1>7, LaterMove DEF Inserting, SearchFullWindow
  <1>8. CASE CheckStops
    BY <1>8 DEF RootInv, Between, Inserting, CheckStops, FirstIsBest
  <1>9. CASE CheckGoesOn
    BY <1>9, InsertionBegins DEF Between, CheckGoesOn
  <1>10. CASE InsertSwaps
    BY <1>10, InsertionGoesOn DEF Between, InsertSwaps
  <1>11. CASE InsertEnds
    BY <1>11, InsertionEnds DEF Inserting, InsertEnds
  <1>12. CASE Abort
    BY <1>12 DEF RootInv, Between, Inserting, Abort, FirstIsBest, SortedBut
  <1>13. CASE UNCHANGED vars
    BY <1>13 DEF RootInv, Between, Inserting, vars, FirstIsBest, SortedBut
  <1> QED
    BY <1>1, <1>2, <1>3, <1>4, <1>5, <1>6, <1>7, <1>8, <1>9, <1>10, <1>11,
       <1>12, <1>13 DEF Next, Worker

LEMMA StepRootInv == RootInv /\ [Next]_vars => RootInv'
  BY StepTypeOK, StepEveryMoveOnce, StepPlaces, StepBetween DEF RootInv

LEMMA RootInvHolds == Spec => []RootInv
  BY InitRootInv, StepRootInv, PTL DEF Spec

-----------------------------------------------------------------------------
\* The lists of the worker keep their types, and the loops their bounds.
THEOREM TypeCorrect == Spec => []TypeOK
  <1>1. RootInv => TypeOK
    BY DEF RootInv
  <1> QED
    BY <1>1, RootInvHolds, PTL

\* The list of root moves is a permutation of the legal moves for ever: no
\* iteration, stopped or not, loses one or doubles one.
THEOREM NoMoveLost == Spec => []EveryMoveOnce
  <1>1. RootInv => EveryMoveOnce
    BY DEF RootInv
  <1> QED
    BY <1>1, RootInvHolds, PTL

\* "moves are ordered based on score in previous iteration".
THEOREM PrefixIsSorted == Spec => []SortedPrefix
  <1>1. RootInv => SortedPrefix
    BY CountAssumption
    DEF RootInv, TypeOK, Index, Between, SortedBut, SortedPrefix
  <1> QED
    BY <1>1, RootInvHolds, PTL

\* No move searched to the end is known to be better than the one bot_on_stop
\* prints, whatever the null windows returned and wherever the search was aborted.
THEOREM FirstMoveIsBest == Spec => []BestOfSearched
  <1>1. RootInv => BestOfSearched
    <2> SUFFICES ASSUME RootInv, pc # "insert", NEW m \in searched
                 PROVE  /\ order[1] \in searched
                        /\ range[m].low <= range[order[1]].high
      BY DEF BestOfSearched
    <2>1. FirstIsBest(searched)
      BY DEF RootInv, Between
    <2>2. /\ order[1] \in searched
          /\ range[m].low <= scores[1] /\ scores[1] <= range[order[1]].high
      BY <2>1 DEF FirstIsBest
    <2>3. /\ range[m].low \in Scores /\ range[order[1]].high \in Scores
          /\ scores[1] \in Scores
      BY <2>2, CountAssumption DEF RootInv, TypeOK, Index
    <2> QED
      BY <2>2, <2>3, ScoreAssumption DEF Scores
  <1> QED
    BY <1>1, RootInvHolds, PTL

\* An iteration stopped in its first move leaves the answer of the one before.
THEOREM AnswerIsKept == Spec => []PreviousKept
  <1>1. Init => PreviousKept
    BY DEF Init, PreviousKept
  <1>2. RootInv /\ PreviousKept /\ [Next]_vars => PreviousKept'
    <2> SUFFICES ASSUME RootInv, PreviousKept, [Next]_vars PROVE PreviousKept'
      OBVIOUS
    <2>1. CASE InsertSwaps
      BY <2>1 DEF RootInv, Places, Searching, InsertSwaps, PreviousKept
    <2>2. CASE order' = order
      BY <2>2
      DEF PreviousKept, Next, Worker, StartIteration, PollStop, SearchFirst,
          LoopEnds, LoopGoesOn, SearchZeroWindow, SearchFullWindow, CheckStops,
          CheckGoesOn, InsertSwaps, InsertEnds, Abort, vars
    <2> QED
      BY <2>1, <2>2, StepOrder DEF RootInv
  <1> QED
    BY <1>1, <1>2, RootInvHolds, PTL DEF Spec
=============================================================================
