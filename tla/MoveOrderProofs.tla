-------------------------- MODULE MoveOrderProofs --------------------------
(***************************************************************************)
(* Theorems about MoveOrder, for any moves, any order the generator finds  *)
(* them in, any legal ones among them and any priorities.                  *)
(***************************************************************************)
EXTENDS MoveOrder, FiniteSetTheorems, TLAPS

MovesOf(l) == {l[k].move : k \in DOMAIN l}

\* No move is twice in the list.
Distinct(l) == \A x, y \in DOMAIN l : l[x].move = l[y].move => x = y

-----------------------------------------------------------------------------
(* What the operations on the list do to it.                                *)

LEMMA PriorityFits == ASSUME NEW p \in Int PROVE Priority12(p) \in Priorities
  BY DEF Priority12, Priorities

LEMMA SwapRemoveIsList ==
  ASSUME NEW l \in Seq(Entries), NEW k \in DOMAIN l
  PROVE  SwapRemove(l, k) \in Seq(Entries) /\ Len(SwapRemove(l, k)) = Len(l) - 1
  <1>1. \A x \in 1 .. Len(l) : l[x] \in Entries
    OBVIOUS
  <1>2. Len(l) - 1 \in Nat /\ k \in 1 .. Len(l)
    OBVIOUS
  <1>3. SwapRemove(l, k) \in [1 .. Len(l) - 1 -> Entries]
    BY <1>1, <1>2 DEF SwapRemove
  <1> QED
    BY <1>2, <1>3

LEMMA SwapRemoveTakesOne ==
  ASSUME NEW l \in Seq(Entries), NEW k \in DOMAIN l, Distinct(l)
  PROVE  /\ Distinct(SwapRemove(l, k))
         /\ MovesOf(SwapRemove(l, k)) = MovesOf(l) \ {l[k].move}
  <1> DEFINE s == SwapRemove(l, k)
             n == Len(l)
  <1>1. n \in Nat /\ n >= 1 /\ k \in 1 .. n /\ DOMAIN l = 1 .. n
    OBVIOUS
  <1>2. DOMAIN s = 1 .. n - 1
    BY DEF SwapRemove
  <1>3. \A x \in 1 .. n - 1 : s[x] = IF x = k THEN l[n] ELSE l[x]
    BY DEF SwapRemove
  <1>4. \A x, y \in 1 .. n : l[x].move = l[y].move => x = y
    BY <1>1 DEF Distinct
  <1> HIDE DEF s, n
  <1>5. Distinct(s)
    BY <1>1, <1>2, <1>3, <1>4 DEF Distinct
  <1>6. ASSUME NEW x \in 1 .. n - 1
        PROVE  s[x].move \in MovesOf(l) \ {l[k].move}
    BY <1>1, <1>3, <1>4 DEF MovesOf
  <1>7. ASSUME NEW y \in 1 .. n, y # k
        PROVE  \E x \in 1 .. n - 1 : s[x] = l[y]
    <2>1. CASE y = n
      <3>1. k \in 1 .. n - 1 /\ s[k] = l[y]
        BY <2>1, <1>1, <1>3, <1>7
      <3> QED
        BY <3>1
    <2>2. CASE y # n
      <3>1. y \in 1 .. n - 1
        BY <2>2, <1>1, <1>7
      <3>2. s[y] = l[y]
        BY <3>1, <1>3, <1>7
      <3> QED
        BY <3>1, <3>2
    <2> QED
      BY <2>1, <2>2
  <1>8. MovesOf(s) \subseteq MovesOf(l) \ {l[k].move}
    BY <1>2, <1>6 DEF MovesOf
  <1>9. MovesOf(l) \ {l[k].move} \subseteq MovesOf(s)
    <2> SUFFICES ASSUME NEW y \in 1 .. n, l[y].move # l[k].move
                 PROVE  l[y].move \in MovesOf(s)
      BY <1>1 DEF MovesOf
    <2>1. PICK x \in 1 .. n - 1 : s[x] = l[y]
      BY <1>7
    <2> QED
      BY <2>1, <1>2 DEF MovesOf
  <1> QED
    BY <1>5, <1>8, <1>9 DEF s

\* Giving priorities changes no move.
SameMoves(l, m) ==
  DOMAIN m = DOMAIN l /\ \A k \in DOMAIN l : m[k].move = l[k].move

LEMMA SameMovesKeep ==
  ASSUME NEW l, NEW m, SameMoves(l, m)
  PROVE  MovesOf(m) = MovesOf(l) /\ (Distinct(l) => Distinct(m))
  BY DEF SameMoves, MovesOf, Distinct

\* An entry, and the entries of a list, with other priorities.
WithPrio(e, q) == [e EXCEPT !.prio = q]

LEMMA OtherPriority ==
  ASSUME NEW e \in Entries, NEW q \in Priorities
  PROVE  /\ WithPrio(e, q) \in Entries
         /\ WithPrio(e, q).move = e.move
         /\ WithPrio(e, q).prio = q
  BY SMT DEF Entries, WithPrio

Prioritised(l, p) == [k \in DOMAIN l |-> WithPrio(l[k], p[k])]

LEMMA PrioritiesOnly ==
  ASSUME NEW l \in Seq(Entries), NEW p \in [DOMAIN l -> Priorities]
  PROVE  /\ Prioritised(l, p) \in Seq(Entries)
         /\ Len(Prioritised(l, p)) = Len(l)
         /\ SameMoves(l, Prioritised(l, p))
         /\ \A k \in DOMAIN l : Prioritised(l, p)[k].prio = p[k]
  <1>1. Len(l) \in Nat /\ DOMAIN l = 1 .. Len(l)
    OBVIOUS
  <1>2. ASSUME NEW k \in DOMAIN l
        PROVE  /\ Prioritised(l, p)[k] \in Entries
               /\ Prioritised(l, p)[k].move = l[k].move
               /\ Prioritised(l, p)[k].prio = p[k]
    <2>1. l[k] \in Entries /\ p[k] \in Priorities
      OBVIOUS
    <2>2. Prioritised(l, p)[k] = WithPrio(l[k], p[k])
      BY DEF Prioritised
    <2> QED
      BY <2>1, <2>2, OtherPriority
  <1>3. Prioritised(l, p) \in [1 .. Len(l) -> Entries]
    BY <1>1, <1>2 DEF Prioritised
  <1>4. Prioritised(l, p) \in Seq(Entries) /\ Len(Prioritised(l, p)) = Len(l)
    BY <1>1, <1>3
  <1>5. DOMAIN Prioritised(l, p) = DOMAIN l
    BY DEF Prioritised
  <1> QED
    BY <1>2, <1>4, <1>5 DEF SameMoves

-----------------------------------------------------------------------------
(* The lists that init_move_list and the cases of the switch produce.        *)

LEMMA OrderOfMoves ==
  ASSUME pseudo \in Orders
  PROVE  /\ pseudo \in Seq(Moves) /\ Found \subseteq Moves
         /\ \A x, y \in DOMAIN pseudo : pseudo[x] = pseudo[y] => x = y
  <1>1. PICK n \in 0 .. Cardinality(Moves) :
          /\ pseudo \in [1 .. n -> Moves]
          /\ \A x, y \in 1 .. n : pseudo[x] = pseudo[y] => x = y
    BY DEF Orders
  <1>2. Cardinality(Moves) \in Nat
    BY MoveAssumption, FS_CardinalityType
  <1>3. n \in Nat
    BY <1>2
  <1>4. pseudo \in Seq(Moves)
    BY <1>1, <1>3
  <1> QED
    BY <1>1, <1>4 DEF Found

LEMMA GeneratedList ==
  ASSUME pseudo \in Orders
  PROVE  /\ Generated \in Seq(Entries) /\ Len(Generated) = Len(pseudo)
         /\ Distinct(Generated) /\ MovesOf(Generated) = Found
  <1>1. /\ Len(pseudo) \in Nat /\ DOMAIN pseudo = 1 .. Len(pseudo)
        /\ \A k \in DOMAIN pseudo : pseudo[k] \in Moves
        /\ \A x, y \in DOMAIN pseudo : pseudo[x] = pseudo[y] => x = y
    BY OrderOfMoves
  <1>2. 0 \in Priorities
    BY DEF Priorities
  <1>3. DOMAIN Generated = DOMAIN pseudo
    BY DEF Generated
  <1>4. ASSUME NEW k \in DOMAIN pseudo
        PROVE  Generated[k] \in Entries /\ Generated[k].move = pseudo[k]
    BY <1>1, <1>2 DEF Generated, Entries
  <1>5. Generated \in [1 .. Len(pseudo) -> Entries]
    BY <1>1, <1>4 DEF Generated
  <1>6. Generated \in Seq(Entries) /\ Len(Generated) = Len(pseudo)
    BY <1>1, <1>5
  <1> QED
    BY <1>1, <1>3, <1>4, <1>6 DEF Distinct, MovesOf, Found

LEMMA WithoutHashList ==
  ASSUME NEW l \in Seq(Entries), Distinct(l)
  PROVE  /\ WithoutHash(l) \in Seq(Entries) /\ Len(WithoutHash(l)) <= Len(l)
         /\ Distinct(WithoutHash(l))
         /\ MovesOf(WithoutHash(l)) = MovesOf(l) \ {hash_move}
  <1>1. CASE \E k \in DOMAIN l : l[k].move = hash_move
    <2> DEFINE k == CHOOSE k \in DOMAIN l : l[k].move = hash_move
    <2>1. k \in DOMAIN l /\ l[k].move = hash_move
      BY <1>1
    <2>2. WithoutHash(l) = SwapRemove(l, k)
      BY <1>1 DEF WithoutHash
    <2> HIDE DEF k
    <2>3. Len(l) \in Nat
      OBVIOUS
    <2> QED
      BY <2>1, <2>2, <2>3, SwapRemoveIsList, SwapRemoveTakesOne
  <1>2. CASE ~ \E k \in DOMAIN l : l[k].move = hash_move
    <2>1. WithoutHash(l) = l
      BY <1>2 DEF WithoutHash
    <2>2. MovesOf(l) = MovesOf(l) \ {hash_move}
      BY <1>2 DEF MovesOf
    <2>3. Len(l) \in Nat
      OBVIOUS
    <2> QED
      BY <2>1, <2>2, <2>3
  <1> QED
    BY <1>1, <1>2

Gains == [CaptureMoves \intersect Found -> CaptureGains]
Bonuses == [PromotionMoves \intersect Found -> PromotionGains]

LEMMA CaptureList ==
  ASSUME NEW l \in Seq(Entries), MovesOf(l) \subseteq Found, NEW gain \in Gains
  PROVE  LET m == CapturePrioritiesFor(l, gain)
         IN  m \in Seq(Entries) /\ Len(m) = Len(l) /\ SameMoves(l, m)
  <1> DEFINE p == [k \in DOMAIN l |->
                     IF l[k].move \in CaptureMoves
                     THEN CapturePriority(gain[l[k].move]) ELSE l[k].prio]
  <1>1. ASSUME NEW k \in DOMAIN l PROVE p[k] \in Priorities
    <2>1. l[k] \in Entries
      OBVIOUS
    <2>2. CASE l[k].move \in CaptureMoves
      <3>1. gain[l[k].move] \in Int
        BY <2>2, ValueAssumption DEF Gains, MovesOf
      <3> QED
        BY <2>2, <3>1, PriorityFits DEF CapturePriority, NeutralCapture
    <2>3. CASE l[k].move \notin CaptureMoves
      BY <2>1, <2>3 DEF Entries
    <2> QED
      BY <2>2, <2>3
  <1>2. p \in [DOMAIN l -> Priorities]
    BY <1>1
  <1>3. CapturePrioritiesFor(l, gain) = Prioritised(l, p)
    BY Zenon DEF CapturePrioritiesFor, Prioritised, WithPrio
  <1> HIDE DEF p
  <1> QED
    BY <1>2, <1>3, PrioritiesOnly

\* In next_capture a priority tells a capture or a promotion from a quiet move.
PriosTellNoisy(l) == \A k \in DOMAIN l : l[k].move \in NoisyMoves <=> l[k].prio > 0

LEMMA NoisyList ==
  ASSUME NEW l \in Seq(Entries), MovesOf(l) \subseteq Found,
         NEW gain \in Gains, NEW bonus \in Bonuses
  PROVE  LET m == NoisyPrioritiesFor(l, gain, bonus)
         IN  /\ m \in Seq(Entries) /\ Len(m) = Len(l) /\ SameMoves(l, m)
             /\ PriosTellNoisy(m)
  <1> DEFINE p == [k \in DOMAIN l |-> NoisyPriority(l[k].move, gain, bonus)]
  <1>1. ASSUME NEW k \in DOMAIN l
        PROVE  /\ p[k] \in Priorities
               /\ l[k].move \in NoisyMoves <=> p[k] > 0
    <2>1. CASE l[k].move \in PromotionMoves
      <3>1. bonus[l[k].move] \in PromotionGains
        BY <2>1 DEF Bonuses, MovesOf
      <3>2. p[k] = PromotionPriority(bonus[l[k].move])
        BY <2>1, MoveAssumption DEF NoisyPriority
      <3>3. bonus[l[k].move] \in Int
        BY <3>1, ValueAssumption
      <3>4. PromotionPriority(bonus[l[k].move]) \in Priorities
        BY <3>3, PriorityFits DEF PromotionPriority, WinningCapture
      <3>5. PromotionPriority(bonus[l[k].move]) > 0
        BY <3>1, GainAssumption DEF PromotionPriority, Priority12
      <3> QED
        BY <2>1, <3>2, <3>4, <3>5 DEF NoisyMoves
    <2>2. CASE l[k].move \in CaptureMoves
      <3>1. gain[l[k].move] \in CaptureGains
        BY <2>2 DEF Gains, MovesOf
      <3>2. p[k] = CapturePriority(gain[l[k].move])
        BY <2>2, MoveAssumption DEF NoisyPriority
      <3>3. gain[l[k].move] \in Int
        BY <3>1, ValueAssumption
      <3>4. CapturePriority(gain[l[k].move]) \in Priorities
        BY <3>3, PriorityFits DEF CapturePriority, NeutralCapture
      <3>5. CapturePriority(gain[l[k].move]) > 0
        BY <3>1, GainAssumption DEF CapturePriority, Priority12
      <3> QED
        BY <2>2, <3>2, <3>4, <3>5 DEF NoisyMoves
    <2>3. CASE l[k].move \notin NoisyMoves
      <3>1. p[k] = 0
        BY <2>3 DEF NoisyPriority, NoisyMoves, QuietMove
      <3> HIDE DEF p
      <3> QED
        BY <2>3, <3>1 DEF Priorities
    <2> QED
      BY <2>1, <2>2, <2>3 DEF NoisyMoves
  <1>2. p \in [DOMAIN l -> Priorities]
    BY <1>1
  <1>3. NoisyPrioritiesFor(l, gain, bonus) = Prioritised(l, p)
    BY Zenon DEF NoisyPrioritiesFor, Prioritised, WithPrio
  <1> HIDE DEF p
  <1>4. PriosTellNoisy(Prioritised(l, p))
    <2> SUFFICES ASSUME NEW k \in DOMAIN Prioritised(l, p)
                 PROVE  Prioritised(l, p)[k].move \in NoisyMoves
                          <=> Prioritised(l, p)[k].prio > 0
      BY DEF PriosTellNoisy
    <2>1. k \in DOMAIN l
      BY DEF Prioritised
    <2>2. /\ Prioritised(l, p)[k].move = l[k].move
          /\ Prioritised(l, p)[k].prio = p[k]
      BY <1>2, <2>1, PrioritiesOnly DEF SameMoves
    <2> QED
      BY <1>1, <2>1, <2>2
  <1> QED
    BY <1>2, <1>3, <1>4, PrioritiesOnly

LEMMA QuietList ==
  ASSUME NEW l \in Seq(Entries), MovesOf(l) \subseteq Found, Found \subseteq Moves,
         \A k \in DOMAIN l : l[k].move \notin NoisyMoves,
         NEW history \in [QuietMoves \intersect Found -> Histories]
  PROVE  LET m == QuietPrioritiesFor(l, history)
         IN  m \in Seq(Entries) /\ Len(m) = Len(l) /\ SameMoves(l, m)
  <1> DEFINE p == [k \in DOMAIN l |->
                     IF k <= 2 THEN KillerMoves ELSE Priority12(history[l[k].move])]
  <1>1. ASSUME NEW k \in DOMAIN l PROVE p[k] \in Priorities
    <2>1. l[k].move \in QuietMoves \intersect Found
      BY DEF MovesOf, Moves, NoisyMoves
    <2>2. history[l[k].move] \in Int
      BY <2>1, ValueAssumption
    <2>3. Priority12(history[l[k].move]) \in Priorities
      BY <2>2, PriorityFits
    <2>4. KillerMoves \in Priorities
      BY DEF KillerMoves, Priorities
    <2> QED
      BY <2>3, <2>4
  <1>2. p \in [DOMAIN l -> Priorities]
    BY <1>1
  <1>3. QuietPrioritiesFor(l, history) = Prioritised(l, p)
    BY Zenon DEF QuietPrioritiesFor, Prioritised, WithPrio
  <1> HIDE DEF p
  <1> QED
    BY <1>2, <1>3, PrioritiesOnly

-----------------------------------------------------------------------------
(* The inductive invariant.  At every moment a legal move has been returned,  *)
(* or is being tested, or is among the moves the cases of the switch still    *)
(* have to come to; and it is only one of the three.                          *)

Rest == CASE state = "pv" -> Found
          [] state = "winning" -> Found \ {hash_move}
          [] OTHER -> MovesOf(list)

Returned == {yielded[k] : k \in DOMAIN yielded}

Tested == IF pc = "test" THEN {selected} ELSE {}

WellPlaced ==
  /\ Distinct(list) /\ MovesOf(list) \subseteq Found
  /\ Tested \subseteq Found
  /\ Tested \intersect (Rest \union Returned) = {}
  /\ Returned \intersect Rest = {}
  /\ legal \subseteq Returned \union Rest \union Tested

\* next_capture has no hash move and stays in its last case.
CapturesOnly ==
  routine = "next_capture" =>
    /\ hash_move = NullMove /\ state \in {"pv", "neutral"}
    /\ Tested \union Returned \subseteq NoisyMoves
    /\ state = "neutral" => PriosTellNoisy(list)

NothingLeft == pc = "null" => Wanted \subseteq Returned

MoveInv == TypeOK /\ WellPlaced /\ CapturesOnly /\ NothingLeft

\* Until the quiet moves are given priorities only captures and promotions have
\* been selected after the hash move; afterwards there are none of them left.
QuietsLast ==
  /\ state # "losing" => (Returned \union Tested) \ {hash_move} \subseteq NoisyMoves
  /\ state = "losing" => (MovesOf(list) \union Tested) \intersect NoisyMoves = {}

HashFirst ==
  hash_move \in legal =>
    \/ state = "pv" /\ pc \in {"idle", "select"} /\ yielded = <<>>
    \/ pc = "test" /\ selected = hash_move /\ yielded = <<>>
    \/ yielded # <<>> /\ yielded[1] = hash_move

OrderInv == MoveInv /\ QuietsLast /\ HashFirst /\ NoisyFirst

-----------------------------------------------------------------------------
(* Type correctness.                                                         *)

LEMMA TakeMove ==
  ASSUME TypeOK, NEW k \in DOMAIN list, Take(k)
  PROVE  /\ list' \in Seq(Entries) /\ Len(list') = Len(list) - 1
         /\ selected' = list[k].move /\ selected' \in Moves
         /\ selected' \in MovesOf(list)
         /\ Distinct(list) => /\ Distinct(list')
                              /\ MovesOf(list') = MovesOf(list) \ {selected'}
         /\ PriosTellNoisy(list) => PriosTellNoisy(list')
         /\ pc' = "test"
  <1>1. list \in Seq(Entries)
    BY DEF TypeOK
  <1>2. list' = SwapRemove(list, k) /\ selected' = list[k].move /\ pc' = "test"
    BY DEF Take
  <1>3. list[k] \in Entries
    BY <1>1
  <1>4. selected' \in Moves
    BY <1>2, <1>3 DEF Entries
  <1>5. selected' \in MovesOf(list)
    BY <1>2 DEF MovesOf
  <1>6. Len(list) \in Nat /\ Len(list) >= 1 /\ DOMAIN list = 1 .. Len(list)
    BY <1>1
  <1>7. \A x \in DOMAIN SwapRemove(list, k) :
          SwapRemove(list, k)[x] = list[x] \/ SwapRemove(list, k)[x] = list[Len(list)]
    BY DEF SwapRemove
  <1>8. DOMAIN SwapRemove(list, k) \subseteq DOMAIN list
    BY <1>6 DEF SwapRemove
  <1>9. ASSUME PriosTellNoisy(list) PROVE PriosTellNoisy(SwapRemove(list, k))
    BY <1>6, <1>7, <1>8, <1>9 DEF PriosTellNoisy
  <1> QED
    BY <1>1, <1>2, <1>4, <1>5, <1>9, SwapRemoveIsList, SwapRemoveTakesOne

LEMMA InitTypeOK == Init => TypeOK
  <1> SUFFICES ASSUME Init PROVE TypeOK
    OBVIOUS
  <1>1. <<>> \in Seq(Entries) /\ Len(<<>>) = 0 /\ <<>> \in Seq(legal)
    OBVIOUS
  <1>2. Len(pseudo) \in Nat
    BY OrderOfMoves DEF Init
  <1> QED
    BY <1>1, <1>2 DEF Init, TypeOK

LEMMA GenerateMoves ==
  ASSUME TypeOK, Generate
  PROVE  /\ list' \in Seq(Entries) /\ Len(list') <= Len(pseudo)
         /\ Distinct(list')
         /\ MovesOf(list') = IF routine = "next_move" THEN Found \ {hash_move} ELSE Found
         /\ routine # "next_move" => PriosTellNoisy(list')
  <1>1. PICK gain \in Gains, bonus \in Bonuses :
          list' = IF routine = "next_move"
                  THEN CapturePrioritiesFor(WithoutHash(Generated), gain)
                  ELSE NoisyPrioritiesFor(Generated, gain, bonus)
    BY DEF Generate, Gains, Bonuses
  <1>2. /\ Generated \in Seq(Entries) /\ Len(Generated) = Len(pseudo)
        /\ Distinct(Generated) /\ MovesOf(Generated) = Found
    BY GeneratedList DEF TypeOK
  <1>3. Len(pseudo) \in Nat
    BY OrderOfMoves DEF TypeOK
  <1>4. CASE routine = "next_move"
    <2> DEFINE l == WithoutHash(Generated)
    <2>1. /\ l \in Seq(Entries) /\ Len(l) <= Len(pseudo)
          /\ Distinct(l) /\ MovesOf(l) = Found \ {hash_move}
      BY <1>2, WithoutHashList
    <2>2. list' = CapturePrioritiesFor(l, gain)
      BY <1>1, <1>4
    <2> HIDE DEF l
    <2>3. MovesOf(l) \subseteq Found
      BY <2>1
    <2>4. list' \in Seq(Entries) /\ Len(list') = Len(l) /\ SameMoves(l, list')
      BY <2>1, <2>2, <2>3, CaptureList
    <2> QED
      BY <1>4, <2>1, <2>4, SameMovesKeep
  <1>5. CASE routine # "next_move"
    <2> DEFINE l == Generated
    <2>1. list' = NoisyPrioritiesFor(l, gain, bonus)
      BY <1>1, <1>5
    <2>2. /\ list' \in Seq(Entries) /\ Len(list') = Len(l) /\ SameMoves(l, list')
          /\ PriosTellNoisy(list')
      BY <1>2, <2>1, NoisyList
    <2> QED
      BY <1>2, <1>3, <1>5, <2>2, SameMovesKeep
  <1> QED
    BY <1>4, <1>5

LEMMA StartQuietsMoves ==
  ASSUME TypeOK, MovesOf(list) \subseteq Found, StartQuiets
  PROVE  list' \in Seq(Entries) /\ Len(list') = Len(list) /\ SameMoves(list, list')
  <1>1. PICK history \in [QuietMoves \intersect Found -> Histories] :
          list' = QuietPrioritiesFor(list, history)
    BY DEF StartQuiets
  <1>2. \A k \in DOMAIN list : list[k].move \notin NoisyMoves
    BY DEF StartQuiets, NoisyPlaces
  <1>3. list \in Seq(Entries) /\ Found \subseteq Moves
    BY OrderOfMoves DEF TypeOK
  <1> QED
    BY <1>1, <1>2, <1>3, QuietList

\* What the three actions that take a move from the list have in common.
PickFromList ==
  /\ pc = "select" /\ state \in {"neutral", "losing"}
  /\ \E k \in DOMAIN list : Take(k)
  /\ UNCHANGED <<node, state, yielded>>

LEMMA PicksTake == PickNoisy \/ PickQuiet \/ PickCapture => PickFromList
  BY DEF PickNoisy, PickQuiet, PickCapture, PickFromList, NoisyPlaces

LEMMA StepTypeOK == TypeOK /\ WellPlaced /\ [Next]_vars => TypeOK'
  <1> SUFFICES ASSUME TypeOK, WellPlaced, [Next]_vars PROVE TypeOK'
    OBVIOUS
  <1>1. Found \subseteq Moves /\ Len(pseudo) \in Nat
    BY OrderOfMoves DEF TypeOK
  <1>2. CASE Call
    BY <1>2 DEF TypeOK, Call, node, Found
  <1>3. CASE TryHash
    BY <1>1, <1>3 DEF TypeOK, TryHash, node, Found
  <1>4. CASE Generate
    <2>1. list' \in Seq(Entries) /\ Len(list') <= Len(pseudo)
      BY <1>4, GenerateMoves
    <2> QED
      BY <1>4, <2>1 DEF TypeOK, Generate, node, Found
  <1>5. CASE PickFromList
    <2>1. PICK k \in DOMAIN list : Take(k)
      BY <1>5 DEF PickFromList
    <2>2. /\ list' \in Seq(Entries) /\ Len(list') = Len(list) - 1
          /\ selected' \in Moves /\ pc' = "test"
      BY <2>1, TakeMove
    <2>3. Len(list) \in Nat
      BY DEF TypeOK
    <2> QED
      BY <1>1, <1>5, <2>2, <2>3 DEF TypeOK, PickFromList, node, Found
  <1>6. CASE StartQuiets
    <2>1. list' \in Seq(Entries) /\ Len(list') = Len(list)
      BY <1>6, StartQuietsMoves DEF WellPlaced
    <2> QED
      BY <1>6, <2>1 DEF TypeOK, StartQuiets, node, Found
  <1>7. CASE ReturnNull
    BY <1>7 DEF TypeOK, ReturnNull, node, Found
  <1>8. CASE ReturnMove
    BY <1>8 DEF TypeOK, ReturnMove, node, Found
  <1>9. CASE TryAgain
    BY <1>9 DEF TypeOK, TryAgain, node, Found
  <1>10. CASE UNCHANGED vars
    BY <1>10 DEF TypeOK, vars, Found
  <1> QED
    BY <1>2, <1>3, <1>4, <1>5, <1>6, <1>7, <1>8, <1>9, <1>10, PicksTake
    DEF Next, Step

-----------------------------------------------------------------------------
(* Every move is in one place.                                               *)

LEMMA InitMoveInv == Init => MoveInv
  <1> SUFFICES ASSUME Init PROVE MoveInv
    OBVIOUS
  <1>1. TypeOK
    BY InitTypeOK
  <1>2. Rest = Found /\ Returned = {} /\ Tested = {} /\ MovesOf(list) = {}
    BY DEF Init, Rest, Returned, Tested, MovesOf
  <1>3. WellPlaced
    BY <1>2 DEF Init, WellPlaced, Distinct
  <1>4. CapturesOnly
    BY <1>2 DEF Init, CapturesOnly
  <1>5. NothingLeft
    BY DEF Init, NothingLeft
  <1> QED
    BY <1>1, <1>3, <1>4, <1>5 DEF MoveInv

\* The node does not change, nor what is known of it.
LEMMA NodeKept ==
  ASSUME UNCHANGED node
  PROVE  /\ Found' = Found /\ Wanted' = Wanted
         /\ routine' = routine /\ legal' = legal /\ hash_move' = hash_move
         /\ pseudo' = pseudo
  BY DEF node, Found, Wanted

LEMMA ReturnedGrows ==
  ASSUME NEW m, yielded \in Seq(legal), yielded' = Append(yielded, m)
  PROVE  Returned' = Returned \union {m}
  <1>1. Len(yielded) \in Nat /\ DOMAIN yielded = 1 .. Len(yielded)
    OBVIOUS
  <1>2. DOMAIN yielded' = 1 .. Len(yielded) + 1
    OBVIOUS
  <1>3. \A k \in 1 .. Len(yielded) : yielded'[k] = yielded[k]
    OBVIOUS
  <1>4. yielded'[Len(yielded) + 1] = m
    OBVIOUS
  <1> QED
    BY <1>1, <1>2, <1>3, <1>4 DEF Returned

LEMMA NextKeepsNode == [Next]_vars => UNCHANGED node
  BY DEF Next, Step, vars, node, Call, TryHash, Generate, PickNoisy, StartQuiets,
         PickQuiet, PickCapture, ReturnNull, ReturnMove, TryAgain

LEMMA StepMoveInv == MoveInv /\ [Next]_vars => MoveInv'
  <1> SUFFICES ASSUME MoveInv, [Next]_vars PROVE MoveInv'
    OBVIOUS
  <1>1. TypeOK /\ WellPlaced /\ CapturesOnly /\ NothingLeft
    BY DEF MoveInv
  <1>2. TypeOK'
    BY <1>1, StepTypeOK
  <1>3. /\ Found' = Found /\ Wanted' = Wanted
        /\ routine' = routine /\ legal' = legal /\ hash_move' = hash_move
    BY NextKeepsNode, NodeKept
  <1>4. NullMove \notin Found /\ (routine = "next_capture" \/ routine = "next_move")
    BY <1>1, OrderOfMoves, MoveAssumption, RoutineAssumption DEF TypeOK
  <1> SUFFICES WellPlaced' /\ CapturesOnly' /\ NothingLeft'
    BY <1>2 DEF MoveInv
  <1>5. CASE Call
    <2>1. /\ Rest' = Rest /\ Returned' = Returned /\ Tested = {} /\ Tested' = {}
          /\ list' = list
      BY <1>5, <1>3 DEF Call, Rest, Returned, Tested
    <2> QED
      BY <1>1, <1>3, <1>5, <2>1
      DEF Call, WellPlaced, CapturesOnly, NothingLeft
  <1>6. CASE TryHash
    <2>1. /\ Rest = Found /\ Rest' = Found \ {hash_move} /\ Returned' = Returned
          /\ Tested = {} /\ Tested' = {hash_move} /\ hash_move \in Found
          /\ list' = list
      BY <1>6, <1>3 DEF TryHash, Rest, Returned, Tested
    <2>2. WellPlaced'
      BY <1>1, <1>3, <2>1 DEF WellPlaced
    <2>3. routine # "next_capture"
      BY <1>1, <1>4, <2>1 DEF CapturesOnly
    <2> QED
      BY <1>3, <1>6, <2>2, <2>3 DEF TryHash, CapturesOnly, NothingLeft
  <1>7. CASE Generate
    <2>1. /\ Distinct(list')
          /\ MovesOf(list') = IF routine = "next_move" THEN Found \ {hash_move} ELSE Found
          /\ routine # "next_move" => PriosTellNoisy(list')
      BY <1>1, <1>7, GenerateMoves
    <2>2. /\ Rest' = MovesOf(list') /\ Returned' = Returned
          /\ Tested = {} /\ Tested' = {}
          /\ state' = "neutral" /\ pc' = "select"
      BY <1>7 DEF Generate, Rest, Returned, Tested
    <2>3. Rest' = Rest
      <3>1. CASE state = "winning"
        BY <1>1, <1>4, <2>1, <2>2, <3>1 DEF Rest, CapturesOnly
      <3>2. CASE state = "pv"
        BY <1>4, <1>7, <2>1, <2>2, <3>2 DEF Rest, Generate
      <3> QED
        BY <3>1, <3>2, <1>7 DEF Generate
    <2>4. WellPlaced'
      BY <1>1, <1>3, <2>1, <2>2, <2>3 DEF WellPlaced
    <2>5. CapturesOnly'
      BY <1>1, <1>3, <2>1, <2>2 DEF CapturesOnly
    <2> QED
      BY <2>2, <2>4, <2>5 DEF NothingLeft
  <1>8. CASE PickNoisy \/ PickQuiet \/ PickCapture
    <2> PickFromList
      BY <1>8, PicksTake
    <2>1. PICK k \in DOMAIN list : Take(k)
      BY DEF PickFromList
    <2>2. /\ selected' \in MovesOf(list)
          /\ Distinct(list') /\ MovesOf(list') = MovesOf(list) \ {selected'}
          /\ PriosTellNoisy(list) => PriosTellNoisy(list')
          /\ pc' = "test"
      BY <1>1, <2>1, TakeMove DEF WellPlaced
    <2>3. /\ Rest = MovesOf(list) /\ Rest' = MovesOf(list')
          /\ Returned' = Returned /\ Tested = {} /\ Tested' = {selected'}
          /\ state' = state
      BY <2>2 DEF PickFromList, Rest, Returned, Tested
    <2>4. WellPlaced'
      BY <1>1, <1>3, <2>2, <2>3 DEF WellPlaced
    <2>5. NothingLeft'
      BY <2>2 DEF NothingLeft
    <2>6. routine = "next_capture" => selected' \in NoisyMoves
      <3> SUFFICES ASSUME routine = "next_capture" PROVE selected' \in NoisyMoves
        OBVIOUS
      <3>1. PickCapture
        BY <1>1, <1>8 DEF CapturesOnly, PickNoisy, PickQuiet
      <3> QED
        BY <3>1 DEF PickCapture, Take
    <2>7. CapturesOnly'
      BY <1>1, <1>3, <2>2, <2>3, <2>6 DEF CapturesOnly
    <2> QED
      BY <2>4, <2>5, <2>7
  <1>9. CASE StartQuiets
    <2>1. SameMoves(list, list')
      BY <1>1, <1>9, StartQuietsMoves DEF WellPlaced
    <2>2. MovesOf(list') = MovesOf(list) /\ (Distinct(list) => Distinct(list'))
      BY <2>1, SameMovesKeep
    <2>3. /\ Rest = MovesOf(list) /\ Rest' = MovesOf(list')
          /\ Returned' = Returned /\ Tested = {} /\ Tested' = {}
      BY <1>9 DEF StartQuiets, Rest, Returned, Tested
    <2>4. WellPlaced'
      BY <1>1, <1>3, <2>2, <2>3 DEF WellPlaced
    <2> QED
      BY <1>3, <1>9, <2>4 DEF StartQuiets, CapturesOnly, NothingLeft
  <1>10. CASE ReturnNull
    <2>1. /\ Rest = MovesOf(list) /\ Rest' = Rest /\ Returned' = Returned
          /\ Tested = {} /\ Tested' = {} /\ list' = list /\ state' = state
      BY <1>3, <1>10 DEF ReturnNull, Rest, Returned, Tested
    <2>2. WellPlaced'
      BY <1>1, <1>3, <2>1 DEF WellPlaced
    <2>3. CapturesOnly'
      BY <1>1, <1>3, <2>1 DEF CapturesOnly
    <2>4. legal \subseteq Returned \union MovesOf(list)
      BY <1>1, <2>1 DEF WellPlaced
    <2>5. Wanted \subseteq Returned
      <3>1. CASE list = <<>>
        <4>1. MovesOf(list) = {}
          BY <3>1 DEF MovesOf
        <4> QED
          BY <2>4, <4>1 DEF Wanted
      <3>2. CASE list # <<>>
        <4>1. PICK k \in DOMAIN list :
                FirstBest(k, DOMAIN list) /\ list[k].move \in QuietMoves
          BY <1>10, <3>2 DEF ReturnNull
        <4>2. routine = "next_capture"
          BY <1>10, <3>2 DEF ReturnNull
        <4>3. PriosTellNoisy(list)
          BY <1>1, <1>10, <4>2 DEF CapturesOnly, ReturnNull
        <4>4. \A x \in DOMAIN list : list[x].prio \in Nat
          <5> SUFFICES ASSUME NEW x \in DOMAIN list PROVE list[x].prio \in Nat
            OBVIOUS
          <5>1. list[x] \in Entries
            BY <1>1 DEF TypeOK
          <5>2. list[x].prio \in Priorities
            BY <5>1 DEF Entries
          <5>3. \A p \in Priorities : p \in Nat
            BY DEF Priorities
          <5> QED
            BY <5>2, <5>3, Zenon
        <4>5. ~ list[k].prio > 0
          BY <4>1, <4>3, MoveAssumption DEF PriosTellNoisy
        <4>6. \A x \in DOMAIN list : ~ list[x].prio > 0
          BY <4>1, <4>4, <4>5 DEF FirstBest
        <4>7. MovesOf(list) \intersect NoisyMoves = {}
          BY <4>3, <4>6 DEF PriosTellNoisy, MovesOf
        <4> QED
          BY <2>4, <4>2, <4>7 DEF Wanted
      <3> QED
        BY <3>1, <3>2
    <2> QED
      BY <1>3, <2>1, <2>2, <2>3, <2>5 DEF NothingLeft
  <1>11. CASE ReturnMove
    <2>1. Returned' = Returned \union {selected}
      BY <1>1, <1>11, ReturnedGrows DEF TypeOK, ReturnMove
    <2>2. /\ Rest' = Rest /\ Tested = {selected} /\ Tested' = {}
          /\ list' = list /\ state' = state /\ pc' = "idle"
      BY <1>3, <1>11 DEF ReturnMove, Rest, Tested
    <2>3. WellPlaced'
      BY <1>1, <1>3, <2>1, <2>2 DEF WellPlaced
    <2>4. CapturesOnly'
      BY <1>1, <1>3, <2>1, <2>2 DEF CapturesOnly
    <2> QED
      BY <2>2, <2>3, <2>4 DEF NothingLeft
  <1>12. CASE TryAgain
    <2>1. /\ Rest' = Rest /\ Returned' = Returned
          /\ Tested = {selected} /\ Tested' = {}
          /\ list' = list /\ state' = state /\ pc' = "select" /\ selected \notin legal
      BY <1>3, <1>12 DEF TryAgain, Rest, Returned, Tested
    <2>2. WellPlaced'
      BY <1>1, <1>3, <2>1 DEF WellPlaced
    <2>3. CapturesOnly'
      BY <1>1, <1>3, <2>1 DEF CapturesOnly
    <2> QED
      BY <2>1, <2>2, <2>3 DEF NothingLeft
  <1>13. CASE UNCHANGED vars
    <2>1. /\ Rest' = Rest /\ Returned' = Returned /\ Tested' = Tested
          /\ list' = list /\ state' = state /\ pc' = pc
      BY <1>13, <1>3 DEF vars, Rest, Returned, Tested
    <2> QED
      BY <1>1, <1>3, <2>1 DEF WellPlaced, CapturesOnly, NothingLeft
  <1> QED
    BY <1>5, <1>6, <1>7, <1>8, <1>9, <1>10, <1>11, <1>12, <1>13
    DEF Next, Step

-----------------------------------------------------------------------------
(* The theorems.                                                             *)

LEMMA MoveInvariant == Spec => []MoveInv
  <1>1. Init => MoveInv
    BY InitMoveInv
  <1>2. MoveInv /\ [Next]_vars => MoveInv'
    BY StepMoveInv
  <1> QED
    BY <1>1, <1>2, PTL DEF Spec

\* Every variable keeps its type: the list never holds more than the generated
\* moves, every priority that is stored has 12 bits, and only legal moves are
\* returned.
THEOREM TypeCorrect == Spec => []TypeOK
  <1>1. MoveInv => TypeOK
    BY DEF MoveInv
  <1> QED
    BY <1>1, MoveInvariant, PTL

LEMMA StepPicks == MoveInv /\ [Next]_vars => [Picker!Next]_(Picker!vars)
  <1> SUFFICES ASSUME MoveInv, [Next]_vars
               PROVE  Picker!Next \/ UNCHANGED Picker!vars
    OBVIOUS
  <1>1. TypeOK /\ WellPlaced /\ CapturesOnly /\ NothingLeft
    BY DEF MoveInv
  <1>2. Wanted' = Wanted
    BY NextKeepsNode, NodeKept
  <1>3. Picker!Given = Returned
    BY DEF Picker!Given, Returned
  <1>4. CASE ReturnMove
    <2>1. /\ Tested = {selected} /\ selected \in legal /\ selected \in Moves
      <3>1. selected \in Found /\ Tested = {selected}
        BY <1>1, <1>4 DEF ReturnMove, WellPlaced, Tested
      <3> QED
        BY <1>1, <1>4, <3>1, OrderOfMoves DEF ReturnMove, TypeOK
    <2>2. selected \notin Returned
      BY <1>1, <2>1 DEF WellPlaced
    <2>3. selected \in Wanted
      <3>1. CASE routine = "next_move"
        BY <2>1, <3>1 DEF Wanted
      <3>2. CASE routine = "next_capture"
        BY <1>1, <2>1, <3>2 DEF Wanted, CapturesOnly
      <3> QED
        BY <1>1, <3>1, <3>2, RoutineAssumption DEF TypeOK
    <2>4. Picker!Return(selected)
      BY <1>2, <1>3, <1>4, <2>2, <2>3 DEF ReturnMove, Picker!Return
    <2> QED
      BY <2>1, <2>4 DEF Picker!Next
  <1>5. CASE ReturnNull
    <2>1. NothingLeft' /\ Returned' = Returned
      BY <1>5, StepMoveInv DEF MoveInv, ReturnNull, Returned
    <2>2. Wanted \subseteq Returned
      BY <1>2, <1>5, <2>1 DEF NothingLeft, ReturnNull
    <2>3. Picker!ReturnNull
      BY <1>2, <1>3, <1>5, <2>2 DEF ReturnNull, Picker!ReturnNull
    <2> QED
      BY <2>3 DEF Picker!Next
  <1>6. CASE ~ ReturnMove /\ ~ ReturnNull
    <2>1. yielded' = yielded
      BY <1>6 DEF Next, Step, Call, TryHash, Generate, PickNoisy, StartQuiets,
         PickQuiet, PickCapture, TryAgain, vars
    <2>2. (pc = "null") = (pc' = "null")
      BY <1>6 DEF Next, Step, Call, TryHash, Generate, PickNoisy, StartQuiets,
         PickQuiet, PickCapture, TryAgain, Take, vars
    <2> QED
      BY <1>2, <2>1, <2>2 DEF Picker!vars
  <1> QED
    BY <1>4, <1>5, <1>6

\* next_move returns every legal move once, next_capture every legal capture and
\* promotion, and the null move comes only after all of them: whatever the order
\* of generation, the hash move, the priorities and the illegal moves between
\* them, dropping the hash move and filling the holes from the end of the list
\* lose and repeat nothing.
THEOREM MovesGivenOnce == Spec => PickerSpec
  <1>1. Init => Picker!Init
    <2> SUFFICES ASSUME Init PROVE Picker!Init
      OBVIOUS
    <2>1. Wanted \subseteq Moves
      BY OrderOfMoves DEF Init, Wanted
    <2>2. (pc = "null") = FALSE
      BY DEF Init
    <2> QED
      BY <2>1, <2>2 DEF Init, Picker!Init
  <1>2. MoveInv /\ [Next]_vars => [Picker!Next]_(Picker!vars)
    BY StepPicks
  <1> QED
    BY <1>1, <1>2, MoveInvariant, PTL DEF Spec, PickerSpec, Picker!Spec

\* No call of next_move or next_capture goes round its loop for ever: each step
\* of a call, a rejected move included, uses up some of what is left to try.
THEOREM CallsEnd == Spec => EveryStepCounts
  <1>1. MoveInv /\ Step => StepsLeft' < StepsLeft /\ StepsLeft' >= 0
    <2> SUFFICES ASSUME TypeOK, WellPlaced, Step
                 PROVE  StepsLeft' < StepsLeft /\ StepsLeft' >= 0
      BY DEF MoveInv
    <2>1. Len(pseudo) \in Nat /\ Len(list) \in Nat /\ Len(list) <= Len(pseudo)
      BY OrderOfMoves DEF TypeOK
    <2>2. pseudo' = pseudo
      BY NextKeepsNode, NodeKept DEF Next
    <2>3. CASE TryHash
      BY <2>1, <2>2, <2>3 DEF TryHash, StepsLeft, MovesLeft, CasesLeft
    <2>4. CASE Generate
      <3>1. list' \in Seq(Entries) /\ Len(list') <= Len(pseudo)
        BY <2>4, GenerateMoves
      <3>2. Len(list') \in Nat
        BY <3>1
      <3>3. MovesLeft \in {Len(pseudo), Len(pseudo) + 1} /\ CasesLeft = 2
        BY <2>4 DEF Generate, MovesLeft, CasesLeft
      <3>4. MovesLeft' = Len(list') /\ CasesLeft' = 1
        BY <2>4 DEF Generate, MovesLeft, CasesLeft
      <3>5. /\ StepsLeft = 2 * MovesLeft + CasesLeft + 1
            /\ StepsLeft' = 2 * MovesLeft' + CasesLeft' + 1
        BY <2>4 DEF Generate, StepsLeft
      <3> QED
        BY <2>1, <3>1, <3>2, <3>3, <3>4, <3>5
    <2>5. CASE PickFromList
      <3>1. PICK k \in DOMAIN list : Take(k)
        BY <2>5 DEF PickFromList
      <3>2. list' \in Seq(Entries) /\ Len(list') = Len(list) - 1 /\ pc' = "test"
        BY <3>1, TakeMove
      <3>3. /\ MovesLeft = Len(list) /\ MovesLeft' = Len(list')
            /\ CasesLeft \in Nat /\ CasesLeft' = CasesLeft
        BY <2>5 DEF PickFromList, MovesLeft, CasesLeft
      <3>4. Len(list') \in Nat
        BY <3>2
      <3>5. /\ StepsLeft = 2 * MovesLeft + CasesLeft + 1
            /\ StepsLeft' = 2 * MovesLeft' + CasesLeft' + 2
        BY <2>5, <3>2 DEF PickFromList, StepsLeft
      <3>6. /\ MovesLeft \in Nat /\ MovesLeft' \in Nat /\ MovesLeft' = MovesLeft - 1
            /\ CasesLeft \in Nat /\ CasesLeft' = CasesLeft
        BY <2>1, <3>2, <3>3, <3>4
      <3> QED
        BY <3>5, <3>6
    <2>6. CASE StartQuiets
      <3>1. Len(list') = Len(list)
        BY <2>6, StartQuietsMoves DEF WellPlaced
      <3>2. /\ MovesLeft = Len(list) /\ MovesLeft' = Len(list')
            /\ CasesLeft = 1 /\ CasesLeft' = 0
        BY <2>6 DEF StartQuiets, MovesLeft, CasesLeft
      <3> QED
        BY <2>1, <2>6, <3>1, <3>2 DEF StartQuiets, StepsLeft
    <2>7. CASE ReturnNull \/ ReturnMove \/ TryAgain
      <3>1. /\ MovesLeft \in Nat /\ MovesLeft' = MovesLeft
            /\ CasesLeft \in Nat /\ CasesLeft' = CasesLeft
        BY <2>1, <2>2, <2>7
        DEF ReturnNull, ReturnMove, TryAgain, MovesLeft, CasesLeft
      <3> QED
        BY <2>7, <3>1 DEF ReturnNull, ReturnMove, TryAgain, StepsLeft
    <2> QED
      BY <2>3, <2>4, <2>5, <2>6, <2>7, PicksTake DEF Step
  <1>2. MoveInv /\ [Next]_vars
          => [Step => StepsLeft' < StepsLeft /\ StepsLeft' >= 0]_vars
    BY <1>1
  <1> QED
    BY <1>2, MoveInvariant, PTL DEF Spec, EveryStepCounts

-----------------------------------------------------------------------------
(* Captures and promotions first.                                            *)

LEMMA InitOrderInv == Init => OrderInv
  <1> SUFFICES ASSUME Init PROVE OrderInv
    OBVIOUS
  <1>1. MoveInv
    BY InitMoveInv
  <1>2. Returned = {} /\ Tested = {}
    BY DEF Init, Returned, Tested
  <1> QED
    BY <1>1, <1>2 DEF Init, OrderInv, QuietsLast, HashFirst, NoisyFirst

\* A legal move that is returned keeps the order.
LEMMA ReturnKeepsOrder ==
  ASSUME OrderInv, ReturnMove
  PROVE  HashFirst' /\ NoisyFirst'
  <1>1. /\ TypeOK /\ QuietsLast /\ HashFirst /\ NoisyFirst
    BY DEF OrderInv, MoveInv
  <1>2. /\ selected \in legal /\ Tested = {selected} /\ pc = "test"
        /\ yielded \in Seq(legal) /\ yielded' = Append(yielded, selected)
        /\ legal' = legal /\ hash_move' = hash_move
    BY <1>1 DEF ReturnMove, TypeOK, Tested, node
  <1> DEFINE n == Len(yielded)
  <1>3. /\ n \in Nat /\ DOMAIN yielded = 1 .. n /\ DOMAIN yielded' = 1 .. n + 1
        /\ \A k \in 1 .. n : yielded'[k] = yielded[k]
        /\ yielded'[n + 1] = selected
        /\ yielded = <<>> <=> n = 0
        /\ yielded' # <<>>
    BY <1>2
  <1> HIDE DEF n
  <1>4. HashFirst' /\ (hash_move \in legal => yielded'[1] = hash_move)
    <2>1. CASE yielded = <<>>
      <3>1. hash_move \in legal => selected = hash_move
        BY <1>1, <1>2, <2>1 DEF HashFirst
      <3>2. yielded'[1] = selected
        BY <1>3, <2>1
      <3> QED
        BY <1>2, <1>3, <3>1, <3>2 DEF HashFirst
    <2>2. CASE yielded # <<>>
      <3>1. hash_move \in legal => yielded[1] = hash_move
        BY <1>1, <2>2 DEF HashFirst
      <3>2. yielded'[1] = yielded[1]
        BY <1>3, <2>2
      <3> QED
        BY <1>2, <1>3, <3>1, <3>2 DEF HashFirst
    <2> QED
      BY <2>1, <2>2
  <1>5. ASSUME NEW k \in 1 .. n + 1, NEW l \in 1 .. n + 1,
               yielded'[k] \in QuietMoves \ {hash_move}, yielded'[l] \in NoisyMoves
        PROVE  l < k
    <2>1. CASE k \in 1 .. n /\ l \in 1 .. n
      BY <1>1, <1>3, <1>5, <2>1 DEF NoisyFirst
    <2>2. CASE k \in 1 .. n /\ l = n + 1
      <3>1. yielded[k] \in Returned /\ yielded[k] \notin NoisyMoves \union {hash_move}
        BY <1>3, <1>5, <2>2, MoveAssumption DEF Returned
      <3>2. state = "losing"
        BY <1>1, <3>1 DEF QuietsLast
      <3>3. selected \notin NoisyMoves
        BY <1>1, <1>2, <3>2 DEF QuietsLast
      <3> QED
        BY <1>3, <1>5, <2>2, <3>3
    <2>3. CASE k = n + 1 /\ l \in 1 .. n
      BY <1>3, <2>3
    <2>4. CASE k = n + 1 /\ l = n + 1
      BY <1>5, <2>4, MoveAssumption
    <2> QED
      BY <1>3, <2>1, <2>2, <2>3, <2>4
  <1> QED
    BY <1>2, <1>3, <1>4, <1>5 DEF NoisyFirst

LEMMA StepOrderInv == OrderInv /\ [Next]_vars => OrderInv'
  <1> SUFFICES ASSUME OrderInv, [Next]_vars PROVE OrderInv'
    OBVIOUS
  <1>1. /\ MoveInv /\ TypeOK /\ WellPlaced /\ CapturesOnly
        /\ QuietsLast /\ HashFirst /\ NoisyFirst
    BY DEF OrderInv, MoveInv
  <1>2. MoveInv'
    BY <1>1, StepMoveInv
  <1>3. /\ Found' = Found /\ routine' = routine /\ legal' = legal
        /\ hash_move' = hash_move
    BY NextKeepsNode, NodeKept
  <1>4. ASSUME yielded' = yielded PROVE NoisyFirst' /\ Returned' = Returned
    BY <1>1, <1>3, <1>4 DEF NoisyFirst, Returned
  <1> SUFFICES QuietsLast' /\ HashFirst' /\ NoisyFirst'
    BY <1>2 DEF OrderInv
  <1>5. CASE Call
    BY <1>1, <1>3, <1>4, <1>5 DEF Call, QuietsLast, HashFirst, Tested
  <1>6. CASE TryHash
    BY <1>1, <1>3, <1>4, <1>6 DEF TryHash, QuietsLast, HashFirst, Tested
  <1>7. CASE Generate
    <2>1. Tested = {} /\ Tested' = {} /\ state # "losing" /\ state' # "losing"
      BY <1>7 DEF Generate, Tested
    <2>2. HashFirst'
      BY <1>1, <1>3, <1>7 DEF Generate, HashFirst, TypeOK
    <2> QED
      BY <1>1, <1>3, <1>4, <1>7, <2>1, <2>2 DEF Generate, QuietsLast
  <1>8. CASE PickNoisy \/ PickQuiet \/ PickCapture
    <2> PickFromList
      BY <1>8, PicksTake
    <2>1. PICK k \in DOMAIN list : Take(k)
      BY DEF PickFromList
    <2>2. /\ selected' \in MovesOf(list) /\ MovesOf(list') = MovesOf(list) \ {selected'}
          /\ pc' = "test"
      BY <1>1, <2>1, TakeMove DEF WellPlaced
    <2>3. /\ yielded' = yielded /\ state' = state
          /\ Tested = {} /\ Tested' = {selected'}
      BY <2>2 DEF PickFromList, Tested
    <2>4. HashFirst'
      BY <1>1, <1>3, <2>3 DEF PickFromList, HashFirst
    <2>5. state # "losing" => selected' \in NoisyMoves
      BY <1>8 DEF PickNoisy, PickQuiet, PickCapture, Take, NoisyPlaces
    <2> QED
      BY <1>1, <1>3, <1>4, <2>2, <2>3, <2>4, <2>5 DEF QuietsLast
  <1>9. CASE StartQuiets
    <2>1. MovesOf(list') = MovesOf(list)
      BY <1>1, <1>9, StartQuietsMoves, SameMovesKeep DEF WellPlaced
    <2>2. MovesOf(list) \intersect NoisyMoves = {}
      BY <1>9 DEF StartQuiets, NoisyPlaces, MovesOf
    <2>3. Tested' = {} /\ state' = "losing"
      BY <1>9 DEF StartQuiets, Tested
    <2>4. HashFirst'
      BY <1>1, <1>3, <1>9 DEF StartQuiets, HashFirst
    <2> QED
      BY <1>4, <1>9, <2>1, <2>2, <2>3, <2>4 DEF StartQuiets, QuietsLast
  <1>10. CASE ReturnNull
    BY <1>1, <1>3, <1>4, <1>10 DEF ReturnNull, QuietsLast, HashFirst, Tested
  <1>11. CASE ReturnMove
    <2>1. Returned' = Returned \union {selected}
      BY <1>1, <1>11, ReturnedGrows DEF TypeOK, ReturnMove
    <2>2. /\ Tested = {selected} /\ Tested' = {}
          /\ list' = list /\ state' = state
      BY <1>11 DEF ReturnMove, Tested
    <2>3. QuietsLast'
      BY <1>1, <1>3, <2>1, <2>2 DEF QuietsLast
    <2> QED
      BY <1>11, <2>3, ReturnKeepsOrder
  <1>12. CASE TryAgain
    BY <1>1, <1>3, <1>4, <1>12 DEF TryAgain, QuietsLast, HashFirst, Tested
  <1>13. CASE UNCHANGED vars
    BY <1>1, <1>3, <1>4, <1>13 DEF vars, QuietsLast, HashFirst, Tested
  <1> QED
    BY <1>5, <1>6, <1>7, <1>8, <1>9, <1>10, <1>11, <1>12, <1>13 DEF Next, Step

\* A legal hash move is the first move returned, and of the others no quiet move
\* is returned before a capture or a promotion.
THEOREM NoisyMovesFirst == Spec => []NoisyFirst
  <1>1. Init => OrderInv
    BY InitOrderInv
  <1>2. OrderInv /\ [Next]_vars => OrderInv'
    BY StepOrderInv
  <1>3. OrderInv => NoisyFirst
    BY DEF OrderInv
  <1> QED
    BY <1>1, <1>2, <1>3, PTL DEF Spec
=============================================================================
