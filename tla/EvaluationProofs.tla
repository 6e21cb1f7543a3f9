--------------------------- MODULE EvaluationProofs ---------------------------
(***************************************************************************)
(* Theorems about Evaluation, for any square tables within the bounds of   *)
(* eval.h and any position, and about Repetition, for any positions and    *)
(* games of any length.                                                    *)
(*                                                                         *)
(* The sums of Evaluation are folds over finite sets.  That the fold       *)
(* exists, is unique and takes its elements in any order is proved here,   *)
(* by induction on the subsets of a set for which a claim holds.           *)
(***************************************************************************)
EXTENDS Evaluation, Repetition, FiniteSetTheorems, TLAPS

-----------------------------------------------------------------------------
(* Sums over finite sets.                                                    *)

\* A set of subsets that has every subset whose smaller subsets it has, has all.
LEMMA SubsetInduction ==
  ASSUME NEW S, IsFiniteSet(S), NEW P,
         \A T \in SUBSET S : (\A U \in SUBSET T : U # T => U \in P) => T \in P
  PROVE  SUBSET S \subseteq P
  <1> SUFFICES ASSUME (SUBSET S) \ P # {} PROVE FALSE
    OBVIOUS
  <1> DEFINE missing == (SUBSET S) \ P
  <1>1. IsWellFoundedOn(StrictSubsetOrdering(S), SUBSET S)
    <2>1. FiniteSubsetsOf(S) = SUBSET S
      BY FS_FiniteSubsetsOfFinite
    <2>2. IsWellFoundedOn(StrictSubsetOrdering(S), FiniteSubsetsOf(S))
      BY FS_StrictSubsetOrderingWellFounded
    <2> QED
      BY <2>1, <2>2
  <1>2. PICK T \in missing : \A U \in missing : <<U, T>> \notin StrictSubsetOrdering(S)
    <2> HIDE DEF missing
    <2>1. missing \subseteq SUBSET S /\ missing # {}
      BY DEF missing
    <2> QED
      BY <1>1, <2>1, WFMin
  <1>3. \A U \in SUBSET T : U # T => U \in P
    BY <1>2 DEF StrictSubsetOrdering
  <1> QED
    BY <1>2, <1>3

\* The element a fold takes first, and what it says of the rest.
Picked(T) == CHOOSE x \in T : TRUE
Adds(fun, total, T) ==
  total[T] = IF T = {} THEN 0 ELSE fun[Picked(T)] + total[T \ {Picked(T)}]
AddsUp(fun, total, S) == \A T \in SUBSET S : Adds(fun, total, T)
Total(fun, T) == SumFunctionOnSet(fun, T)
Totals(S, fun, total) ==
  /\ total \in [SUBSET S -> Int] /\ AddsUp(fun, total, S)
  /\ \A T \in SUBSET S : Total(fun, T) = total[T]

LEMMA PickedIn ==
  ASSUME NEW T, T # {}
  PROVE  Picked(T) \in T
  BY DEF Picked

\* There is a fold up to any number of elements.
LEMMA SomeTotal ==
  ASSUME NEW S, IsFiniteSet(S), NEW fun \in [S -> Int]
  PROVE  \E total \in [SUBSET S -> Int] : \A T \in SUBSET S : Adds(fun, total, T)
  <1> DEFINE UpTo(n) == \E total \in [SUBSET S -> Int] :
               \A T \in SUBSET S : Cardinality(T) <= n => Adds(fun, total, T)
             missing == {n \in Nat : ~UpTo(n)}
  <1>1. \A T \in SUBSET S : IsFiniteSet(T) /\ Cardinality(T) \in Nat
    BY FS_Subset, FS_CardinalityType
  <1>2. UpTo(0)
    <2> DEFINE total == [T \in SUBSET S |-> 0]
    <2>1. \A T \in SUBSET S : Cardinality(T) <= 0 => T = {}
      BY <1>1, FS_EmptySet
    <2>2. total \in [SUBSET S -> Int] /\ \A T \in SUBSET S : Cardinality(T) <= 0 => Adds(fun, total, T)
      BY <2>1 DEF Adds
    <2> QED
      BY <2>2
  <1>3. ASSUME NEW n \in Nat, UpTo(n) PROVE UpTo(n + 1)
    <2>1. PICK rest \in [SUBSET S -> Int] :
            \A T \in SUBSET S : Cardinality(T) <= n => Adds(fun, rest, T)
      BY <1>3
    <2> DEFINE total == [T \in SUBSET S |->
                 IF T = {} THEN 0 ELSE fun[Picked(T)] + rest[T \ {Picked(T)}]]
    <2>2. \A T \in SUBSET S : T # {} => /\ Picked(T) \in S /\ Picked(T) \in T
                                        /\ T \ {Picked(T)} \in SUBSET S
      BY PickedIn
    <2>3. total \in [SUBSET S -> Int]
      BY <2>2
    <2>4. ASSUME NEW T \in SUBSET S, Cardinality(T) <= n PROVE total[T] = rest[T]
      BY <2>1, <2>4 DEF Adds
    <2>5. ASSUME NEW T \in SUBSET S, Cardinality(T) <= n + 1 PROVE Adds(fun, total, T)
      <3>1. CASE T = {}
        BY <3>1 DEF Adds
      <3>2. CASE T # {}
        <4> DEFINE U == T \ {Picked(T)}
        <4>1. U \in SUBSET S /\ Cardinality(U) = Cardinality(T) - 1
          BY <1>1, <2>2, <3>2, FS_RemoveElement
        <4>2. total[T] = fun[Picked(T)] + rest[U]
          BY <3>2
        <4>3. Cardinality(U) <= n
          BY <1>1, <2>5, <4>1
        <4> HIDE DEF total
        <4>4. total[U] = rest[U]
          BY <2>4, <4>1, <4>3
        <4> QED
          BY <3>2, <4>2, <4>4 DEF Adds
      <3> QED
        BY <3>1, <3>2
    <2> HIDE DEF total
    <2> QED
      BY <2>3, <2>5
  <1>4. UpTo(Cardinality(S))
    <2> SUFFICES ASSUME missing # {} PROVE FALSE
      BY <1>1
    <2>1. PICK n \in missing : \A m \in missing : ~(m < n)
      <3> HIDE DEF missing
      <3>1. missing \subseteq Nat /\ missing # {}
        BY DEF missing
      <3>2. PICK n \in missing : \A m \in missing : <<m, n>> \notin OpToRel(<, Nat)
        BY <3>1, NatLessThanWellFounded, WFMin
      <3> QED
        BY <3>1, <3>2 DEF OpToRel
    <2>2. n # 0
      BY <1>2, <2>1
    <2>3. n - 1 \in Nat /\ n - 1 < n /\ n = (n - 1) + 1
      BY <2>1, <2>2
    <2>4. UpTo(n - 1)
      <3> HIDE DEF UpTo
      <3> QED
        BY <2>1, <2>3
    <2>5. UpTo(n)
      <3> HIDE DEF UpTo
      <3>1. UpTo((n - 1) + 1)
        BY <1>3, <2>3, <2>4
      <3> QED
        BY <2>3, <3>1
    <2> QED
      BY <2>1, <2>5
  <1>5. \A T \in SUBSET S : Cardinality(T) <= Cardinality(S)
    BY FS_Subset
  <1> QED
    BY <1>4, <1>5

\* Two folds of the same function agree.
LEMMA OneTotal ==
  ASSUME NEW S, IsFiniteSet(S), NEW fun, NEW one, NEW other,
         AddsUp(fun, one, S), AddsUp(fun, other, S)
  PROVE  \A T \in SUBSET S : one[T] = other[T]
  <1> DEFINE P == {T \in SUBSET S : one[T] = other[T]}
  <1>1. ASSUME NEW T \in SUBSET S, \A U \in SUBSET T : U # T => U \in P
        PROVE  T \in P
    <2>1. T # {} => T \ {Picked(T)} \in SUBSET T /\ T \ {Picked(T)} # T
      BY PickedIn
    <2>2. T # {} => one[T \ {Picked(T)}] = other[T \ {Picked(T)}]
      BY <1>1, <2>1
    <2> QED
      BY <2>2 DEF AddsUp, Adds
  <1> HIDE DEF P
  <1>2. SUBSET S \subseteq P
    BY <1>1, SubsetInduction
  <1> QED
    BY <1>2 DEF P

\* The sum of the community modules is the fold.
LEMMA TotalIs ==
  ASSUME NEW S, IsFiniteSet(S), NEW fun \in [S -> Int]
  PROVE  \E total : Totals(S, fun, total)
  <1>1. PICK total \in [SUBSET S -> Int] : \A T \in SUBSET S : Adds(fun, total, T)
    BY SomeTotal
  <1>2. ASSUME NEW T \in SUBSET S PROVE Total(fun, T) = total[T]
    <2> DEFINE Fold(iter) == iter = [s \in SUBSET T |->
                 IF s = {} THEN 0 ELSE fun[Picked(s)] + iter[s \ {Picked(s)}]]
               chosen == CHOOSE iter : Fold(iter)
    <2>1. Total(fun, T) = chosen[T]
      BY DEF Total, SumFunctionOnSet, FoldFunctionOnSet, MapThenFoldSet, Picked
    <2>2. \E iter : Fold(iter)
      <3> DEFINE part == [s \in SUBSET T |-> total[s]]
      <3>1. ASSUME NEW s \in SUBSET T
            PROVE  part[s] = IF s = {} THEN 0 ELSE fun[Picked(s)] + part[s \ {Picked(s)}]
        BY <1>1 DEF Adds
      <3>2. Fold(part)
        <4> HIDE DEF part
        <4>1. part = [s \in SUBSET T |-> part[s]]
          BY DEF part
        <4> QED
          BY <3>1, <4>1
      <3> HIDE DEF Fold
      <3> QED
        BY <3>2
    <2>3. Fold(chosen)
      <3> HIDE DEF Fold
      <3> QED
        BY <2>2
    <2>4. AddsUp(fun, chosen, T) /\ AddsUp(fun, total, T)
      <3> HIDE DEF chosen
      <3> QED
        BY <1>1, <2>3 DEF Adds, AddsUp
    <2>5. IsFiniteSet(T)
      BY FS_Subset
    <2>6. \A s \in SUBSET T : chosen[s] = total[s]
      <3> HIDE DEF chosen
      <3> QED
        BY <2>4, <2>5, OneTotal
    <2> QED
      BY <2>1, <2>6
  <1> QED
    BY <1>1, <1>2 DEF Totals, AddsUp

LEMMA TotalType ==
  ASSUME NEW S, IsFiniteSet(S), NEW fun \in [S -> Int]
  PROVE  /\ Total(fun, {}) = 0
         /\ \A T \in SUBSET S : Total(fun, T) \in Int
         /\ \A T \in SUBSET S : T # {} =>
              Total(fun, T) = fun[Picked(T)] + Total(fun, T \ {Picked(T)})
  <1>1. PICK total : Totals(S, fun, total)
    BY TotalIs
  <1>2. {} \in SUBSET S /\ \A T \in SUBSET S : T \ {Picked(T)} \in SUBSET S
    OBVIOUS
  <1> QED
    BY <1>1, <1>2 DEF Totals, AddsUp, Adds

\* Any element may be taken first.
LEMMA TotalTakes ==
  ASSUME NEW S, IsFiniteSet(S), NEW fun \in [S -> Int], NEW V \in SUBSET S, NEW y \in V
  PROVE  Total(fun, V) = fun[y] + Total(fun, V \ {y})
  <1> DEFINE P == {T \in SUBSET S : \A x \in T : Total(fun, T) = fun[x] + Total(fun, T \ {x})}
  <1>1. ASSUME NEW T \in SUBSET S, \A U \in SUBSET T : U # T => U \in P, NEW x \in T
        PROVE  Total(fun, T) = fun[x] + Total(fun, T \ {x})
    <2> DEFINE p == Picked(T)
    <2>1. p \in T /\ Total(fun, T) = fun[p] + Total(fun, T \ {p})
      BY PickedIn, TotalType
    <2>2. CASE x = p
      BY <2>1, <2>2
    <2>3. CASE x # p
      <3> HIDE DEF p
      <3>1. T \ {p} \in P /\ T \ {x} \in P
        BY <1>1, <2>1
      <3>2. Total(fun, T \ {p}) = fun[x] + Total(fun, (T \ {p}) \ {x})
        BY <2>3, <3>1
      <3>3. Total(fun, T \ {x}) = fun[p] + Total(fun, (T \ {x}) \ {p})
        BY <2>1, <2>3, <3>1
      <3>4. (T \ {p}) \ {x} = (T \ {x}) \ {p}
        OBVIOUS
      <3> DEFINE rest == Total(fun, (T \ {x}) \ {p})
      <3>5. fun[p] \in Int /\ fun[x] \in Int /\ rest \in Int
        BY <2>1, TotalType
      <3>6. Total(fun, T \ {p}) = fun[x] + rest
        BY <3>2, <3>4
      <3> HIDE DEF rest
      <3>7. Total(fun, T) = fun[p] + (fun[x] + rest) /\ Total(fun, T \ {x}) = fun[p] + rest
        BY <2>1, <3>3, <3>6 DEF rest
      <3> QED
        BY <3>5, <3>7
    <2> QED
      BY <2>2, <2>3
  <1>2. \A T \in SUBSET S : (\A U \in SUBSET T : U # T => U \in P) => T \in P
    BY <1>1
  <1> HIDE DEF P
  <1>3. SUBSET S \subseteq P
    BY <1>2, SubsetInduction
  <1> QED
    BY <1>3 DEF P

\* Sums of values between two bounds.
LEMMA TotalBounds ==
  ASSUME NEW S, IsFiniteSet(S), NEW fun \in [S -> -100..200]
  PROVE  \A T \in SUBSET S : /\ Cardinality(T) \in Nat /\ Total(fun, T) \in Int
                             /\ -100 * Cardinality(T) <= Total(fun, T)
                             /\ Total(fun, T) <= 200 * Cardinality(T)
  <1> DEFINE P == {T \in SUBSET S : /\ -100 * Cardinality(T) <= Total(fun, T)
                                    /\ Total(fun, T) <= 200 * Cardinality(T)}
  <1>1. fun \in [S -> Int]
    OBVIOUS
  <1>2. \A T \in SUBSET S : IsFiniteSet(T) /\ Cardinality(T) \in Nat /\ Total(fun, T) \in Int
    BY <1>1, FS_Subset, FS_CardinalityType, TotalType
  <1>3. ASSUME NEW T \in SUBSET S, \A U \in SUBSET T : U # T => U \in P PROVE T \in P
    <2>1. CASE T = {}
      BY <1>1, <2>1, FS_EmptySet, TotalType
    <2>2. CASE T # {}
      <3> DEFINE U == T \ {Picked(T)}
      <3>1. Picked(T) \in T /\ fun[Picked(T)] \in -100..200
        BY <2>2, PickedIn
      <3>2. U \in P
        BY <1>3, <3>1
      <3>3. Cardinality(T) = Cardinality(U) + 1
        BY <1>2, <3>1, FS_RemoveElement
      <3>4. Total(fun, T) = fun[Picked(T)] + Total(fun, U)
        BY <1>1, <2>2, TotalType
      <3>5. U \in SUBSET S
        OBVIOUS
      <3> HIDE DEF U
      <3>6. Cardinality(U) \in Nat /\ Total(fun, U) \in Int
        BY <1>2, <3>5
      <3> QED
        BY <3>1, <3>2, <3>3, <3>4, <3>6
    <2> QED
      BY <2>1, <2>2
  <1> HIDE DEF P
  <1>4. SUBSET S \subseteq P
    BY <1>3, SubsetInduction
  <1> QED
    BY <1>2, <1>4 DEF P

\* A sum may be taken over the image of an injective function.
LEMMA TotalImage ==
  ASSUME NEW S, IsFiniteSet(S), NEW R, IsFiniteSet(R),
         NEW fun \in [S -> Int], NEW gun \in [R -> Int],
         NEW h \in [S -> R], \A x, y \in S : h[x] = h[y] => x = y,
         \A x \in S : gun[h[x]] = fun[x]
  PROVE  \A T \in SUBSET S : Total(gun, {h[x] : x \in T}) = Total(fun, T)
  <1> DEFINE Of(T) == {h[x] : x \in T}
             P == {T \in SUBSET S : Total(gun, Of(T)) = Total(fun, T)}
  <1>1. ASSUME NEW T \in SUBSET S, \A U \in SUBSET T : U # T => U \in P PROVE T \in P
    <2>1. CASE T = {}
      <3>1. Of(T) = {}
        BY <2>1
      <3> HIDE DEF Of
      <3> QED
        BY <2>1, <3>1, TotalType
    <2>2. CASE T # {}
      <3> DEFINE x == Picked(T)  U == T \ {x}
      <3>1. x \in T /\ x \in S
        BY <2>2, PickedIn
      <3>2. Of(T) \in SUBSET R /\ h[x] \in Of(T)
        BY <3>1
      <3>3. Of(T) \ {h[x]} = Of(U)
        <4> HIDE DEF x
        <4> QED
          BY <3>1
      <3>4. U \in P
        BY <1>1, <3>1
      <3>5. Total(gun, Of(T)) = gun[h[x]] + Total(gun, Of(T) \ {h[x]})
        <4> HIDE DEF Of, x
        <4> QED
          BY <3>2, TotalTakes
      <3>6. Total(fun, T) = fun[x] + Total(fun, U)
        BY <2>2, TotalType
      <3> HIDE DEF x, U, Of
      <3> QED
        BY <3>1, <3>3, <3>4, <3>5, <3>6
    <2> QED
      BY <2>1, <2>2
  <1> HIDE DEF P
  <1>2. SUBSET S \subseteq P
    BY <1>1, SubsetInduction
  <1> QED
    BY <1>2 DEF P

-----------------------------------------------------------------------------
(* Sums over the kinds of pieces.                                            *)

LEMMA KindsFinite == IsFiniteSet(Kinds) /\ IsFiniteSet(Kinds \union {"king"})
  <1>1. IsFiniteSet({"pawn"} \union {"knight"})
    BY FS_Singleton, FS_Union
  <1>2. IsFiniteSet({"light_bishop"} \union {"dark_bishop"})
    BY FS_Singleton, FS_Union
  <1>3. IsFiniteSet({"rook"} \union {"queen"})
    BY FS_Singleton, FS_Union
  <1>4. IsFiniteSet(({"pawn"} \union {"knight"}) \union ({"light_bishop"} \union {"dark_bishop"}))
    BY <1>1, <1>2, FS_Union
  <1>5. IsFiniteSet((({"pawn"} \union {"knight"}) \union ({"light_bishop"} \union {"dark_bishop"}))
                      \union ({"rook"} \union {"queen"}))
    BY <1>3, <1>4, FS_Union
  <1>6. Kinds = (({"pawn"} \union {"knight"}) \union ({"light_bishop"} \union {"dark_bishop"}))
                  \union ({"rook"} \union {"queen"})
    BY DEF Kinds
  <1>7. IsFiniteSet(Kinds)
    BY <1>5, <1>6
  <1> QED
    BY <1>7, FS_Singleton, FS_Union

\* The sum over the kinds without the king.
LEMMA SixKinds ==
  ASSUME NEW S, IsFiniteSet(S), Kinds \subseteq S, NEW fun \in [S -> Int]
  PROVE  Total(fun, Kinds) = fun["pawn"] + fun["knight"] + fun["light_bishop"]
                               + fun["dark_bishop"] + fun["rook"] + fun["queen"]
  <1> DEFINE six == {"pawn", "knight", "light_bishop", "dark_bishop", "rook", "queen"}
             five == {"knight", "light_bishop", "dark_bishop", "rook", "queen"}
             four == {"light_bishop", "dark_bishop", "rook", "queen"}
             three == {"dark_bishop", "rook", "queen"}
             two == {"rook", "queen"}
             one == {"queen"}
  <1>1. /\ six = Kinds /\ six \in SUBSET S /\ five \in SUBSET S /\ four \in SUBSET S
        /\ three \in SUBSET S /\ two \in SUBSET S /\ one \in SUBSET S
    BY DEF Kinds
  <1>2. /\ "pawn" \in six /\ six \ {"pawn"} = five
        /\ "knight" \in five /\ five \ {"knight"} = four
        /\ "light_bishop" \in four /\ four \ {"light_bishop"} = three
    OBVIOUS
  <1>3. /\ "dark_bishop" \in three /\ three \ {"dark_bishop"} = two
        /\ "rook" \in two /\ two \ {"rook"} = one
        /\ "queen" \in one /\ one \ {"queen"} = {}
    OBVIOUS
  <1>4. ASSUME NEW T \in SUBSET S, NEW x \in T
        PROVE  Total(fun, T) = fun[x] + Total(fun, T \ {x})
    BY TotalTakes
  <1>5. /\ fun["pawn"] \in Int /\ fun["knight"] \in Int /\ fun["light_bishop"] \in Int
        /\ fun["dark_bishop"] \in Int /\ fun["rook"] \in Int /\ fun["queen"] \in Int
    BY DEF Kinds
  <1>6. Total(fun, {}) = 0
    BY TotalType
  <1> HIDE DEF six, five, four, three, two, one
  <1>7. /\ Total(fun, six) = fun["pawn"] + Total(fun, five)
        /\ Total(fun, five) = fun["knight"] + Total(fun, four)
        /\ Total(fun, four) = fun["light_bishop"] + Total(fun, three)
    BY <1>1, <1>2, <1>4
  <1>8. /\ Total(fun, three) = fun["dark_bishop"] + Total(fun, two)
        /\ Total(fun, two) = fun["rook"] + Total(fun, one)
        /\ Total(fun, one) = fun["queen"] + Total(fun, {})
    BY <1>1, <1>3, <1>4
  <1> QED
    BY <1>1, <1>5, <1>6, <1>7, <1>8

LEMMA SumOfKinds ==
  ASSUME NEW fun \in [Kinds -> Int]
  PROVE  SumFunction(fun) = fun["pawn"] + fun["knight"] + fun["light_bishop"]
                              + fun["dark_bishop"] + fun["rook"] + fun["queen"]
  <1>1. SumFunction(fun) = Total(fun, Kinds)
    BY DEF SumFunction, Total
  <1> QED
    BY <1>1, SixKinds, KindsFinite

LEMMA SumOfKindsAndKing ==
  ASSUME NEW fun \in [Kinds \union {"king"} -> Int]
  PROVE  SumFunction(fun) = fun["pawn"] + fun["knight"] + fun["light_bishop"]
                              + fun["dark_bishop"] + fun["rook"] + fun["queen"] + fun["king"]
  <1> DEFINE S == Kinds \union {"king"}
  <1>1. SumFunction(fun) = Total(fun, S)
    BY DEF SumFunction, Total
  <1>2. S \ {"king"} = Kinds /\ "king" \in S
    BY DEF Kinds
  <1>3. IsFiniteSet(S) /\ S \in SUBSET S /\ Kinds \subseteq S
    BY KindsFinite
  <1>4. fun \in [S -> Int]
    OBVIOUS
  <1>5. /\ fun["pawn"] \in Int /\ fun["knight"] \in Int /\ fun["light_bishop"] \in Int
        /\ fun["dark_bishop"] \in Int /\ fun["rook"] \in Int /\ fun["queen"] \in Int
        /\ fun["king"] \in Int
    BY DEF Kinds
  <1> HIDE DEF S
  <1>6. Total(fun, S) = fun["king"] + Total(fun, Kinds)
    BY <1>2, <1>3, <1>4, TotalTakes
  <1>7. Total(fun, Kinds) = fun["pawn"] + fun["knight"] + fun["light_bishop"]
                              + fun["dark_bishop"] + fun["rook"] + fun["queen"]
    BY <1>3, <1>4, SixKinds
  <1> QED
    BY <1>1, <1>5, <1>6, <1>7

-----------------------------------------------------------------------------
(* The board in a mirror.                                                    *)

LEMMA Coordinates ==
  ASSUME NEW sq \in Board
  PROVE  \E r \in 0..7, f \in 0..7 :
           /\ sq = 16 * r + f /\ rank07(sq) = r /\ file07(sq) = f
           /\ sq % 16 = f /\ sq % 8 = f
  <1>1. sq \in 0..127 /\ (sq \div 8) % 2 = 0
    BY DEF Board, off_the_board
  <1>2. sq \div 16 \in 0..7 /\ sq % 8 \in 0..7 /\ sq = 16 * (sq \div 16) + (sq % 8)
    BY <1>1
  <1>3. sq % 16 = sq % 8
    BY <1>1
  <1> QED
    BY <1>2, <1>3 DEF rank07, file07

LEMMA OnBoardAgain ==
  ASSUME NEW r \in 0..7, NEW f \in 0..7
  PROVE  /\ 16 * r + f \in Board /\ Byte(16 * r + f) = 16 * r + f
         /\ rank07(16 * r + f) = r /\ file07(16 * r + f) = f
         /\ sq0x88_to_sq8x8(16 * r + f) = 8 * r + f
  <1>1. 16 * r + f \in 0..127
    OBVIOUS
  <1>2. (16 * r + f) \div 8 = 2 * r /\ (2 * r) % 2 = 0
    OBVIOUS
  <1>3. (16 * r + f) \div 16 = r /\ (16 * r + f) % 8 = f
    OBVIOUS
  <1>4. (16 * r + f + f) \div 2 = 8 * r + f
    OBVIOUS
  <1> QED
    BY <1>1, <1>2, <1>3, <1>4
       DEF Board, off_the_board, Byte, rank07, file07, sq0x88_to_sq8x8

LEMMA MirrorFacts ==
  ASSUME NEW sq \in Board
  PROVE  /\ Image(sq) \in Board /\ Image(sq) = flipped_square(sq)
         /\ flipped_square(Image(sq)) = sq
         /\ sq0x88_to_sq8x8(sq) \in 0..63
  <1>1. PICK r \in 0..7, f \in 0..7 :
          /\ sq = 16 * r + f /\ rank07(sq) = r /\ file07(sq) = f
          /\ sq % 16 = f /\ sq % 8 = f
    BY Coordinates
  <1>2. PICK s \in 0..7 : s = 7 - r
    OBVIOUS
  <1>3. Image(sq) = 16 * s + f
    BY <1>1, <1>2 DEF Image
  <1>4. flipped_square(sq) = 16 * s + f
    BY <1>1, <1>2, OnBoardAgain DEF flipped_square, rankfile_to_sq0x88
  <1>5. flipped_square(16 * s + f) = 16 * r + f
    <2>1. 7 - s = r
      BY <1>2
    <2> QED
      BY <2>1, OnBoardAgain DEF flipped_square, rankfile_to_sq0x88
  <1>6. 8 * r + f \in 0..63
    OBVIOUS
  <1> QED
    BY <1>1, <1>3, <1>4, <1>5, <1>6, OnBoardAgain

LEMMA BoardFinite ==
  ASSUME NEW T \in SUBSET Board
  PROVE  IsFiniteSet(T) /\ Cardinality(T) \in Nat
  <1>1. PICK n \in Int : n = 255
    OBVIOUS
  <1>2. IsFiniteSet(0..n)
    BY FS_Interval
  <1>3. T \in SUBSET (0..n)
    BY <1>1 DEF Board
  <1> QED
    BY <1>2, <1>3, FS_Subset, FS_CardinalityType

Images(T) == {Image(sq) : sq \in T}

LEMMA SameCount ==
  ASSUME NEW T \in SUBSET Board
  PROVE  Images(T) \in SUBSET Board /\ Cardinality(Images(T)) = Cardinality(T)
  <1> DEFINE h == [sq \in T |-> Image(sq)]
  <1>1. \A sq \in T : Image(sq) \in Board /\ flipped_square(Image(sq)) = sq
    BY MirrorFacts
  <1>2. h \in [T -> Images(T)]
    BY DEF Images
  <1>3. \A x, y \in T : h[x] = h[y] => x = y
    BY <1>1
  <1>4. \A t \in Images(T) : \E sq \in T : h[sq] = t
    BY DEF Images
  <1> HIDE DEF h
  <1>5. h \in Bijection(T, Images(T))
    BY <1>2, <1>3, <1>4 DEF Bijection, Injection, Surjection, IsInjective
  <1>6. ExistsBijection(T, Images(T))
    BY <1>5 DEF ExistsBijection
  <1>7. Images(T) \in SUBSET Board
    BY <1>1 DEF Images
  <1> QED
    BY <1>6, <1>7, BoardFinite, FS_Bijection

-----------------------------------------------------------------------------
(* What the pieces of one kind are worth on their squares.                   *)

Entry(colour, kind, sq) ==
  SquareTable[kind][sq0x88_to_sq8x8(IF colour = "white" THEN sq ELSE flipped_square(sq))]
Entries(colour, kind, T) == [sq \in T |-> Entry(colour, kind, sq)]
Score(colour, kind, T) == SumFunction(Entries(colour, kind, T))

LEMMA PlacedIsScore ==
  ASSUME NEW position, NEW colour, NEW kind
  PROVE  Placed(position, colour, kind) = Score(colour, kind, position[colour][kind])
  BY DEF Placed, Score, Entries, Entry

LEMMA EntryFacts ==
  ASSUME NEW colour \in Colours, NEW kind \in Kinds \union {"king"}, NEW sq \in Board
  PROVE  /\ Entry(colour, kind, sq) \in -200..200
         /\ kind \in Kinds => Entry(colour, kind, sq) \in -100..200
         /\ Entry(Other(colour), kind, Image(sq)) = Entry(colour, kind, sq)
  <1> DEFINE place == IF colour = "white" THEN sq ELSE flipped_square(sq)
  <1>1. place \in Board
    BY MirrorFacts
  <1> HIDE DEF place
  <1>2. sq0x88_to_sq8x8(place) \in 0..63
    BY <1>1, MirrorFacts
  <1>3. Entry(colour, kind, sq) = SquareTable[kind][sq0x88_to_sq8x8(place)]
    BY DEF Entry, place
  <1>4. SquareTable[kind] \in [0..63 -> -200..200]
    BY EvaluationAssumption
  <1>5. Entry(colour, kind, sq) \in -200..200
    <2>1. \A i \in 0..63 : SquareTable[kind][i] \in -200..200
      BY <1>4
    <2>2. SquareTable[kind][sq0x88_to_sq8x8(place)] \in -200..200
      BY <1>2, <2>1
    <2> QED
      BY <1>3, <2>2
  <1>6. kind \in Kinds => SquareTable[kind][sq0x88_to_sq8x8(place)] >= -100
    BY <1>2, EvaluationAssumption
  <1>7. (IF Other(colour) = "white" THEN Image(sq) ELSE flipped_square(Image(sq))) = place
    BY MirrorFacts DEF Colours, Other, place
  <1>8. Entry(Other(colour), kind, Image(sq)) = SquareTable[kind][sq0x88_to_sq8x8(place)]
    BY <1>7 DEF Entry
  <1> QED
    BY <1>3, <1>5, <1>6, <1>8

LEMMA ScoreIsTotal ==
  ASSUME NEW colour \in Colours, NEW kind \in Kinds \union {"king"}, NEW T \in SUBSET Board
  PROVE  /\ Entries(colour, kind, T) \in [T -> Int]
         /\ Score(colour, kind, T) = Total(Entries(colour, kind, T), T)
         /\ Score(colour, kind, T) \in Int
  <1>1. Entries(colour, kind, T) \in [T -> Int]
    BY EntryFacts DEF Entries
  <1>2. Score(colour, kind, T) = Total(Entries(colour, kind, T), T)
    BY DEF Score, SumFunction, Total, Entries
  <1>3. IsFiniteSet(T) /\ T \in SUBSET T
    BY BoardFinite
  <1> QED
    BY <1>1, <1>2, <1>3, TotalType

\* Mirrored squares are worth to one colour what they are to the other.
LEMMA ScoreMirrored ==
  ASSUME NEW colour \in Colours, NEW kind \in Kinds \union {"king"}, NEW T \in SUBSET Board
  PROVE  Score(Other(colour), kind, Images(T)) = Score(colour, kind, T)
  <1> DEFINE R == Images(T)
             fun == Entries(colour, kind, T)
             gun == Entries(Other(colour), kind, R)
             h == [sq \in T |-> Image(sq)]
  <1>1. R \in SUBSET Board /\ Other(colour) \in Colours
    BY SameCount DEF Other, Colours
  <1>2. IsFiniteSet(T) /\ IsFiniteSet(R) /\ T \in SUBSET T
    BY <1>1, BoardFinite
  <1>3. fun \in [T -> Int] /\ Score(colour, kind, T) = Total(fun, T)
    BY ScoreIsTotal
  <1>4. gun \in [R -> Int] /\ Score(Other(colour), kind, R) = Total(gun, R)
    <2> HIDE DEF R
    <2> QED
      BY <1>1, ScoreIsTotal
  <1>5. h \in [T -> R]
    BY DEF Images
  <1>6. \A x, y \in T : h[x] = h[y] => x = y
    <2>1. \A x \in T : flipped_square(Image(x)) = x
      BY MirrorFacts
    <2> QED
      BY <2>1
  <1>7. \A x \in T : gun[h[x]] = fun[x]
    <2> SUFFICES ASSUME NEW x \in T PROVE gun[h[x]] = fun[x]
      OBVIOUS
    <2>1. h[x] = Image(x) /\ Image(x) \in R
      BY DEF Images
    <2>2. Entry(Other(colour), kind, Image(x)) = Entry(colour, kind, x)
      BY EntryFacts
    <2> QED
      BY <2>1, <2>2 DEF Entries
  <1>8. {h[x] : x \in T} = R
    BY DEF Images
  <1> HIDE DEF R, fun, gun, h
  <1>9. \A U \in SUBSET T : Total(gun, {h[x] : x \in U}) = Total(fun, U)
    BY <1>2, <1>3, <1>4, <1>5, <1>6, <1>7, TotalImage
  <1>10. Total(gun, {h[x] : x \in T}) = Total(fun, T)
    BY <1>2, <1>9
  <1>11. Total(gun, R) = Total(fun, T)
    BY <1>8, <1>10
  <1> QED
    BY <1>3, <1>4, <1>11 DEF R

LEMMA ScoreBounds ==
  ASSUME NEW colour \in Colours, NEW kind \in Kinds, NEW T \in SUBSET Board
  PROVE  /\ -100 * Cardinality(T) <= Score(colour, kind, T)
         /\ Score(colour, kind, T) <= 200 * Cardinality(T)
  <1> DEFINE fun == Entries(colour, kind, T)
  <1>1. fun \in [T -> -100..200]
    BY EntryFacts DEF Entries
  <1>2. Score(colour, kind, T) = Total(fun, T)
    BY ScoreIsTotal
  <1>3. IsFiniteSet(T) /\ T \in SUBSET T
    BY BoardFinite
  <1> HIDE DEF fun
  <1> QED
    BY <1>1, <1>2, <1>3, TotalBounds

LEMMA KingScore ==
  ASSUME NEW colour \in Colours, NEW sq \in Board
  PROVE  Score(colour, "king", {sq}) \in -200..200
  <1> DEFINE T == {sq}  fun == Entries(colour, "king", T)
  <1>1. T \in SUBSET Board /\ IsFiniteSet(T) /\ sq \in T /\ T \ {sq} = {}
    BY FS_Singleton
  <1>2. fun[sq] = Entry(colour, "king", sq)
    BY DEF Entries
  <1> HIDE DEF T
  <1>3. fun \in [T -> Int] /\ Score(colour, "king", T) = Total(fun, T)
    BY <1>1, ScoreIsTotal
  <1> HIDE DEF fun
  <1>4. Total(fun, T) = fun[sq] + Total(fun, {})
    BY <1>1, <1>3, TotalTakes
  <1>5. Total(fun, {}) = 0
    BY <1>1, <1>3, TotalType
  <1>6. fun[sq] \in -200..200
    BY <1>2, EntryFacts
  <1> QED
    BY <1>3, <1>4, <1>5, <1>6 DEF T

-----------------------------------------------------------------------------
(* eval.                                                                     *)

Standing(position) ==
  /\ position.white \in [Kinds \union {"king"} -> SUBSET Board]
  /\ position.black \in [Kinds \union {"king"} -> SUBSET Board]
  /\ position.turn \in Colours

Number(position, colour, kind) == Cardinality(position[colour][kind])
Material(position, colour) ==
  100 * Number(position, colour, "pawn") + 320 * Number(position, colour, "knight")
    + 330 * Number(position, colour, "light_bishop") + 330 * Number(position, colour, "dark_bishop")
    + 500 * Number(position, colour, "rook") + 900 * Number(position, colour, "queen")
Squares(position, colour) ==
  Placed(position, colour, "pawn") + Placed(position, colour, "knight")
    + Placed(position, colour, "light_bishop") + Placed(position, colour, "dark_bishop")
    + Placed(position, colour, "rook") + Placed(position, colour, "queen")
    + Placed(position, colour, "king")

LEMMA StandingFacts ==
  ASSUME NEW position, Standing(position), NEW colour \in Colours,
         NEW kind \in Kinds \union {"king"}
  PROVE  /\ position[colour][kind] \in SUBSET Board
         /\ Number(position, colour, kind) \in Nat
         /\ Placed(position, colour, kind) = Score(colour, kind, position[colour][kind])
         /\ Placed(position, colour, kind) \in Int
  <1>1. position[colour][kind] \in SUBSET Board
    BY DEF Standing, Colours
  <1>2. Placed(position, colour, kind) = Score(colour, kind, position[colour][kind])
    BY PlacedIsScore
  <1> DEFINE T == position[colour][kind]
  <1> HIDE DEF T
  <1>3. IsFiniteSet(T) /\ Cardinality(T) \in Nat /\ Score(colour, kind, T) \in Int
    BY <1>1, BoardFinite, ScoreIsTotal DEF T
  <1> QED
    BY <1>1, <1>2, <1>3 DEF Number, T

LEMMA PartsType ==
  ASSUME NEW position, Standing(position), NEW colour \in Colours
  PROVE  Material(position, colour) \in Int /\ Squares(position, colour) \in Int
  <1>1. \A kind \in Kinds : Number(position, colour, kind) \in Nat
    BY StandingFacts
  <1>2. \A kind \in Kinds \union {"king"} : Placed(position, colour, kind) \in Int
    BY StandingFacts
  <1>3. Material(position, colour) \in Int
    BY <1>1 DEF Material, Kinds
  <1>4. Squares(position, colour) \in Int
    BY <1>2 DEF Squares, Kinds
  <1> QED
    BY <1>3, <1>4

LEMMA MaterialScore ==
  ASSUME NEW position, Standing(position)
  PROVE  material_score(position)
           = Squares(position, position.turn) - Squares(position, Other(position.turn))
  <1> DEFINE fun == [kind \in Kinds \union {"king"} |->
                       Placed(position, "white", kind) - Placed(position, "black", kind)]
  <1>1. \A kind \in Kinds \union {"king"} :
          Placed(position, "white", kind) \in Int /\ Placed(position, "black", kind) \in Int
    BY StandingFacts DEF Colours
  <1>2. fun \in [Kinds \union {"king"} -> Int]
    BY <1>1
  <1>3. SumFunction(fun) = fun["pawn"] + fun["knight"] + fun["light_bishop"]
                             + fun["dark_bishop"] + fun["rook"] + fun["queen"] + fun["king"]
    <2> HIDE DEF fun
    <2> QED
      BY <1>2, SumOfKindsAndKing
  <1>4. \A kind \in Kinds \union {"king"} :
          fun[kind] = Placed(position, "white", kind) - Placed(position, "black", kind)
    OBVIOUS
  <1>5. material_score(position)
          = IF position.turn = "black" THEN -SumFunction(fun) ELSE SumFunction(fun)
    BY DEF material_score
  <1> HIDE DEF fun
  <1>6. SumFunction(fun) = Squares(position, "white") - Squares(position, "black")
    BY <1>1, <1>3, <1>4 DEF Squares, Kinds
  <1>7. Squares(position, "white") \in Int /\ Squares(position, "black") \in Int
    BY PartsType DEF Colours
  <1>8. position.turn \in {"white", "black"}
    BY DEF Standing, Colours
  <1> QED
    BY <1>5, <1>6, <1>7, <1>8 DEF Other

\* eval is what the player to move has less what the other has.
LEMMA EvalIs ==
  ASSUME NEW position, Standing(position), position.end = "none"
  PROVE  eval(position)
           = Material(position, position.turn) - Material(position, Other(position.turn))
               + (Squares(position, position.turn) - Squares(position, Other(position.turn)))
  <1> DEFINE us == position.turn  them == Other(position.turn)
             fun == [kind \in Kinds |->
                       (Number(position, us, kind) - Number(position, them, kind)) * Value(kind)]
  <1>1. us \in Colours /\ them \in Colours
    BY DEF Standing, Colours, Other
  <1>2. \A kind \in Kinds : Number(position, us, kind) \in Nat /\ Number(position, them, kind) \in Nat
    <2> HIDE DEF us, them
    <2> QED
      BY <1>1, StandingFacts
  <1>3. /\ Value("pawn") = 100 /\ Value("knight") = 320 /\ Value("light_bishop") = 330
        /\ Value("dark_bishop") = 330 /\ Value("rook") = 500 /\ Value("queen") = 900
    BY DEF Value
  <1>4. \A kind \in Kinds : Value(kind) \in Int
    BY <1>3 DEF Kinds
  <1>5. eval(position) = SumFunction(fun) + material_score(position)
    BY DEF eval, Number
  <1> HIDE DEF us, them
  <1>6. fun \in [Kinds -> Int]
    BY <1>2, <1>4
  <1>7. \A kind \in Kinds : fun[kind]
          = (Number(position, us, kind) - Number(position, them, kind)) * Value(kind)
    OBVIOUS
  <1> HIDE DEF fun
  <1>8. SumFunction(fun) = fun["pawn"] + fun["knight"] + fun["light_bishop"]
                             + fun["dark_bishop"] + fun["rook"] + fun["queen"]
    BY <1>6, SumOfKinds
  <1>9. SumFunction(fun) = Material(position, us) - Material(position, them)
    BY <1>2, <1>3, <1>7, <1>8 DEF Material, Kinds
  <1>10. material_score(position) = Squares(position, us) - Squares(position, them)
    BY MaterialScore DEF us, them
  <1> QED
    BY <1>5, <1>9, <1>10 DEF us, them

-----------------------------------------------------------------------------
(* Symmetry.                                                                 *)

LEMMA LeafStands ==
  ASSUME NEW position \in Leaves
  PROVE  /\ Standing(position) /\ IsSide(position.white) /\ IsSide(position.black)
         /\ position = [white |-> position.white, black |-> position.black,
                        turn |-> position.turn, end |-> position.end]
         /\ position.end \in {"none", "draw", "checkmate", "stalemate"}
  BY EvaluationAssumption DEF IsLeaf, IsSide, Standing

\* Each side of the mirrored position is the image of the other side.
LEMMA MirroredParts ==
  ASSUME NEW position, Standing(position), NEW colour \in Colours
  PROVE  /\ Standing(Mirrored(position))
         /\ Material(Mirrored(position), Other(colour)) = Material(position, colour)
         /\ Squares(Mirrored(position), Other(colour)) = Squares(position, colour)
  <1> DEFINE other == Other(colour)  mirrored == Mirrored(position)
  <1>1. other \in Colours /\ Other(position.turn) \in Colours
    BY DEF Other, Colours
  <1>2. \A kind \in Kinds \union {"king"} : mirrored[other][kind] = Images(position[colour][kind])
    BY DEF Mirrored, Other, Colours, Images
  <1>3. \A c \in Colours, kind \in Kinds \union {"king"} : position[c][kind] \in SUBSET Board
    BY StandingFacts
  <1>4. \A c \in Colours, kind \in Kinds \union {"king"} : Images(position[c][kind]) \in SUBSET Board
    BY <1>3, SameCount
  <1>5. Standing(mirrored)
    <2>1. /\ mirrored.white = [kind \in Kinds \union {"king"} |-> Images(position.black[kind])]
          /\ mirrored.black = [kind \in Kinds \union {"king"} |-> Images(position.white[kind])]
          /\ mirrored.turn = Other(position.turn)
      BY DEF Mirrored, Images
    <2>2. \A kind \in Kinds \union {"king"} : /\ Images(position.white[kind]) \in SUBSET Board
                                              /\ Images(position.black[kind]) \in SUBSET Board
      BY <1>4 DEF Colours
    <2> HIDE DEF mirrored
    <2> QED
      BY <1>1, <2>1, <2>2 DEF Standing
  <1> HIDE DEF other, mirrored
  <1>6. ASSUME NEW kind \in Kinds \union {"king"}
        PROVE  /\ Number(mirrored, other, kind) = Number(position, colour, kind)
               /\ Placed(mirrored, other, kind) = Placed(position, colour, kind)
    <2>1. Cardinality(Images(position[colour][kind])) = Cardinality(position[colour][kind])
      BY <1>3, SameCount
    <2>2. Placed(mirrored, other, kind) = Score(other, kind, Images(position[colour][kind]))
      BY <1>2, PlacedIsScore
    <2>3. Score(other, kind, Images(position[colour][kind]))
            = Score(colour, kind, position[colour][kind])
      BY <1>3, ScoreMirrored DEF other
    <2>4. Placed(position, colour, kind) = Score(colour, kind, position[colour][kind])
      BY PlacedIsScore
    <2> QED
      BY <1>2, <2>1, <2>2, <2>3, <2>4 DEF Number
  <1>7. Material(mirrored, other) = Material(position, colour)
    BY <1>6 DEF Material, Kinds
  <1>8. Squares(mirrored, other) = Squares(position, colour)
    BY <1>6 DEF Squares, Kinds
  <1> QED
    BY <1>5, <1>7, <1>8 DEF other, mirrored

\* What a side can have, however its pawns have been promoted.
LEMMA SideBounds ==
  ASSUME NEW position, Standing(position), NEW colour \in Colours, IsSide(position[colour])
  PROVE  /\ -200 <= Material(position, colour) + Squares(position, colour)
         /\ Material(position, colour) + Squares(position, colour) <= 13600
  <1> DEFINE side == position[colour]
             N(kind) == Number(position, colour, kind)
             P(kind) == Placed(position, colour, kind)
             extra(kind) == IF N(kind) > FirstCount(kind) THEN N(kind) - FirstCount(kind) ELSE 0
             extras == [kind \in Kinds |-> extra(kind)]
  <1>1. \A kind \in Kinds : /\ N(kind) \in Nat /\ P(kind) \in Int
                            /\ -100 * N(kind) <= P(kind) /\ P(kind) <= 200 * N(kind)
    BY StandingFacts, ScoreBounds DEF Number
  <1>2. P("king") \in -200..200
    <2>1. PICK sq \in Board : side["king"] = {sq}
      BY DEF IsSide
    <2>2. P("king") = Score(colour, "king", {sq})
      BY <2>1, PlacedIsScore
    <2> QED
      BY <2>2, KingScore
  <1>3. /\ FirstCount("pawn") = 0 /\ FirstCount("knight") = 2 /\ FirstCount("rook") = 2
        /\ FirstCount("light_bishop") = 1 /\ FirstCount("dark_bishop") = 1
        /\ FirstCount("queen") = 1
    BY DEF FirstCount
  <1>4. SumFunction(extras) <= 8
    BY DEF IsSide, Number
  <1> HIDE DEF N, P
  <1>5. \A kind \in Kinds : /\ extra(kind) \in Int /\ extra(kind) >= 0
                            /\ N(kind) <= FirstCount(kind) + extra(kind)
    BY <1>1, <1>3 DEF Kinds
  <1>6. extras \in [Kinds -> Int] /\ \A kind \in Kinds : extras[kind] = extra(kind)
    BY <1>5
  <1> HIDE DEF extras, extra
  <1>7. extra("pawn") + extra("knight") + extra("light_bishop") + extra("dark_bishop")
          + extra("rook") + extra("queen") <= 8
    <2>1. SumFunction(extras)
            = extras["pawn"] + extras["knight"] + extras["light_bishop"]
                + extras["dark_bishop"] + extras["rook"] + extras["queen"]
      BY <1>6, SumOfKinds
    <2> QED
      BY <1>4, <1>6, <2>1 DEF Kinds
  <1>8. /\ Material(position, colour)
             = 100 * N("pawn") + 320 * N("knight") + 330 * N("light_bishop")
                 + 330 * N("dark_bishop") + 500 * N("rook") + 900 * N("queen")
        /\ Squares(position, colour)
             = P("pawn") + P("knight") + P("light_bishop") + P("dark_bishop")
                 + P("rook") + P("queen") + P("king")
    BY DEF Material, Squares, N, P
  <1> QED
    BY <1>1, <1>2, <1>3, <1>5, <1>7, <1>8 DEF Kinds

LEMMA EvalMirrored ==
  ASSUME NEW position \in Leaves
  PROVE  eval(Mirrored(position)) = eval(position)
  <1> DEFINE mirrored == Mirrored(position)
  <1>1. Standing(position) /\ position.end \in {"none", "draw", "checkmate", "stalemate"}
    BY LeafStands
  <1>2. mirrored.end = position.end /\ mirrored.turn = Other(position.turn)
    BY DEF Mirrored
  <1>3. CASE position.end = "none"
    <2>1. position.turn \in Colours /\ Other(position.turn) \in Colours
      BY <1>1 DEF Standing, Other, Colours
    <2>2. Standing(mirrored)
      BY <1>1, <2>1, MirroredParts
    <2>3. /\ Material(mirrored, Other(position.turn)) = Material(position, position.turn)
          /\ Squares(mirrored, Other(position.turn)) = Squares(position, position.turn)
      BY <1>1, <2>1, MirroredParts
    <2>4. /\ Material(mirrored, Other(Other(position.turn)))
               = Material(position, Other(position.turn))
          /\ Squares(mirrored, Other(Other(position.turn)))
               = Squares(position, Other(position.turn))
      BY <1>1, <2>1, MirroredParts
    <2> HIDE DEF mirrored
    <2> QED
      BY <1>1, <1>2, <1>3, <2>2, <2>3, <2>4, EvalIs DEF mirrored
  <1>4. CASE position.end # "none"
    BY <1>1, <1>2, <1>4 DEF eval
  <1> QED
    BY <1>3, <1>4

LEMMA EvalNegated ==
  ASSUME NEW position \in Leaves, position.end = "none"
  PROVE  eval([position EXCEPT !.turn = Other(@)]) = -eval(position)
  <1> DEFINE passed == [position EXCEPT !.turn = Other(@)]
  <1>1. Standing(position)
    BY LeafStands
  <1>2. position.turn \in Colours /\ Other(position.turn) \in Colours
          /\ Other(Other(position.turn)) = position.turn
    BY <1>1 DEF Standing, Other, Colours
  <1>3. /\ passed.white = position.white /\ passed.black = position.black
        /\ passed.turn = Other(position.turn) /\ passed.end = position.end
    BY LeafStands
  <1> HIDE DEF passed
  <1>4. Standing(passed)
    BY <1>1, <1>2, <1>3 DEF Standing
  <1>5. \A c \in Colours : passed[c] = position[c]
    BY <1>3 DEF Colours
  <1>6. \A c \in Colours : /\ Material(passed, c) = Material(position, c)
                           /\ Squares(passed, c) = Squares(position, c)
    BY <1>5 DEF Material, Squares, Number, Placed
  <1>7. \A c \in Colours : Material(position, c) \in Int /\ Squares(position, c) \in Int
    BY <1>1, PartsType
  <1>8. eval(passed) = Material(position, Other(position.turn)) - Material(position, position.turn)
          + (Squares(position, Other(position.turn)) - Squares(position, position.turn))
    BY <1>2, <1>3, <1>4, <1>6, EvalIs
  <1>9. eval(position)
          = Material(position, position.turn) - Material(position, Other(position.turn))
              + (Squares(position, position.turn) - Squares(position, Other(position.turn)))
    BY <1>1, EvalIs
  <1> QED
    BY <1>2, <1>7, <1>8, <1>9 DEF passed

LEMMA EvalBelowMate ==
  ASSUME NEW position \in Leaves, position.end = "none"
  PROVE  Abs(eval(position)) < -CHECKMATE_SCORE_CENTIPAWNS
  <1> DEFINE us == position.turn  them == Other(position.turn)
  <1>1. Standing(position) /\ us \in Colours /\ them \in Colours
    BY LeafStands DEF Standing, Other, Colours
  <1>2. \A c \in Colours : IsSide(position[c])
    BY LeafStands DEF Colours
  <1>3. eval(position) = Material(position, us) - Material(position, them)
                           + (Squares(position, us) - Squares(position, them))
    BY <1>1, EvalIs
  <1> HIDE DEF us, them
  <1>4. \A c \in Colours : Material(position, c) \in Int /\ Squares(position, c) \in Int
    BY <1>1, PartsType
  <1>5. \A c \in Colours : /\ -200 <= Material(position, c) + Squares(position, c)
                           /\ Material(position, c) + Squares(position, c) <= 13600
    BY <1>1, <1>2, SideBounds
  <1> DEFINE a == Material(position, us)  b == Squares(position, us)
             c == Material(position, them)  d == Squares(position, them)
  <1>6. /\ a \in Int /\ b \in Int /\ c \in Int /\ d \in Int
        /\ -200 <= a + b /\ a + b <= 13600 /\ -200 <= c + d /\ c + d <= 13600
    BY <1>1, <1>4, <1>5
  <1>7. eval(position) = a - c + (b - d)
    BY <1>3
  <1> HIDE DEF a, b, c, d
  <1>8. -13800 <= eval(position) /\ eval(position) <= 13800 /\ eval(position) \in Int
    BY <1>6, <1>7
  <1> QED
    BY <1>8 DEF Abs, CHECKMATE_SCORE_CENTIPAWNS

\* Two mirrored positions are scored alike, giving the turn away negates the
\* score, and no score of a position with a king on each side passes for a mate,
\* for every square table within its bounds and every position that eight pawns,
\* promoted or not, can lead to (eval.c, eval).
THEOREM ScoresAreSymmetric == scored \subseteq Leaves => ScoresSymmetric
  <1> SUFFICES ASSUME NEW position \in Leaves PROVE EvalSymmetric(position)
    BY DEF ScoresSymmetric
  <1> QED
    BY EvalMirrored, EvalNegated, EvalBelowMate DEF EvalSymmetric

-----------------------------------------------------------------------------
(* Repetition: the invariant.                                                *)

LEMMA InitInv == RepetitionInit => RepetitionInv
  <1> SUFFICES ASSUME RepetitionInit PROVE RepetitionInv
    OBVIOUS
  <1> USE RepetitionAssumption DEF RepetitionInit
  <1>1. 0..ply_counter = {0}
    OBVIOUS
  <1>2. History
    BY <1>1 DEF History
  <1>3. Turn[zobrists[0]] \in {0, 1}
    OBVIOUS
  <1>4. Turns
    BY <1>1, <1>3 DEF Turns
  <1>5. Progress[zobrists[0]] \in Nat
    OBVIOUS
  <1>6. Progresses
    BY <1>1, <1>5 DEF Progresses
  <1>7. NoReturn /\ Cut
    BY <1>1 DEF NoReturn, Cut
  <1> QED
    BY <1>2, <1>4, <1>6, <1>7 DEF RepetitionInv

\* A move makes the history longer and leaves what it had.
LEMMA MoveFacts ==
  ASSUME History, NEW key \in Keys, Move(key)
  PROVE  /\ ply_counter' = ply_counter + 1 /\ ply_counter \in Nat
         /\ \A i \in 0..ply_counter :
              /\ zobrists'[i] = zobrists[i]
              /\ ply_of_last_irreversible_move'[i] = ply_of_last_irreversible_move[i]
         /\ zobrists'[ply_counter + 1] = key
         /\ ply_of_last_irreversible_move'[ply_counter + 1] =
              IF Progress[key] > Progress[zobrists[ply_counter]]
                THEN ply_counter + 1 ELSE LastIrreversible
         /\ History'
  <1> USE DEF History
  <1>1. ply_counter \in Nat /\ ply_counter' = ply_counter + 1
    BY DEF Move
  <1>2. LastIrreversible \in Nat
    BY <1>1 DEF LastIrreversible
  <1> DEFINE top == IF Progress[key] > Progress[zobrists[ply_counter]]
                      THEN ply_counter + 1 ELSE LastIrreversible
  <1>3. top \in Nat
    BY <1>1, <1>2
  <1>4. zobrists' = Extended(zobrists, key)
    BY DEF Move
  <1>5. ply_of_last_irreversible_move' = Extended(ply_of_last_irreversible_move, top)
    BY DEF Move
  <1> HIDE DEF top
  <1>6. zobrists' \in [0..(ply_counter + 1) -> Keys]
    BY <1>1, <1>4 DEF Extended
  <1>7. ply_of_last_irreversible_move' \in [0..(ply_counter + 1) -> Nat]
    BY <1>1, <1>3, <1>5 DEF Extended
  <1>8. ply_of_root' \in 0..(ply_counter + 1)
    BY <1>1 DEF Move
  <1>9. History'
    BY <1>1, <1>6, <1>7, <1>8
  <1>10. \A i \in 0..ply_counter : zobrists'[i] = zobrists[i]
    BY <1>1, <1>4 DEF Extended
  <1>11. \A i \in 0..ply_counter :
           ply_of_last_irreversible_move'[i] = ply_of_last_irreversible_move[i]
    BY <1>1, <1>5 DEF Extended
  <1>12. zobrists'[ply_counter + 1] = key
    BY <1>1, <1>4 DEF Extended
  <1>13. ply_of_last_irreversible_move'[ply_counter + 1] = top
    BY <1>1, <1>5 DEF Extended
  <1> QED
    BY <1>1, <1>9, <1>10, <1>11, <1>12, <1>13 DEF top

LEMMA MoveInv ==
  ASSUME RepetitionInv, NEW key \in Keys, Move(key)
  PROVE  RepetitionInv'
  <1> USE RepetitionAssumption
  <1>0. History /\ Turns /\ Progresses /\ NoReturn /\ Cut
    BY DEF RepetitionInv
  <1> DEFINE n == ply_counter
  <1>1. /\ ply_counter' = n + 1 /\ n \in Nat
        /\ \A i \in 0..n :
             /\ zobrists'[i] = zobrists[i]
             /\ ply_of_last_irreversible_move'[i] = ply_of_last_irreversible_move[i]
        /\ zobrists'[n + 1] = key
        /\ ply_of_last_irreversible_move'[n + 1] =
             IF Progress[key] > Progress[zobrists[n]] THEN n + 1 ELSE LastIrreversible
        /\ History'
    BY <1>0, MoveFacts
  <1>2. \A i \in 0..n : zobrists[i] \in Keys /\ ply_of_last_irreversible_move[i] \in Nat
    BY <1>0 DEF History
  <1>3. /\ Turn[key] # Turn[zobrists[n]]
        /\ n >= 1 => key # zobrists[n - 1]
        /\ Progress[key] >= Progress[zobrists[n]]
    BY DEF Move
  <1>4. Progress[key] \in Nat /\ \A i \in 0..n : Progress[zobrists[i]] \in Nat
    BY <1>2
  <1>5. Turn[key] \in {0, 1} /\ \A i \in 0..n : Turn[zobrists[i]] \in {0, 1}
    BY <1>2
  <1> HIDE DEF n
  <1>6. \A i \in 0..(n + 1) : i \in 0..n \/ i = n + 1
    BY <1>1
  <1>7. n \in 0..n /\ 0 \in 0..n
    BY <1>1
  <1>8. Turns'
    <2>1. Turn[zobrists[n]] = (Turn[zobrists[0]] + n) % 2
      BY <1>0, <1>7 DEF Turns, n
    <2>2. Turn[key] = (Turn[zobrists[0]] + (n + 1)) % 2
      BY <2>1, <1>1, <1>3, <1>5, <1>7
    <2>3. \A i \in 0..n : Turn[zobrists'[i]] = (Turn[zobrists'[0]] + i) % 2
      BY <1>0, <1>1, <1>7 DEF Turns, n
    <2>4. \A i \in 0..(n + 1) : Turn[zobrists'[i]] = (Turn[zobrists'[0]] + i) % 2
      BY <2>2, <2>3, <1>1, <1>6, <1>7
    <2> QED
      BY <2>4, <1>1 DEF Turns
  <1>9. Progresses'
    <2>1. \A i, j \in 0..n : i <= j => Progress[zobrists[i]] <= Progress[zobrists[j]]
      BY <1>0 DEF Progresses, n
    <2>2. \A i \in 0..n : Progress[zobrists[i]] <= Progress[key]
      BY <2>1, <1>1, <1>3, <1>4, <1>7
    <2>3. SUFFICES ASSUME NEW i \in 0..(n + 1), NEW j \in 0..(n + 1), i <= j
                   PROVE  Progress[zobrists'[i]] <= Progress[zobrists'[j]]
      BY <1>1 DEF Progresses
    <2>4. CASE j \in 0..n
      BY <2>1, <2>3, <2>4, <1>1
    <2>5. CASE j = n + 1 /\ i \in 0..n
      BY <2>2, <2>5, <1>1
    <2>6. CASE j = n + 1 /\ i = n + 1
      BY <2>6, <1>1, <1>4
    <2> QED
      BY <2>4, <2>5, <2>6, <1>6
  <1>10. NoReturn'
    <2>1. SUFFICES ASSUME NEW i \in 0..(n + 1), i >= 2
                   PROVE  zobrists'[i] # zobrists'[i - 2]
      BY <1>1 DEF NoReturn
    <2>2. i - 2 \in 0..n
      BY <2>1, <1>1
    <2>3. CASE i \in 0..n
      BY <2>1, <2>2, <2>3, <1>0, <1>1 DEF NoReturn, n
    <2>4. CASE i = n + 1
      <3>1. n >= 1 /\ i - 2 = n - 1
        BY <2>1, <2>4, <1>1
      <3> QED
        BY <3>1, <2>2, <2>4, <1>1, <1>3
    <2> QED
      BY <2>3, <2>4, <1>6
  <1>11. Cut'
    <2> DEFINE last == ply_of_last_irreversible_move
    <2>1. \A j \in 0..n : last[j] <= j /\ last[j] \in Nat
      BY <1>0, <1>2 DEF Cut, n
    <2>2. \A i, j \in 0..n : i < last[j] => Progress[zobrists[i]] < Progress[zobrists[j]]
      BY <1>0 DEF Cut, n
    <2>3. LastIrreversible = last[n]
      BY DEF LastIrreversible, n
    <2>4. \A i \in 0..n : Progress[zobrists[i]] <= Progress[zobrists[n]]
      BY <1>0, <1>1, <1>7 DEF Progresses, n
    <2>5. \A j \in 0..n : last'[j] = last[j]
      BY <1>1
    <2>6. last'[n + 1] = IF Progress[key] > Progress[zobrists[n]] THEN n + 1 ELSE last[n]
      BY <1>1, <2>3
    <2> HIDE DEF last
    <2>7. \A j \in 0..(n + 1) : last'[j] <= j
      BY <2>1, <2>5, <2>6, <1>1, <1>6, <1>7
    <2>8. \A i, j \in 0..(n + 1) :
            i < last'[j] => Progress[zobrists'[i]] < Progress[zobrists'[j]]
      <3>1. SUFFICES ASSUME NEW i \in 0..(n + 1), NEW j \in 0..(n + 1), i < last'[j]
                     PROVE  Progress[zobrists'[i]] < Progress[zobrists'[j]]
        OBVIOUS
      <3>2. CASE j \in 0..n
        <4>1. i < last[j] /\ last[j] <= j
          BY <2>1, <2>5, <3>1, <3>2
        <4>2. i \in 0..n
          BY <4>1, <2>1, <3>2, <1>1
        <4>3. Progress[zobrists[i]] < Progress[zobrists[j]]
          BY <4>1, <4>2, <2>2, <3>2
        <4> QED
          BY <4>2, <4>3, <3>2, <1>1
      <3>3. CASE j = n + 1 /\ Progress[key] > Progress[zobrists[n]]
        <4>1. i \in 0..n
          BY <2>6, <3>1, <3>3, <1>1
        <4>2. Progress[zobrists[i]] < Progress[key]
          BY <4>1, <2>4, <3>3, <1>4, <1>7
        <4> QED
          BY <4>1, <4>2, <3>3, <1>1
      <3>4. CASE j = n + 1 /\ ~(Progress[key] > Progress[zobrists[n]])
        <4>1. i < last[n] /\ last[n] <= n
          BY <2>1, <2>6, <3>1, <3>4, <1>7
        <4>2. i \in 0..n
          BY <4>1, <2>1, <1>1, <1>7
        <4>3. Progress[zobrists[i]] < Progress[zobrists[n]]
          BY <4>1, <4>2, <2>2, <1>7
        <4>4. Progress[zobrists[i]] < Progress[key]
          BY <4>2, <4>3, <1>3, <1>4, <1>7
        <4> QED
          BY <4>2, <4>4, <3>4, <1>1
      <3> QED
        BY <3>2, <3>3, <3>4, <1>6
    <2> QED
      BY <2>7, <2>8, <1>1 DEF Cut, last
  <1> QED
    BY <1>1, <1>8, <1>9, <1>10, <1>11 DEF RepetitionInv

\* Taking a move back shortens the history and leaves the rest of it.
LEMMA UnmakeInv ==
  ASSUME RepetitionInv, Unmake
  PROVE  RepetitionInv'
  <1> USE RepetitionAssumption
  <1>0. History /\ Turns /\ Progresses /\ NoReturn /\ Cut
    BY DEF RepetitionInv
  <1>1. PICK n \in Nat : ply_counter = n + 1
    <2>1. ply_counter \in Nat /\ ply_of_root \in Nat /\ ply_counter > ply_of_root
      BY <1>0 DEF History, Unmake
    <2>2. ply_counter - 1 \in Nat /\ ply_counter = (ply_counter - 1) + 1
      BY <2>1
    <2> QED
      BY <2>2
  <1>2. ply_counter' = n
    BY <1>1 DEF Unmake
  <1>3. \A i \in 0..n : i \in 0..ply_counter
    BY <1>1
  <1>4. \A i \in 0..n :
          /\ zobrists'[i] = zobrists[i]
          /\ ply_of_last_irreversible_move'[i] = ply_of_last_irreversible_move[i]
    BY <1>1 DEF Unmake, Shortened
  <1>5. History'
    <2>1. zobrists' \in [0..n -> Keys]
      BY <1>0, <1>1, <1>3 DEF History, Unmake, Shortened
    <2>2. ply_of_last_irreversible_move' \in [0..n -> Nat]
      BY <1>0, <1>1, <1>3 DEF History, Unmake, Shortened
    <2>3. ply_of_root' \in 0..n
      BY <1>0, <1>1 DEF History, Unmake
    <2> QED
      BY <1>2, <2>1, <2>2, <2>3 DEF History
  <1>6. Turns'
    BY <1>0, <1>1, <1>2, <1>3, <1>4 DEF Turns
  <1>7. Progresses'
    BY <1>0, <1>2, <1>3, <1>4 DEF Progresses
  <1>8. NoReturn'
    <2>1. \A i \in 0..n : i >= 2 => i - 2 \in 0..n
      BY <1>1
    <2> QED
      BY <2>1, <1>0, <1>2, <1>3, <1>4 DEF NoReturn
  <1>9. Cut'
    BY <1>0, <1>2, <1>3, <1>4 DEF Cut
  <1> QED
    BY <1>5, <1>6, <1>7, <1>8, <1>9 DEF RepetitionInv

LEMMA StepInv ==
  ASSUME RepetitionInv, [RepetitionNext]_repetitionVars
  PROVE  RepetitionInv'
  <1>1. CASE \E key \in Keys : Move(key)
    BY <1>1, MoveInv
  <1>2. CASE Unmake
    BY <1>2, UnmakeInv
  <1>3. CASE Start
    <2>1. History'
      BY <1>3 DEF RepetitionInv, History, Start
    <2>2. (Turns /\ Progresses /\ NoReturn /\ Cut)'
      BY <1>3 DEF RepetitionInv, Start, Turns, Progresses, NoReturn, Cut
    <2> QED
      BY <2>1, <2>2 DEF RepetitionInv
  <1>4. CASE UNCHANGED repetitionVars
    BY <1>4 DEF repetitionVars, RepetitionInv, History, Turns, Progresses, NoReturn, Cut
  <1> QED
    BY <1>1, <1>2, <1>3, <1>4 DEF RepetitionNext

-----------------------------------------------------------------------------
(* The repetitions of the history are where is_repetition looks.             *)

Before == {i \in 0..(ply_counter - 1) : zobrists[i] = zobrists[ply_counter]}

LEMMA BeforeFacts ==
  ASSUME RepetitionInv
  PROVE  /\ Seen = Before
         /\ Before # {} => ply_counter - LastIrreversible >= 3
  <1> USE RepetitionAssumption
  <1>0. History /\ Turns /\ Progresses /\ NoReturn /\ Cut
    BY DEF RepetitionInv
  <1> DEFINE n == ply_counter
             last == LastIrreversible
  <1>1. n \in Nat /\ n \in 0..n /\ 0 \in 0..n
    BY <1>0 DEF History
  <1>2. last \in Nat /\ last <= n
    BY <1>0, <1>1 DEF History, Cut, LastIrreversible
  <1>3. \A i \in 0..n : Turn[zobrists[i]] = (Turn[zobrists[0]] + i) % 2
    BY <1>0 DEF Turns
  <1>4. Turn[zobrists[0]] \in {0, 1}
    BY <1>0, <1>1 DEF History
  <1>5. \A i \in 0..n : Progress[zobrists[i]] \in Nat
    BY <1>0 DEF History
  <1>6. ASSUME NEW i \in Before
        PROVE  /\ i \in last..(n - 2) /\ (n - i) % 2 = 0 /\ zobrists[i] = zobrists[n]
               /\ n - last >= 3
    <2>1. i \in 0..(n - 1) /\ zobrists[i] = zobrists[n]
      BY DEF Before
    <2>2. i \in 0..n
      BY <2>1, <1>1
    <2>3. (Turn[zobrists[0]] + i) % 2 = (Turn[zobrists[0]] + n) % 2
      BY <2>1, <2>2, <1>1, <1>3
    <2>4. (n - i) % 2 = 0
      BY <2>2, <2>3, <1>1, <1>4
    <2>5. i # n - 1
      BY <2>4, <1>1
    <2>6. i # n - 2
      <3>1. SUFFICES ASSUME i = n - 2 PROVE FALSE
        OBVIOUS
      <3>2. n >= 2
        BY <3>1, <2>2, <1>1
      <3>3. zobrists[n] # zobrists[n - 2]
        BY <3>2, <1>0, <1>1 DEF NoReturn
      <3> QED
        BY <3>1, <3>3, <2>1
    <2>7. ~(i < last)
      BY <2>1, <2>2, <1>0, <1>1, <1>5 DEF Cut, LastIrreversible
    <2> HIDE DEF n, last
    <2> QED
      BY <2>1, <2>2, <2>4, <2>5, <2>6, <2>7, <1>1, <1>2
  <1>7. Seen \subseteq Before
    BY <1>1, <1>2 DEF Seen, Before
  <1>8. Before \subseteq Seen
    BY <1>6 DEF Seen
  <1> QED
    BY <1>6, <1>7, <1>8

LEMMA InvExact == RepetitionInv => RepetitionsExact
  <1> SUFFICES ASSUME RepetitionInv PROVE RepetitionsExact
    OBVIOUS
  <1>1. Seen = Before /\ (Before # {} => ply_counter - LastIrreversible >= 3)
    BY BeforeFacts
  <1>2. IsFiniteSet(Before)
    <2>1. ply_counter \in Nat
      BY DEF RepetitionInv, History
    <2>2. IsFiniteSet(0..(ply_counter - 1))
      BY <2>1, FS_Interval
    <2>3. Before \subseteq 0..(ply_counter - 1)
      BY DEF Before
    <2> QED
      BY <2>2, <2>3, FS_Subset
  <1>3. Cardinality(Before) \in Nat
    BY <1>2, FS_CardinalityType
  <1>4. Cardinality({}) = 0
    BY FS_EmptySet
  <1>5. Cardinality(Before) >= 2 => Before # {}
    BY <1>4
  <1>6. 1 + Cardinality(Seen) >= 3 <=> Cardinality(Before) >= 2
    BY <1>1, <1>3
  <1>7. (\E i \in Before : i >= ply_of_root) => Before # {}
    OBVIOUS
  <1>8. is_repetition <=> \/ \E i \in Before : i >= ply_of_root
                          \/ Cardinality(Before) >= 2
    BY <1>1, <1>5, <1>6, <1>7 DEF is_repetition
  <1> QED
    BY <1>8 DEF RepetitionsExact, Before

-----------------------------------------------------------------------------
\* is_repetition (eval.c) finds exactly the positions that occurred before in
\* the search or twice before in the game, at every position of every game and
\* search: however long the history, wherever the search began and whenever
\* the last irreversible move was made.
THEOREM RepetitionsAreExact == RepetitionSpec => []RepetitionsExact
  <1>1. RepetitionInv /\ [RepetitionNext]_repetitionVars => RepetitionInv'
    BY StepInv
  <1> QED
    BY InitInv, <1>1, InvExact, PTL DEF RepetitionSpec
=============================================================================
