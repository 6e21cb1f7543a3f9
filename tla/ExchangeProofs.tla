--------------------------- MODULE ExchangeProofs ---------------------------
(***************************************************************************)
(* Theorems about Exchange, for any calls on any boards: the lists of      *)
(* attackers that generate_attackers makes, and the bounds of an exchange  *)
(* with lists of any length and any number of captures on the target.      *)
(***************************************************************************)
EXTENDS Exchange, SequenceTheorems, FiniteSetTheorems, TLAPS

-----------------------------------------------------------------------------
(* Values.                                                                   *)

KingValue == 9 * 900 + 2 * 500 + 2 * 330 + 2 * 320 + 1

LEMMA KingValueFacts == KingValue \in Nat /\ 900 <= KingValue /\ KingValue <= 15000
  BY DEF KingValue

LEMMA PieceValues ==
  ASSUME NEW piece
  PROVE  /\ piece_value(piece) \in 0..KingValue
         /\ piece.kind # "king" => piece_value(piece) <= 900
  <1>1. piece_value(piece) = KingValue \/ piece_value(piece) \in {100, 320, 330, 500, 900, 0}
    BY DEF piece_value, KingValue
  <1>2. piece.kind # "king" => piece_value(piece) \in {100, 320, 330, 500, 900, 0}
    BY DEF piece_value
  <1> QED
    BY <1>1, <1>2, KingValueFacts

LEMMA SquareValues ==
  ASSUME NEW p, NEW sq
  PROVE  /\ ValueAt(p, sq) \in 0..KingValue
         /\ PieceAt(p, sq).kind # "king" => ValueAt(p, sq) <= 900
  BY PieceValues DEF ValueAt

\* Whatever is in a list, a number no larger than a king's value is popped.
LEMMA PoppedValues ==
  ASSUME NEW p, NEW list
  PROVE  Popped(p, list).value \in 0..KingValue
  <1>1. CASE list = <<>>
    BY <1>1, KingValueFacts DEF Popped
  <1>2. CASE list # <<>>
    BY <1>2, SquareValues DEF Popped
  <1> QED
    BY <1>1, <1>2

-----------------------------------------------------------------------------
(* The board: squares as ranks and files.                                    *)

Steps == LineSteps \union DiagonalSteps

LEMMA StepCases ==
  ASSUME NEW step \in Steps
  PROVE  \/ step = 1 \/ step = -1 \/ step = 16 \/ step = -16
         \/ step = 15 \/ step = -15 \/ step = 17 \/ step = -17
  BY DEF Steps, LineSteps, DiagonalSteps

\* A square has a rank and a file.
LEMMA SquareParts ==
  ASSUME NEW sq \in Board
  PROVE  /\ rank07(sq) \in 0..7 /\ file07(sq) \in 0..7
         /\ sq = 16 * rank07(sq) + file07(sq)
  <1>1. sq \in 0..127 /\ (sq \div 8) % 2 = 0
    BY DEF Board, off_the_board
  <1> QED
    BY <1>1 DEF rank07, file07

LEMMA OnTheBoard ==
  ASSUME NEW r \in 0..7, NEW f \in 0..7
  PROVE  /\ 16 * r + f \in Board /\ Byte(16 * r + f) = 16 * r + f
         /\ rank07(16 * r + f) = r /\ file07(16 * r + f) = f
  <1>1. 16 * r + f \in 0..127
    OBVIOUS
  <1>2. (16 * r + f) \div 8 = 2 * r
    OBVIOUS
  <1>3. (2 * r) % 2 = 0
    OBVIOUS
  <1>4. (16 * r + f) \div 16 = r /\ (16 * r + f) % 8 = f
    OBVIOUS
  <1> QED
    BY <1>1, <1>2, <1>3, <1>4 DEF Board, off_the_board, Byte, rank07, file07

\* A byte is off the board when its rank or its file would be.
LEMMA OffTheBoard ==
  ASSUME NEW r \in Int, NEW f \in Int, r >= -8, r <= 15, f >= -8, f <= 15,
         ~(r \in 0..7 /\ f \in 0..7)
  PROVE  off_the_board(Byte(16 * r + f))
  <1>1. CASE f >= 8
    <2>1. PICK q \in -1..0 : Byte(16 * r + f) = 16 * (r - 16 * q) + f
      BY <1>1 DEF Byte
    <2>2. (16 * (r - 16 * q) + f) \div 8 = 2 * (r - 16 * q) + 1
      BY <1>1
    <2>3. (2 * (r - 16 * q) + 1) % 2 = 1
      OBVIOUS
    <2> QED
      BY <2>1, <2>2, <2>3 DEF off_the_board
  <1>2. CASE f < 0
    <2>1. PICK q \in -1..0 : Byte(16 * r + f) = 16 * (r - 16 * q) + f
      BY <1>2 DEF Byte
    <2>2. (16 * (r - 16 * q) + f) \div 8 = 2 * (r - 16 * q - 1) + 1
      BY <1>2
    <2>3. (2 * (r - 16 * q - 1) + 1) % 2 = 1
      OBVIOUS
    <2> QED
      BY <2>1, <2>2, <2>3 DEF off_the_board
  <1>3. CASE f \in 0..7 /\ r >= 8
    <2>1. Byte(16 * r + f) = 16 * r + f
      BY <1>3 DEF Byte
    <2> QED
      BY <1>3, <2>1 DEF off_the_board
  <1>4. CASE f \in 0..7 /\ r < 0
    <2>1. Byte(16 * r + f) = 16 * r + f + 256
      BY <1>4 DEF Byte
    <2> QED
      BY <1>4, <2>1 DEF off_the_board
  <1> QED
    BY <1>1, <1>2, <1>3, <1>4

\* The ranks and files passed on a line; the numbers in the code are bytes.
Rise(step) == IF step \in {1, -1} THEN 0 ELSE IF step > 0 THEN 1 ELSE -1
Drift(step) == IF step \in {16, -16} THEN 0 ELSE IF step \in {1, 17, -15} THEN 1 ELSE -1

LEMMA StepParts ==
  ASSUME NEW step \in Steps
  PROVE  /\ Rise(step) \in {-1, 0, 1} /\ Drift(step) \in {-1, 0, 1}
         /\ step = 16 * Rise(step) + Drift(step)
         /\ step \in Int /\ step # 0
         /\ -step \in Steps
         /\ \A n \in Int : n * step = 16 * (n * Rise(step)) + n * Drift(step)
  BY StepCases DEF Rise, Drift, Steps, LineSteps, DiagonalSteps

\* A step taken as an unsigned byte leads to the same byte.
LEMMA StepByte ==
  ASSUME NEW start \in Int, NEW step \in Steps, NEW n \in 1..8
  PROVE  Byte(start + n * Byte(step)) = Byte(start + n * step)
  <1>1. Byte(step) = step \/ Byte(step) = step + 256
    BY StepCases DEF Byte
  <1>2. step \in Int
    BY StepCases
  <1>3. CASE Byte(step) = step
    BY <1>3
  <1>4. CASE Byte(step) = step + 256
    <2>1. start + n * (step + 256) = (start + n * step) + 256 * n
      BY <1>2
    <2> DEFINE m == start + n * step
    <2>2. m \in Int
      BY <1>2
    <2> HIDE DEF m
    <2>3. \A k \in 1..8 : (m + 256 * k) % 256 = m % 256
      BY <2>2
    <2>4. (m + 256 * n) % 256 = m % 256
      BY <2>3
    <2> QED
      BY <1>4, <2>1, <2>4 DEF Byte, m
  <1> QED
    BY <1>1, <1>3, <1>4

\* Up to eight steps from a square either stay on the board or end beyond it,
\* as numbers do cut to a byte; a line that has left the board does not return.
LEMMA RaySquares ==
  ASSUME NEW start \in Board, NEW step \in Steps, NEW n \in 1..8
  PROVE  /\ start + n * step \in Board => Byte(start + n * Byte(step)) = start + n * step
         /\ start + n * step \notin Board => off_the_board(Byte(start + n * Byte(step)))
         /\ n = 8 => start + n * step \notin Board
         /\ start + n * step \in Board => \A k \in 1..n : start + k * step \in Board
  <1> DEFINE r0 == rank07(start)  f0 == file07(start)
             dr == Rise(step)     df == Drift(step)
  <1>1. r0 \in 0..7 /\ f0 \in 0..7 /\ start = 16 * r0 + f0
    BY SquareParts
  <1>2. dr \in {-1, 0, 1} /\ df \in {-1, 0, 1} /\ step = 16 * dr + df /\ step # 0 /\ step \in Int
    BY StepParts
  <1>3. \A k \in Int : k * step = 16 * (k * dr) + k * df
    BY StepParts
  <1> HIDE DEF r0, f0, dr, df
  <1>4. ASSUME NEW k \in 1..8
        PROVE  /\ k * dr \in Int /\ -8 <= k * dr /\ k * dr <= 8
               /\ k * df \in Int /\ -8 <= k * df /\ k * df <= 8
               /\ start + k * step = 16 * (r0 + k * dr) + (f0 + k * df)
    <2>1. k * dr \in {-k, 0, k} /\ k * df \in {-k, 0, k}
      BY <1>2
    <2>2. k * step = 16 * (k * dr) + k * df
      BY <1>3
    <2>3. PICK x \in Int, y \in Int : /\ x = k * dr /\ y = k * df
                                     /\ -8 <= x /\ x <= 8 /\ -8 <= y /\ y <= 8
      BY <2>1
    <2>4. k * step = 16 * x + y
      BY <2>2, <2>3
    <2>5. start + (16 * x + y) = 16 * (r0 + x) + (f0 + y)
      BY <1>1
    <2> QED
      BY <2>3, <2>4, <2>5
  <1> DEFINE Inside(k) == r0 + k * dr \in 0..7 /\ f0 + k * df \in 0..7
  <1>5. ASSUME NEW k \in 1..8
        PROVE  /\ Inside(k) => /\ start + k * step \in Board
                               /\ Byte(start + k * step) = start + k * step
               /\ ~Inside(k) => off_the_board(Byte(start + k * step))
    <2> DEFINE r == r0 + k * dr  f == f0 + k * df
    <2>1. /\ start + k * step = 16 * r + f /\ r \in Int /\ f \in Int
          /\ -8 <= r /\ r <= 15 /\ -8 <= f /\ f <= 15
      BY <1>1, <1>4
    <2> HIDE DEF r, f
    <2>2. CASE r \in 0..7 /\ f \in 0..7
      BY <2>1, <2>2, OnTheBoard DEF r, f
    <2>3. CASE ~(r \in 0..7 /\ f \in 0..7)
      BY <2>1, <2>3, OffTheBoard DEF r, f
    <2> QED
      BY <2>2, <2>3
  <1>6. \A sq \in Board : Byte(sq) = sq /\ ~off_the_board(sq)
    BY DEF Board, Byte
  <1>7. \A k \in 1..8 : start + k * step \in Board <=> Inside(k)
    BY <1>5, <1>6
  <1>8. Byte(start + n * Byte(step)) = Byte(start + n * step)
    BY <1>1, StepByte DEF Board
  <1>9. ~Inside(8)
    <2>1. 8 * dr \in {-8, 0, 8} /\ 8 * df \in {-8, 0, 8} /\ (dr # 0 \/ df # 0)
      BY <1>2
    <2> QED
      BY <2>1, <1>1, <1>2
  <1>10. ASSUME Inside(n), NEW k \in 1..n PROVE Inside(k)
    <2>1. n * dr \in {-n, 0, n} /\ (dr = 0 => k * dr = 0) /\ (dr = 1 => k * dr = k /\ n * dr = n)
             /\ (dr = -1 => k * dr = -k /\ n * dr = -n)
      BY <1>2
    <2>2. (df = 0 => k * df = 0) /\ (df = 1 => k * df = k /\ n * df = n)
             /\ (df = -1 => k * df = -k /\ n * df = -n)
      BY <1>2
    <2> QED
      BY <2>1, <2>2, <1>1, <1>2, <1>10
  <1> QED
    <2>1. \A k \in 1..n : k \in 1..8
      OBVIOUS
    <2> HIDE DEF Inside
    <2> QED
      BY <2>1, <1>5, <1>7, <1>8, <1>9, <1>10

\* The ranks and files between two squares on a line.
LEMMA LineParts ==
  ASSUME NEW a \in Board, NEW b \in Board, NEW s \in Steps, NEW n \in 1..7, a = b + n * s
  PROVE  /\ rank07(a) - rank07(b) = n * Rise(s)
         /\ file07(a) - file07(b) = n * Drift(s)
         /\ n * Rise(s) \in {-n, 0, n} /\ n * Drift(s) \in {-n, 0, n}
  <1> DEFINE dr == Rise(s)  df == Drift(s)
  <1>1. dr \in {-1, 0, 1} /\ df \in {-1, 0, 1} /\ n * s = 16 * (n * dr) + n * df
    BY StepParts
  <1>2. /\ rank07(a) \in 0..7 /\ file07(a) \in 0..7 /\ a = 16 * rank07(a) + file07(a)
        /\ rank07(b) \in 0..7 /\ file07(b) \in 0..7 /\ b = 16 * rank07(b) + file07(b)
    BY SquareParts
  <1> HIDE DEF dr, df
  <1>3. n * dr \in {-n, 0, n} /\ n * df \in {-n, 0, n}
    BY <1>1
  <1>4. PICK x \in {-n, 0, n}, y \in {-n, 0, n} : x = n * dr /\ y = n * df
    BY <1>3
  <1>5. a = b + (16 * x + y)
    BY <1>1, <1>4
  <1>6. PICK r1 \in 0..7, f1 \in 0..7, r2 \in 0..7, f2 \in 0..7 :
           /\ a = 16 * r1 + f1 /\ rank07(a) = r1 /\ file07(a) = f1
           /\ b = 16 * r2 + f2 /\ rank07(b) = r2 /\ file07(b) = f2
    BY <1>2
  <1>x. x \in Int /\ y \in Int /\ -7 <= y /\ y <= 7
    BY <1>4
  <1>7. r1 - r2 = x /\ f1 - f2 = y
    BY <1>x, <1>5, <1>6
  <1> QED
    BY <1>3, <1>4, <1>6, <1>7 DEF dr, df

\* Two squares lie on one line at most, at one distance.
LEMMA OneLine ==
  ASSUME NEW a \in Board, NEW b \in Board,
         NEW s \in Steps, NEW n \in 1..7, a = b + n * s,
         NEW t \in Steps, NEW m \in 1..7, a = b + m * t
  PROVE  s = t /\ n = m
  <1>1. /\ n * Rise(s) = m * Rise(t) /\ n * Drift(s) = m * Drift(t)
    BY LineParts
  <1>2. /\ Rise(s) \in {-1, 0, 1} /\ Drift(s) \in {-1, 0, 1}
        /\ Rise(t) \in {-1, 0, 1} /\ Drift(t) \in {-1, 0, 1}
        /\ s = 16 * Rise(s) + Drift(s) /\ t = 16 * Rise(t) + Drift(t) /\ s # 0 /\ t # 0
    BY StepParts
  <1> DEFINE x == Rise(s)  y == Drift(s)  u == Rise(t)  v == Drift(t)
  <1> HIDE DEF x, y, u, v
  <1>a. x \in {-1, 0, 1} /\ u \in {-1, 0, 1} /\ n * x = m * u
    BY <1>1, <1>2 DEF x, u
  <1>b. y \in {-1, 0, 1} /\ v \in {-1, 0, 1} /\ n * y = m * v
    BY <1>1, <1>2 DEF y, v
  <1>3. Rise(s) = Rise(t) /\ Drift(s) = Drift(t)
    <2>1. x = u
      BY <1>a
    <2>2. y = v
      BY <1>b
    <2> QED
      BY <2>1, <2>2 DEF x, y, u, v
  <1>4. Rise(s) # 0 \/ Drift(s) # 0
    BY <1>2
  <1>5. n = m
    BY <1>a, <1>b, <1>4 DEF x, y
  <1> QED
    BY <1>2, <1>3, <1>5

-----------------------------------------------------------------------------
(* The tables of increments.                                                 *)

LEMMA VisitedParts ==
  ASSUME NEW sq \in Visited
  PROVE  /\ rank07(sq) \in 0..8 /\ file07(sq) \in 0..7
         /\ sq = 16 * rank07(sq) + file07(sq)
  <1>1. PICK n \in 0..64 : sq = sq8x8_to_sq0x88(n)
    BY DEF Visited
  <1>2. PICK r \in 0..8, f \in 0..7 : n = 8 * r + f
    OBVIOUS
  <1>3. sq = 16 * r + f
    BY <1>1, <1>2 DEF sq8x8_to_sq0x88, Byte
  <1> QED
    BY <1>3 DEF rank07, file07

\* vector_attack.c visits every square.
LEMMA BoardVisited == Board \subseteq Visited
  <1> SUFFICES ASSUME NEW sq \in Board PROVE sq \in Visited
    OBVIOUS
  <1>1. PICK r \in 0..7, f \in 0..7 : sq = 16 * r + f
    BY SquareParts
  <1>2. sq = sq8x8_to_sq0x88(8 * r + f) /\ 8 * r + f \in 0..64
    BY <1>1 DEF sq8x8_to_sq0x88, Byte
  <1> QED
    BY <1>2 DEF Visited

\* Pairs in one cell have the same differences of rank and file.
LEMMA OneCell ==
  ASSUME NEW a \in Visited, NEW b \in Visited, NEW c \in Visited, NEW d \in Visited,
         Cell(<<a, b>>) = Cell(<<c, d>>)
  PROVE  /\ rank07(a) - rank07(b) = rank07(c) - rank07(d)
         /\ file07(a) - file07(b) = file07(c) - file07(d)
         /\ a - b = c - d
  <1>1. PICK r1 \in 0..8, f1 \in 0..7 :
           a = 16 * r1 + f1 /\ rank07(a) = r1 /\ file07(a) = f1
    BY VisitedParts
  <1>2. PICK r2 \in 0..8, f2 \in 0..7 :
           b = 16 * r2 + f2 /\ rank07(b) = r2 /\ file07(b) = f2
    BY VisitedParts
  <1>3. PICK r3 \in 0..8, f3 \in 0..7 :
           c = 16 * r3 + f3 /\ rank07(c) = r3 /\ file07(c) = f3
    BY VisitedParts
  <1>4. PICK r4 \in 0..8, f4 \in 0..7 :
           d = 16 * r4 + f4 /\ rank07(d) = r4 /\ file07(d) = f4
    BY VisitedParts
  <1>5. a - b + const_offset = c - d + const_offset
    BY DEF Cell
  <1>6. a - b = c - d
    BY <1>1, <1>2, <1>3, <1>4, <1>5 DEF const_offset
  <1>7. 16 * (r1 - r2) + (f1 - f2) = 16 * (r3 - r4) + (f3 - f4)
    BY <1>1, <1>2, <1>3, <1>4, <1>6
  <1>8. r1 - r2 = r3 - r4 /\ f1 - f2 = f3 - f4
    BY <1>7
  <1> QED
    BY <1>1, <1>2, <1>3, <1>4, <1>6, <1>8

\* The distance and the direction of a pair depend on its cell only.
LEMMA OneIncrement ==
  ASSUME NEW a \in Visited, NEW b \in Visited, NEW c \in Visited, NEW d \in Visited,
         Cell(<<a, b>>) = Cell(<<c, d>>)
  PROVE  /\ Increment(<<a, b>>) = Increment(<<c, d>>)
         /\ d_file(a, b) = d_file(c, d) /\ d_rank(a, b) = d_rank(c, d)
         /\ a = b <=> c = d
  <1>1. d_file(a, b) = d_file(c, d) /\ d_rank(a, b) = d_rank(c, d)
    BY OneCell DEF d_file, d_rank
  <1>2. a - b = c - d
    BY OneCell
  <1>3. a = b <=> c = d
    BY <1>2, VisitedParts
  <1>4. d_square(a, b) = d_square(c, d)
    BY <1>1 DEF d_square
  <1> QED
    BY <1>1, <1>2, <1>3, <1>4 DEF Increment

\* What a table holds for two squares of the board, if its pairs are chosen by
\* their differences of rank and file.
LEMMA TableHolds ==
  ASSUME NEW pairs \in SUBSET (Visited \X Visited), NEW a \in Board, NEW b \in Board,
         \A p \in pairs : Cell(p) = Cell(<<a, b>>) => <<a, b>> \in pairs
  PROVE  Table(pairs)[diff_0x88(a, b)]
           = IF <<a, b>> \in pairs THEN Increment(<<a, b>>) ELSE 0
  <1>1. a \in Visited /\ b \in Visited
    BY BoardVisited
  <1>2. diff_0x88(a, b) = Cell(<<a, b>>) /\ diff_0x88(a, b) \in Cells
    <2>1. PICK r1 \in 0..7, f1 \in 0..7, r2 \in 0..7, f2 \in 0..7 :
             a = 16 * r1 + f1 /\ b = 16 * r2 + f2
      BY SquareParts
    <2> QED
      BY <2>1 DEF diff_0x88, Cell, Cells, const_offset, Byte
  <1> DEFINE cell == diff_0x88(a, b)
             values == {Increment(p) : p \in {q \in pairs : Cell(q) = cell}}
  <1>3. Table(pairs)[cell] = IF values = {} THEN 0 ELSE CHOOSE v \in values : TRUE
    BY <1>2 DEF Table
  <1>4. \A p \in pairs : Cell(p) = cell => Increment(p) = Increment(<<a, b>>)
    <2> SUFFICES ASSUME NEW p \in pairs, Cell(p) = cell
                 PROVE  Increment(p) = Increment(<<a, b>>)
      OBVIOUS
    <2>1. PICK c \in Visited, d \in Visited : p = <<c, d>>
      OBVIOUS
    <2> QED
      BY <2>1, <1>1, <1>2, OneIncrement
  <1>5. CASE <<a, b>> \in pairs
    <2>1. values = {Increment(<<a, b>>)}
      BY <1>2, <1>4, <1>5
    <2> QED
      BY <2>1, <1>3, <1>5
  <1>6. CASE <<a, b>> \notin pairs
    <2>1. values = {}
      BY <1>2, <1>6
    <2> QED
      BY <2>1, <1>3, <1>6
  <1> QED
    BY <1>5, <1>6

\* Two squares on a line of a queen are some steps apart.
LEMMA OnSomeLine ==
  ASSUME NEW a \in Board, NEW b \in Board
  PROVE  /\ \A s \in Steps, n \in 1..7 : a = b + n * s =>
              /\ OnLine(a, b) \/ OnDiagonal(a, b)
              /\ d_square(a, b) = n
         /\ OnLine(a, b) \/ OnDiagonal(a, b) => \E s \in Steps, n \in 1..7 : a = b + n * s
  <1>1. ASSUME NEW s \in Steps, NEW n \in 1..7, a = b + n * s
        PROVE  (OnLine(a, b) \/ OnDiagonal(a, b)) /\ d_square(a, b) = n
    <2> DEFINE dr == Rise(s)  df == Drift(s)
    <2>1. dr \in {-1, 0, 1} /\ df \in {-1, 0, 1} /\ (dr # 0 \/ df # 0)
      BY StepParts
    <2>2. rank07(a) - rank07(b) = n * dr /\ file07(a) - file07(b) = n * df
      BY <1>1, LineParts
    <2> HIDE DEF dr, df
    <2>3. d_rank(a, b) \in {0, n} /\ d_file(a, b) \in {0, n}
            /\ (d_rank(a, b) = 0 <=> dr = 0) /\ (d_file(a, b) = 0 <=> df = 0)
      BY <2>1, <2>2 DEF d_rank, d_file, Abs
    <2>4. a # b
      <3>1. n * dr # 0 \/ n * df # 0
        BY <2>1
      <3>2. rank07(a) \in Int /\ file07(a) \in Int
        BY SquareParts
      <3> QED
        BY <3>1, <3>2, <2>2
    <2> QED
      BY <2>1, <2>3, <2>4 DEF OnLine, OnDiagonal, d_square
  <1>2. ASSUME OnLine(a, b) \/ OnDiagonal(a, b)
        PROVE  \E s \in Steps, n \in 1..7 : a = b + n * s
    <2>1. PICK r1 \in 0..7, f1 \in 0..7, r2 \in 0..7, f2 \in 0..7 :
             /\ a = 16 * r1 + f1 /\ rank07(a) = r1 /\ file07(a) = f1
             /\ b = 16 * r2 + f2 /\ rank07(b) = r2 /\ file07(b) = f2
      BY SquareParts
    <2>2. PICK x \in -7..7, y \in -7..7 : x = r1 - r2 /\ y = f1 - f2
      OBVIOUS
    <2>3. (x # 0 \/ y # 0) /\ (x = 0 \/ y = 0 \/ x = y \/ x = -y)
      BY <1>2, <2>1, <2>2 DEF OnLine, OnDiagonal, d_file, d_rank, Abs
    <2>4. a = b + 16 * x + y
      BY <2>1, <2>2
    <2>5. b \in Int
      BY <2>1
    <2> USE DEF Steps, LineSteps, DiagonalSteps
    <2>6. CASE x = 0 /\ y > 0
      <3>1. a = b + y * 1 /\ y \in 1..7
        BY <2>4, <2>5, <2>6
      <3> QED
        BY <3>1
    <2>7. CASE x = 0 /\ y < 0
      <3>1. a = b + (-y) * (-1) /\ -y \in 1..7
        BY <2>4, <2>5, <2>7
      <3> QED
        BY <3>1
    <2>8. CASE y = 0 /\ x > 0
      <3>1. a = b + x * 16 /\ x \in 1..7
        BY <2>4, <2>5, <2>8
      <3> QED
        BY <3>1
    <2>9. CASE y = 0 /\ x < 0
      <3>1. a = b + (-x) * (-16) /\ -x \in 1..7
        BY <2>4, <2>5, <2>9
      <3> QED
        BY <3>1
    <2>10. CASE x = y /\ x > 0
      <3>1. a = b + x * 17 /\ x \in 1..7
        BY <2>4, <2>5, <2>10
      <3> QED
        BY <3>1
    <2>11. CASE x = y /\ x < 0
      <3>1. a = b + (-x) * (-17) /\ -x \in 1..7
        BY <2>4, <2>5, <2>11
      <3> QED
        BY <3>1
    <2>12. CASE x = -y /\ x > 0
      <3>1. a = b + x * 15 /\ x \in 1..7
        BY <2>4, <2>5, <2>12
      <3> QED
        BY <3>1
    <2>13. CASE x = -y /\ x < 0
      <3>1. a = b + (-x) * (-15) /\ -x \in 1..7
        BY <2>4, <2>5, <2>13
      <3> QED
        BY <3>1
    <2> QED
      BY <2>3, <2>6, <2>7, <2>8, <2>9, <2>10, <2>11, <2>12, <2>13
  <1> QED
    BY <1>1, <1>2

\* The increment that is computed for two squares on a line is its step.
LEMMA LineIncrement ==
  ASSUME NEW a \in Board, NEW b \in Board, NEW s \in Steps, NEW n \in 1..7, a = b + n * s
  PROVE  Increment(<<a, b>>) = Byte(s)
  <1>1. d_square(a, b) = n
    BY OnSomeLine
  <1>2. a - b = n * s
    BY StepParts, SquareParts
  <1>3. s \in Int
    BY StepParts
  <1>4. n = 1 \/ n = 2 \/ n = 3 \/ n = 4 \/ n = 5 \/ n = 6 \/ n = 7
    OBVIOUS
  <1>5. (n * s) \div n = s
    BY <1>3, <1>4
  <1> QED
    BY <1>1, <1>2, <1>5 DEF Increment

\* The increment of two squares is the step from the second to the first.
LEMMA QueenIncrement ==
  ASSUME NEW a \in Board, NEW b \in Board
  PROVE  /\ \A s \in Steps, n \in 1..7 : a = b + n * s => queen_increment(a, b) = Byte(s)
         /\ queen_increment(a, b) # 0 => \E s \in Steps, n \in 1..7 : a = b + n * s
  <1> DEFINE pairs == LinePairs \union DiagonalPairs
  <1>1. a \in Visited /\ b \in Visited
    BY BoardVisited
  <1>2. \A c \in Visited, d \in Visited :
          <<c, d>> \in pairs <=> OnLine(c, d) \/ OnDiagonal(c, d)
    BY DEF LinePairs, DiagonalPairs
  <1>3. \A p \in pairs : Cell(p) = Cell(<<a, b>>) => <<a, b>> \in pairs
    <2> SUFFICES ASSUME NEW p \in pairs, Cell(p) = Cell(<<a, b>>)
                 PROVE  <<a, b>> \in pairs
      OBVIOUS
    <2>1. PICK c \in Visited, d \in Visited : p = <<c, d>>
      BY DEF LinePairs, DiagonalPairs
    <2>2. OnLine(c, d) \/ OnDiagonal(c, d)
      BY <1>2, <2>1
    <2>3. /\ d_file(c, d) = d_file(a, b) /\ d_rank(c, d) = d_rank(a, b)
          /\ c = d <=> a = b
      BY <1>1, <2>1, OneIncrement
    <2>4. OnLine(a, b) \/ OnDiagonal(a, b)
      BY <2>2, <2>3 DEF OnLine, OnDiagonal
    <2> QED
      BY <1>1, <1>2, <2>4
  <1>4. pairs \in SUBSET (Visited \X Visited)
    BY DEF LinePairs, DiagonalPairs
  <1>5. queen_increment(a, b) = IF <<a, b>> \in pairs THEN Increment(<<a, b>>) ELSE 0
    <2> HIDE DEF pairs
    <2>1. Table(pairs)[diff_0x88(a, b)] = IF <<a, b>> \in pairs THEN Increment(<<a, b>>) ELSE 0
      BY <1>3, <1>4, TableHolds
    <2> QED
      BY <2>1 DEF queen_increment, QueenTable, pairs
  <1>6. ASSUME NEW s \in Steps, NEW n \in 1..7, a = b + n * s
        PROVE  queen_increment(a, b) = Byte(s)
    <2>1. (OnLine(a, b) \/ OnDiagonal(a, b)) /\ d_square(a, b) = n
      BY <1>6, OnSomeLine
    <2> QED
      BY <1>1, <1>2, <1>5, <1>6, <2>1, LineIncrement
  <1>7. ASSUME queen_increment(a, b) # 0
        PROVE  \E s \in Steps, n \in 1..7 : a = b + n * s
    BY <1>1, <1>2, <1>5, <1>7, OnSomeLine
  <1> QED
    BY <1>6, <1>7

\* The table of kings tells neighbours from others.
LEMMA KingIncrement ==
  ASSUME NEW a \in Board, NEW b \in Board
  PROVE  king_increment(a, b) # 0 <=> d_square(a, b) = 1
  <1> DEFINE pairs == {p \in Visited \X Visited : d_square(p[1], p[2]) = 1}
  <1>1. a \in Visited /\ b \in Visited
    BY BoardVisited
  <1>2. \A p \in pairs : Cell(p) = Cell(<<a, b>>) => <<a, b>> \in pairs
    <2> SUFFICES ASSUME NEW p \in pairs, Cell(p) = Cell(<<a, b>>)
                 PROVE  <<a, b>> \in pairs
      OBVIOUS
    <2>1. PICK c \in Visited, d \in Visited : p = <<c, d>>
      OBVIOUS
    <2>2. d_file(c, d) = d_file(a, b) /\ d_rank(c, d) = d_rank(a, b)
      BY <1>1, <2>1, OneIncrement
    <2> QED
      BY <1>1, <2>1, <2>2 DEF d_square
  <1>3. king_increment(a, b) = IF <<a, b>> \in pairs THEN Increment(<<a, b>>) ELSE 0
    <2>0. pairs \in SUBSET (Visited \X Visited)
      OBVIOUS
    <2> HIDE DEF pairs
    <2>1. Table(pairs)[diff_0x88(a, b)] = IF <<a, b>> \in pairs THEN Increment(<<a, b>>) ELSE 0
      BY <1>2, <2>0, TableHolds
    <2> QED
      BY <2>1 DEF king_increment, KingTable, pairs
  <1>4. <<a, b>> \in pairs <=> d_square(a, b) = 1
    BY <1>1
  <1>5. ASSUME d_square(a, b) = 1 PROVE Increment(<<a, b>>) # 0
    <2>1. PICK r1 \in 0..7, f1 \in 0..7, r2 \in 0..7, f2 \in 0..7 :
             /\ a = 16 * r1 + f1 /\ rank07(a) = r1 /\ file07(a) = f1
             /\ b = 16 * r2 + f2 /\ rank07(b) = r2 /\ file07(b) = f2
      BY SquareParts
    <2>2. r1 - r2 \in -1..1 /\ f1 - f2 \in -1..1 /\ (r1 # r2 \/ f1 # f2)
      BY <1>5, <2>1 DEF d_square, d_file, d_rank, Abs
    <2>3. a - b = 16 * (r1 - r2) + (f1 - f2)
      BY <2>1
    <2>4. a - b \in {-17, -16, -15, -1, 1, 15, 16, 17}
      BY <2>2, <2>3
    <2>5. Increment(<<a, b>>) = Byte((a - b) \div 1)
      BY <1>5 DEF Increment
    <2> QED
      BY <2>4, <2>5 DEF Byte
  <1> QED
    BY <1>3, <1>4, <1>5

\* The table of knights knows the eight jumps and, between squares, only these.
LEMMA KnightIncrement ==
  ASSUME NEW a \in Board, NEW b \in Board
  PROVE  knight_increment(a, b) # 0 <=> {d_file(a, b), d_rank(a, b)} = {1, 2}
  <1>1. PICK r1 \in 0..7, f1 \in 0..7, r2 \in 0..7, f2 \in 0..7 :
           /\ a = 16 * r1 + f1 /\ rank07(a) = r1 /\ file07(a) = f1
           /\ b = 16 * r2 + f2 /\ rank07(b) = r2 /\ file07(b) = f2
    BY SquareParts
  <1>2. PICK x \in -7..7, y \in -7..7 : x = r1 - r2 /\ y = f1 - f2
    OBVIOUS
  <1>3. a - b = 16 * x + y
    BY <1>1, <1>2
  <1>4. diff_0x88(a, b) = const_offset + (16 * x + y) /\ diff_0x88(a, b) \in Cells
    <2>1. 119 + (16 * x + y) \in 0..239
      OBVIOUS
    <2>2. 119 + a - b = 119 + (16 * x + y)
      BY <1>1, <1>2
    <2> QED
      BY <2>1, <2>2 DEF diff_0x88, const_offset, Byte, Cells
  <1>5. diff_0x88(a, b) - const_offset = 16 * x + y
    BY <1>4 DEF const_offset
  <1>6. knight_increment(a, b)
          = IF 16 * x + y \in KnightIncrements THEN Byte(16 * x + y) ELSE 0
    BY <1>4, <1>5 DEF knight_increment, KnightTable
  <1>7. knight_increment(a, b) # 0 <=> 16 * x + y \in KnightIncrements
    <2>1. 16 * x + y \in KnightIncrements => Byte(16 * x + y) # 0
      BY DEF KnightIncrements, Byte
    <2> QED
      BY <1>6, <2>1
  <1>8. d_file(a, b) = Abs(y) /\ d_rank(a, b) = Abs(x)
    BY <1>1, <1>2 DEF d_file, d_rank
  <1>9. 16 * x + y \in KnightIncrements
          <=> (Abs(x) = 1 /\ Abs(y) = 2) \/ (Abs(x) = 2 /\ Abs(y) = 1)
    BY DEF KnightIncrements, Abs
  <1> QED
    BY <1>7, <1>8, <1>9

-----------------------------------------------------------------------------
(* The tables are exact.                                                     *)

\* A step of a line moves along a rank or a file, one of a diagonal along both.
LEMMA WhichLine ==
  ASSUME NEW a \in Board, NEW b \in Board, NEW s \in Steps, NEW n \in 1..7, a = b + n * s
  PROVE  /\ OnLine(a, b) <=> s \in LineSteps
         /\ OnDiagonal(a, b) <=> s \in DiagonalSteps
  <1> DEFINE dr == Rise(s)  df == Drift(s)
  <1>1. dr \in {-1, 0, 1} /\ df \in {-1, 0, 1} /\ (dr # 0 \/ df # 0)
    BY StepParts
  <1>2. rank07(a) - rank07(b) = n * dr /\ file07(a) - file07(b) = n * df
    BY LineParts
  <1>3. s \in LineSteps <=> dr = 0 \/ df = 0
    BY StepCases DEF LineSteps, Rise, Drift
  <1>4. s \in DiagonalSteps <=> s \notin LineSteps
    BY StepCases DEF LineSteps, DiagonalSteps
  <1> HIDE DEF dr, df
  <1>5. d_rank(a, b) \in {0, n} /\ d_file(a, b) \in {0, n}
          /\ (d_rank(a, b) = 0 <=> dr = 0) /\ (d_file(a, b) = 0 <=> df = 0)
    BY <1>1, <1>2 DEF d_rank, d_file, Abs
  <1>6. a # b
    BY OnSomeLine DEF OnLine, OnDiagonal
  <1> QED
    BY <1>1, <1>3, <1>4, <1>5, <1>6 DEF OnLine, OnDiagonal

LEMMA RookIncrement ==
  ASSUME NEW a \in Board, NEW b \in Board
  PROVE  rook_increment(a, b) = IF OnLine(a, b) THEN Increment(<<a, b>>) ELSE 0
  <1>1. a \in Visited /\ b \in Visited
    BY BoardVisited
  <1>2. \A c \in Visited, d \in Visited : <<c, d>> \in LinePairs <=> OnLine(c, d)
    BY DEF LinePairs
  <1>3. ASSUME NEW p \in LinePairs, Cell(p) = Cell(<<a, b>>) PROVE <<a, b>> \in LinePairs
    <2>1. PICK c \in Visited, d \in Visited : p = <<c, d>>
      BY DEF LinePairs
    <2>2. d_file(c, d) = d_file(a, b) /\ d_rank(c, d) = d_rank(a, b) /\ (c = d <=> a = b)
      BY <1>1, <1>3, <2>1, OneIncrement
    <2>3. OnLine(c, d)
      BY <1>2, <2>1
    <2> QED
      BY <1>1, <1>2, <2>2, <2>3 DEF OnLine
  <1>4. LinePairs \in SUBSET (Visited \X Visited)
    BY DEF LinePairs
  <1>5. Table(LinePairs)[diff_0x88(a, b)]
          = IF <<a, b>> \in LinePairs THEN Increment(<<a, b>>) ELSE 0
    BY <1>3, <1>4, TableHolds
  <1> QED
    BY <1>1, <1>2, <1>5 DEF rook_increment, RookTable

LEMMA BishopIncrement ==
  ASSUME NEW a \in Board, NEW b \in Board
  PROVE  bishop_increment(a, b) = IF OnDiagonal(a, b) THEN Increment(<<a, b>>) ELSE 0
  <1>1. a \in Visited /\ b \in Visited
    BY BoardVisited
  <1>2. \A c \in Visited, d \in Visited : <<c, d>> \in DiagonalPairs <=> OnDiagonal(c, d)
    BY DEF DiagonalPairs
  <1>3. ASSUME NEW p \in DiagonalPairs, Cell(p) = Cell(<<a, b>>) PROVE <<a, b>> \in DiagonalPairs
    <2>1. PICK c \in Visited, d \in Visited : p = <<c, d>>
      BY DEF DiagonalPairs
    <2>2. d_file(c, d) = d_file(a, b) /\ d_rank(c, d) = d_rank(a, b) /\ (c = d <=> a = b)
      BY <1>1, <1>3, <2>1, OneIncrement
    <2>3. OnDiagonal(c, d)
      BY <1>2, <2>1
    <2> QED
      BY <1>1, <1>2, <2>2, <2>3 DEF OnDiagonal
  <1>4. DiagonalPairs \in SUBSET (Visited \X Visited)
    BY DEF DiagonalPairs
  <1>5. Table(DiagonalPairs)[diff_0x88(a, b)]
          = IF <<a, b>> \in DiagonalPairs THEN Increment(<<a, b>>) ELSE 0
    BY <1>3, <1>4, TableHolds
  <1> QED
    BY <1>1, <1>2, <1>5 DEF bishop_increment, BishopTable

\* A piece walks from square to square along a line of the board.
LEMMA ReachesOnLine ==
  ASSUME NEW a \in Board, NEW b \in Board, NEW s \in Steps
  PROVE  Reaches(b, s, a) <=> \E n \in 1..7 : a = b + n * s
  <1>1. ASSUME NEW n \in 1..7, a = b + n * s, NEW k \in 1..n PROVE OnBoard(b + k * s)
    <2>1. n \in 1..8
      OBVIOUS
    <2>2. b + k * s \in Board
      BY <1>1, <2>1, RaySquares
    <2> QED
      BY <2>2 DEF OnBoard, Board, off_the_board
  <1> QED
    BY <1>1 DEF Reaches, Walk

\* An entry is exact if it holds the step of the line two squares are on.
LEMMA EntryExact ==
  ASSUME NEW a \in Board, NEW b \in Board, NEW steps \in SUBSET Steps, NEW entry,
         \A s \in steps, n \in 1..7 : a = b + n * s => entry = Byte(s),
         entry # 0 => \E s \in steps, n \in 1..7 : a = b + n * s
  PROVE  IF TowardsBy(steps, b, a) = {} THEN entry = 0 ELSE {entry} = TowardsBy(steps, b, a)
  <1>1. \A s \in steps : Reaches(b, s, a) <=> \E n \in 1..7 : a = b + n * s
    BY ReachesOnLine
  <1>2. \A s \in steps : Reaches(b, s, a) => entry = Byte(s)
    BY <1>1
  <1>3. TowardsBy(steps, b, a) \subseteq {entry}
    BY <1>2 DEF TowardsBy
  <1>4. TowardsBy(steps, b, a) = {} => entry = 0
    BY <1>1 DEF TowardsBy
  <1> QED
    BY <1>3, <1>4

LEMMA RookExact ==
  ASSUME NEW a \in Board, NEW b \in Board
  PROVE  IF TowardsBy(LineSteps, b, a) = {}
           THEN rook_increment(a, b) = 0
           ELSE {rook_increment(a, b)} = TowardsBy(LineSteps, b, a)
  <1>1. LineSteps \in SUBSET Steps
    BY DEF Steps
  <1>2. ASSUME NEW s \in LineSteps, NEW n \in 1..7, a = b + n * s
        PROVE  rook_increment(a, b) = Byte(s)
    BY <1>1, <1>2, WhichLine, LineIncrement, RookIncrement
  <1>3. ASSUME rook_increment(a, b) # 0
        PROVE  \E s \in LineSteps, n \in 1..7 : a = b + n * s
    <2>1. OnLine(a, b)
      BY <1>3, RookIncrement
    <2>2. PICK s \in Steps, n \in 1..7 : a = b + n * s
      BY <2>1, OnSomeLine
    <2> QED
      BY <2>1, <2>2, WhichLine
  <1> DEFINE entry == rook_increment(a, b)
  <1>4. /\ \A s \in LineSteps, n \in 1..7 : a = b + n * s => entry = Byte(s)
        /\ entry # 0 => \E s \in LineSteps, n \in 1..7 : a = b + n * s
    BY <1>2, <1>3
  <1> HIDE DEF entry
  <1>5. IF TowardsBy(LineSteps, b, a) = {} THEN entry = 0
                                           ELSE {entry} = TowardsBy(LineSteps, b, a)
    BY <1>1, <1>4, EntryExact
  <1> QED
    BY <1>5 DEF entry

LEMMA BishopExact ==
  ASSUME NEW a \in Board, NEW b \in Board
  PROVE  IF TowardsBy(DiagonalSteps, b, a) = {}
           THEN bishop_increment(a, b) = 0
           ELSE {bishop_increment(a, b)} = TowardsBy(DiagonalSteps, b, a)
  <1>1. DiagonalSteps \in SUBSET Steps
    BY DEF Steps
  <1>2. ASSUME NEW s \in DiagonalSteps, NEW n \in 1..7, a = b + n * s
        PROVE  bishop_increment(a, b) = Byte(s)
    BY <1>1, <1>2, WhichLine, LineIncrement, BishopIncrement
  <1>3. ASSUME bishop_increment(a, b) # 0
        PROVE  \E s \in DiagonalSteps, n \in 1..7 : a = b + n * s
    <2>1. OnDiagonal(a, b)
      BY <1>3, BishopIncrement
    <2>2. PICK s \in Steps, n \in 1..7 : a = b + n * s
      BY <2>1, OnSomeLine
    <2> QED
      BY <2>1, <2>2, WhichLine
  <1> DEFINE entry == bishop_increment(a, b)
  <1>4. /\ \A s \in DiagonalSteps, n \in 1..7 : a = b + n * s => entry = Byte(s)
        /\ entry # 0 => \E s \in DiagonalSteps, n \in 1..7 : a = b + n * s
    BY <1>2, <1>3
  <1> HIDE DEF entry
  <1>5. IF TowardsBy(DiagonalSteps, b, a) = {} THEN entry = 0
                                               ELSE {entry} = TowardsBy(DiagonalSteps, b, a)
    BY <1>1, <1>4, EntryExact
  <1> QED
    BY <1>5 DEF entry

LEMMA QueenExact ==
  ASSUME NEW a \in Board, NEW b \in Board
  PROVE  IF TowardsBy(Steps, b, a) = {}
           THEN queen_increment(a, b) = 0
           ELSE {queen_increment(a, b)} = TowardsBy(Steps, b, a)
  <1> DEFINE entry == queen_increment(a, b)
  <1>1. /\ \A s \in Steps, n \in 1..7 : a = b + n * s => entry = Byte(s)
        /\ entry # 0 => \E s \in Steps, n \in 1..7 : a = b + n * s
    BY QueenIncrement
  <1> HIDE DEF entry
  <1>2. IF TowardsBy(Steps, b, a) = {} THEN entry = 0 ELSE {entry} = TowardsBy(Steps, b, a)
    BY <1>1, EntryExact
  <1> QED
    BY <1>2 DEF entry

LEMMA KingExact ==
  ASSUME NEW a \in Board, NEW b \in Board
  PROVE  king_increment(a, b) # 0 <=> \E step \in Steps : a = b + step
  <1>1. ASSUME NEW s \in Steps, a = b + s PROVE d_square(a, b) = 1
    <2>1. s \in Int /\ b \in Int
      BY StepCases DEF Board
    <2>2. a = b + 1 * s /\ 1 \in 1..7
      BY <1>1, <2>1
    <2> QED
      BY <2>2, OnSomeLine
  <1>2. ASSUME d_square(a, b) = 1 PROVE \E step \in Steps : a = b + step
    <2>1. PICK r1 \in 0..7, f1 \in 0..7, r2 \in 0..7, f2 \in 0..7 :
             /\ a = 16 * r1 + f1 /\ rank07(a) = r1 /\ file07(a) = f1
             /\ b = 16 * r2 + f2 /\ rank07(b) = r2 /\ file07(b) = f2
      BY SquareParts
    <2>2. r1 - r2 \in -1..1 /\ f1 - f2 \in -1..1 /\ (r1 # r2 \/ f1 # f2)
      BY <1>2, <2>1 DEF d_square, d_file, d_rank, Abs
    <2>3. a = b + (a - b) /\ a - b = 16 * (r1 - r2) + (f1 - f2)
      BY <2>1
    <2>4. a - b \in Steps
      BY <2>2, <2>3 DEF Steps, LineSteps, DiagonalSteps
    <2> QED
      BY <2>3, <2>4
  <1> QED
    BY <1>1, <1>2, KingIncrement

\* What vector_attack.c prints is, for every pair of squares, the increment by
\* which a rook, a bishop, a queen, a king or a knight goes from one to the other,
\* although one cell serves every pair with the same difference and the loops run
\* past the last square.
THEOREM TablesAreExact == asked \subseteq Board => IncrementsExact
  <1> SUFFICES ASSUME NEW from \in Board PROVE TablesExact(from)
    BY DEF IncrementsExact
  <1>1. Steps = LineSteps \union DiagonalSteps
    BY DEF Steps
  <1> QED
    BY <1>1, RookExact, BishopExact, QueenExact, KingExact, KnightIncrement DEF TablesExact

-----------------------------------------------------------------------------
(* Moves in 16 bits.                                                         *)

LEMMA SmallSquare ==
  ASSUME NEW r \in 0..7, NEW f \in 0..7
  PROVE  sq0x88_to_sq8x8(16 * r + f) = 8 * r + f
  <1>1. (16 * r + f) % 8 = f
    OBVIOUS
  <1>2. (16 * r + f + f) \div 2 = 8 * r + f
    OBVIOUS
  <1> QED
    BY <1>1, <1>2 DEF sq0x88_to_sq8x8, Byte

\* What is read back of a square with t in the two bits above it: the square, or
\* none when the lower of the two is set.
LEMMA ReadBack ==
  ASSUME NEW r \in 0..7, NEW f \in 0..7, NEW t \in 0..3
  PROVE  /\ t % 2 = 0 => sq8x8_to_sq0x88(8 * r + f + 64 * t) = 16 * r + f
         /\ t % 2 # 0 => off_the_board(sq8x8_to_sq0x88(8 * r + f + 64 * t))
  <1> DEFINE sq == 8 * r + f + 64 * t
  <1>1. sq % 8 = f
    OBVIOUS
  <1>2. sq8x8_to_sq0x88(sq) = Byte(16 * r + f + 128 * t)
    BY <1>1 DEF sq8x8_to_sq0x88
  <1>3. t = 0 \/ t = 1 \/ t = 2 \/ t = 3
    OBVIOUS
  <1>4. Byte(16 * r + f + 128 * t) = 16 * r + f + 128 * (t % 2)
    BY <1>3 DEF Byte
  <1>5. 16 * r + f + 128 >= 128
    OBVIOUS
  <1> QED
    BY <1>2, <1>3, <1>4, <1>5 DEF off_the_board

\* The move that is read back from the table of positions is the one that was
\* stored, or one of no position: never another move that could be tried.
THEOREM HashMovesAreExact == asked \subseteq Board => HashMovesExact
  <1> SUFFICES ASSUME NEW from \in Board,
                      NEW m \in [from : {from}, to : Board \ {from}, flags : 0..15]
               PROVE  LET hash == uncompress_move(compress_move(m)) IN
                      IF file07(m.to) % 2 = 0 /\ m.flags % 2 = 0
                        THEN hash = m
                        ELSE off_the_board(hash.from) \/ off_the_board(hash.to)
    BY DEF HashMovesExact, HashMoveExact
  <1>1. /\ m.from \in Board /\ m.to \in Board
        /\ m = [from |-> m.from, to |-> m.to, flags |-> m.flags]
    OBVIOUS
  <1>2. PICK r1 \in 0..7, f1 \in 0..7 : m.from = 16 * r1 + f1
    BY <1>1, SquareParts
  <1>3. PICK r2 \in 0..7, f2 \in 0..7 : m.to = 16 * r2 + f2 /\ file07(m.to) = f2
    BY <1>1, SquareParts
  <1>4. PICK g \in 0..15 : m.flags = g
    OBVIOUS
  <1>5. PICK u \in 0..1, t \in 0..3 : f2 = 4 * u + t
    <2>1. f2 = 4 * (f2 \div 4) + (f2 % 4) /\ f2 \div 4 \in 0..1 /\ f2 % 4 \in 0..3
      OBVIOUS
    <2> QED
      BY <2>1
  <1>6. PICK v \in 0..3, w \in 0..3 : g = 4 * v + w
    <2>1. g = 4 * (g \div 4) + (g % 4) /\ g \div 4 \in 0..3 /\ g % 4 \in 0..3
      OBVIOUS
    <2> QED
      BY <2>1
  <1> DEFINE c == (8 * r1 + f1) + 64 * (8 * r2 + f2) + 4096 * g
  <1>7. compress_move(m) = c
    <2>1. sq0x88_to_sq8x8(m.from) = 8 * r1 + f1
      BY <1>2, SmallSquare
    <2>2. sq0x88_to_sq8x8(m.to) = 8 * r2 + f2
      BY <1>3, SmallSquare
    <2> QED
      BY <1>4, <2>1, <2>2 DEF compress_move
  <1>8. Byte(c) = 8 * r1 + f1 + 64 * t
    <2>1. c = (8 * r1 + f1 + 64 * t) + 256 * (u + 2 * r2 + 16 * g)
      BY <1>5
    <2>2. 8 * r1 + f1 + 64 * t \in 0..255
      OBVIOUS
    <2> QED
      BY <2>1, <2>2 DEF Byte
  <1>9. Byte(c \div 64) = 8 * r2 + f2 + 64 * w
    <2>1. c \div 64 = 8 * r2 + f2 + 64 * g
      OBVIOUS
    <2>2. 8 * r2 + f2 + 64 * g = (8 * r2 + f2 + 64 * w) + 256 * v
      BY <1>6
    <2>3. 8 * r2 + f2 + 64 * w \in 0..255
      OBVIOUS
    <2> QED
      BY <2>1, <2>2, <2>3 DEF Byte
  <1>10. c \div 4096 = g
    OBVIOUS
  <1>11. f2 % 2 = t % 2 /\ g % 2 = w % 2
    BY <1>5, <1>6
  <1> DEFINE hash == uncompress_move(compress_move(m))
  <1>12. /\ hash.from = sq8x8_to_sq0x88(8 * r1 + f1 + 64 * t)
         /\ hash.to = sq8x8_to_sq0x88(8 * r2 + f2 + 64 * w)
         /\ hash = [from |-> hash.from, to |-> hash.to, flags |-> g]
    BY <1>7, <1>8, <1>9, <1>10 DEF uncompress_move
  <1> HIDE DEF hash, c
  <1>13. CASE t % 2 = 0 /\ w % 2 = 0
    <2>1. hash.from = m.from /\ hash.to = m.to
      BY <1>2, <1>3, <1>12, <1>13, ReadBack
    <2> QED
      BY <1>1, <1>3, <1>4, <1>11, <1>12, <1>13, <2>1 DEF hash
  <1>14. CASE ~(t % 2 = 0 /\ w % 2 = 0)
    <2>1. off_the_board(hash.from) \/ off_the_board(hash.to)
      BY <1>12, <1>14, ReadBack
    <2> QED
      BY <1>3, <1>4, <1>11, <1>14, <2>1 DEF hash
  <1> QED
    BY <1>13, <1>14

-----------------------------------------------------------------------------
(* Rays.                                                                     *)

LEMMA BoardNumbers ==
  ASSUME NEW sq \in Board
  PROVE  sq \in 0..127 /\ sq \in Int
  BY DEF Board, off_the_board

\* What stands on a square, on the board and beyond it.
LEMMA PieceFacts ==
  ASSUME NEW p, IsPosition(p)
  PROVE  /\ \A sq \in DOMAIN p.board :
              /\ sq \in Board /\ PieceAt(p, sq) = p.board[sq] /\ PieceAt(p, sq) # NoPiece
              /\ p.board[sq].side \in {"friend", "enemy"}
              /\ p.board[sq].kind \in {"pawn", "knight", "bishop", "rook", "queen", "king"}
              /\ p.board[sq] = [side |-> p.board[sq].side, kind |-> p.board[sq].kind]
         /\ \A sq : off_the_board(sq) =>
              /\ sq \notin Board /\ sq \notin DOMAIN p.board
              /\ PieceAt(p, sq) = Border /\ PieceAt(p, sq) # NoPiece
         /\ \A sq \in Board : sq \notin DOMAIN p.board => PieceAt(p, sq) = NoPiece
  <1>1. ASSUME NEW sq \in DOMAIN p.board
        PROVE  /\ sq \in Board /\ PieceAt(p, sq) = p.board[sq] /\ PieceAt(p, sq) # NoPiece
               /\ p.board[sq].side \in {"friend", "enemy"}
               /\ p.board[sq].kind \in {"pawn", "knight", "bishop", "rook", "queen", "king"}
               /\ p.board[sq] = [side |-> p.board[sq].side, kind |-> p.board[sq].kind]
    <2>1. p.board[sq] \in [side : {"friend", "enemy"},
                           kind : {"pawn", "knight", "bishop", "rook", "queen", "king"}]
      BY DEF IsPosition
    <2>2. p.board[sq].side # NoPiece.side
      BY <2>1 DEF NoPiece
    <2>3. PieceAt(p, sq) = p.board[sq] /\ sq \in Board
      BY DEF PieceAt, IsPosition
    <2> QED
      BY <2>1, <2>2, <2>3
  <1>2. ASSUME NEW sq, off_the_board(sq)
        PROVE  /\ sq \notin Board /\ sq \notin DOMAIN p.board
               /\ PieceAt(p, sq) = Border /\ PieceAt(p, sq) # NoPiece
    <2>1. sq \notin Board
      BY <1>2 DEF Board
    <2>2. sq \notin DOMAIN p.board
      BY <2>1 DEF IsPosition
    <2>3. Border # NoPiece
      <3>1. Border.kind # NoPiece.kind
        BY DEF Border, NoPiece
      <3> QED
        BY <3>1
    <2> QED
      BY <1>2, <2>1, <2>2, <2>3 DEF PieceAt
  <1>3. ASSUME NEW sq \in Board, sq \notin DOMAIN p.board PROVE PieceAt(p, sq) = NoPiece
    BY <1>3 DEF PieceAt, Board
  <1> QED
    BY <1>1, <1>2, <1>3

\* A set of up to eight distances has a least one.
LEMMA LeastOfEight ==
  ASSUME NEW S \in SUBSET (1..8), 8 \in S
  PROVE  \E n \in S : \A k \in 1..(n - 1) : k \notin S
  <1> DEFINE Least8(n) == n \in S /\ \A k \in 1..(n - 1) : k \notin S
  <1>1. CASE 1 \in S
    BY <1>1
  <1>2. CASE 1 \notin S /\ 2 \in S
    BY <1>2
  <1>3. CASE 1 \notin S /\ 2 \notin S /\ 3 \in S
    BY <1>3
  <1>4. CASE 1 \notin S /\ 2 \notin S /\ 3 \notin S /\ 4 \in S
    BY <1>4
  <1>5. CASE 1 \notin S /\ 2 \notin S /\ 3 \notin S /\ 4 \notin S /\ 5 \in S
    BY <1>5
  <1>6. CASE 1 \notin S /\ 2 \notin S /\ 3 \notin S /\ 4 \notin S /\ 5 \notin S /\ 6 \in S
    BY <1>6
  <1>7. CASE 1 \notin S /\ 2 \notin S /\ 3 \notin S /\ 4 \notin S /\ 5 \notin S /\ 6 \notin S
             /\ 7 \in S
    BY <1>7
  <1>8. CASE 1 \notin S /\ 2 \notin S /\ 3 \notin S /\ 4 \notin S /\ 5 \notin S /\ 6 \notin S
             /\ 7 \notin S
    BY <1>8
  <1> QED
    BY <1>1, <1>2, <1>3, <1>4, <1>5, <1>6, <1>7, <1>8

\* A ray ends on the first piece, or beyond the board when there is none.
LEMMA RayEnds ==
  ASSUME NEW p, IsPosition(p), NEW start \in Board, NEW step \in Steps
  PROVE  LET hit == forwards_ray_cast(p, start, Byte(step)) IN
         \/ /\ off_the_board(hit)
            /\ \A n \in 1..7 : start + n * step \notin DOMAIN p.board
         \/ /\ hit \in DOMAIN p.board
            /\ \E n \in 1..7 : /\ hit = start + n * step
                               /\ \A k \in 1..(n - 1) : start + k * step \notin DOMAIN p.board
  <1> DEFINE At(n) == Byte(start + n * Byte(step))
             S == {n \in 1..8 : PieceAt(p, At(n)) # NoPiece}
             first == CHOOSE n \in 1..8 : /\ PieceAt(p, At(n)) # NoPiece
                                          /\ \A k \in 1..(n - 1) : PieceAt(p, At(k)) = NoPiece
  <1>1. forwards_ray_cast(p, start, Byte(step)) = At(first)
    BY DEF forwards_ray_cast
  <1>2. ASSUME NEW n \in 1..8
        PROVE  /\ start + n * step \in Board => At(n) = start + n * step
               /\ start + n * step \notin Board => off_the_board(At(n))
               /\ n = 8 => start + n * step \notin Board
               /\ start + n * step \in Board => \A k \in 1..n : start + k * step \in Board
    BY RaySquares
  <1>3. 8 \in S
    <2>1. off_the_board(At(8))
      BY <1>2
    <2> QED
      BY <2>1, PieceFacts
  <1>4. \E n \in S : \A k \in 1..(n - 1) : k \notin S
    <2> HIDE DEF S
    <2>1. S \in SUBSET (1..8)
      BY DEF S
    <2> QED
      BY <1>3, <2>1, LeastOfEight
  <1>5. \E n \in 1..8 : /\ PieceAt(p, At(n)) # NoPiece
                        /\ \A k \in 1..(n - 1) : PieceAt(p, At(k)) = NoPiece
    <2> HIDE DEF At
    <2>1. PICK n \in S : \A k \in 1..(n - 1) : k \notin S
      BY <1>4
    <2>2. \A k \in 1..(n - 1) : k \in 1..8
      OBVIOUS
    <2> QED
      BY <2>1, <2>2
  <1>6. /\ first \in 1..8
        /\ PieceAt(p, At(first)) # NoPiece
        /\ \A k \in 1..(first - 1) : PieceAt(p, At(k)) = NoPiece
    <2> HIDE DEF At
    <2> QED
      BY <1>5
  <1> HIDE DEF first
  <1>7. \A n \in 1..8 : start + n * step \in DOMAIN p.board =>
             At(n) = start + n * step /\ PieceAt(p, At(n)) # NoPiece
    <2> SUFFICES ASSUME NEW n \in 1..8, start + n * step \in DOMAIN p.board
                 PROVE  At(n) = start + n * step /\ PieceAt(p, At(n)) # NoPiece
      OBVIOUS
    <2>1. start + n * step \in Board /\ PieceAt(p, start + n * step) # NoPiece
      BY PieceFacts
    <2>2. At(n) = start + n * step
      BY <1>2, <2>1
    <2> QED
      BY <2>1, <2>2
  <1>8. \A k \in 1..(first - 1) : k \in 1..8 /\ start + k * step \notin DOMAIN p.board
    <2> HIDE DEF At
    <2> QED
      BY <1>6, <1>7
  <1>9. CASE start + first * step \in Board
    <2>1. At(first) = start + first * step /\ first \in 1..7
      BY <1>2, <1>6, <1>9
    <2>2. At(first) \in DOMAIN p.board
      BY <1>6, <1>9, <2>1, PieceFacts
    <2> HIDE DEF At
    <2> QED
      BY <1>1, <1>8, <2>1, <2>2
  <1>10. CASE start + first * step \notin Board
    <2>1. off_the_board(At(first))
      BY <1>2, <1>6, <1>10
    <2>2. \A n \in 1..7 : start + n * step \notin DOMAIN p.board
      <3>1. SUFFICES ASSUME NEW n \in 1..7, start + n * step \in DOMAIN p.board PROVE FALSE
        OBVIOUS
      <3>2. start + n * step \in Board
        BY <3>1, PieceFacts
      <3>3. ~(first <= n)
        <4>1. \A k \in 1..n : start + k * step \in Board
          BY <1>2, <3>2
        <4> QED
          BY <4>1, <1>6, <1>10
      <3>4. n \in 1..(first - 1)
        BY <3>3, <1>6
      <3> QED
        BY <1>8, <3>1, <3>4
    <2> HIDE DEF At
    <2> QED
      BY <1>1, <2>1, <2>2
  <1> QED
    BY <1>9, <1>10

-----------------------------------------------------------------------------
(* Who sees the target, from the target's side.                              *)

\* The way from the target to the square is clear but for what has gone.
Sees(p, gone, sq, to, step) ==
  \E n \in 1..7 :
    /\ sq = to + n * step
    /\ \A k \in 1..(n - 1) : to + k * step \notin DOMAIN p.board \ gone

LEMMA StepsOfKinds ==
  ASSUME NEW kind
  PROVE  /\ StepsOf(kind) \subseteq Steps
         /\ \A step \in StepsOf(kind) : -step \in StepsOf(kind)
  BY DEF StepsOf, Steps, LineSteps, DiagonalSteps

\* A slider attacks a target that sees it along one of its steps.
LEMMA SliderSees ==
  ASSUME NEW p, IsPosition(p), NEW gone, NEW sq \in DOMAIN p.board, NEW to \in Board,
         p.board[sq].kind \in {"bishop", "rook", "queen"}
  PROVE  Hits(p, gone, sq, to)
           <=> \E step \in StepsOf(p.board[sq].kind) : Sees(p, gone, sq, to, step)
  <1> DEFINE kind == p.board[sq].kind
             Free(n) == n \notin DOMAIN p.board \ gone
  <1>1. Hits(p, gone, sq, to)
          <=> \E step \in StepsOf(kind), n \in 1..7 :
                /\ Walk(sq, step, n) = to
                /\ \A k \in 1..(n - 1) : /\ OnBoard(Walk(sq, step, k))
                                         /\ Walk(sq, step, k) \notin DOMAIN p.board \ gone
    BY DEF Hits
  <1>2. sq \in Board /\ sq \in Int /\ to \in Int
    <2>1. sq \in Board
      BY PieceFacts
    <2> QED
      BY <2>1, BoardNumbers
  <1>3. ASSUME NEW step \in StepsOf(kind), NEW n \in 1..7, Walk(sq, step, n) = to,
               \A k \in 1..(n - 1) : Walk(sq, step, k) \notin DOMAIN p.board \ gone
        PROVE  Sees(p, gone, sq, to, -step)
    <2>1. step \in Int
      BY StepsOfKinds, StepParts
    <2>2. to = sq + n * step
      BY <1>3 DEF Walk
    <2>3. sq = to + n * (-step)
      BY <1>2, <2>1, <2>2
    <2>4. ASSUME NEW k \in 1..(n - 1)
          PROVE  to + k * (-step) \notin DOMAIN p.board \ gone
      <3>1. n - k \in 1..(n - 1)
        OBVIOUS
      <3>2. to + k * (-step) = sq + (n - k) * step
        BY <1>2, <2>1, <2>2
      <3> QED
        BY <1>3, <3>1, <3>2 DEF Walk
    <2> QED
      BY <2>3, <2>4 DEF Sees
  <1>4. ASSUME NEW step \in StepsOf(kind), Sees(p, gone, sq, to, step)
        PROVE  \E n \in 1..7 :
                 /\ Walk(sq, -step, n) = to
                 /\ \A k \in 1..(n - 1) : /\ OnBoard(Walk(sq, -step, k))
                                          /\ Walk(sq, -step, k) \notin DOMAIN p.board \ gone
    <2>1. PICK n \in 1..7 :
             /\ sq = to + n * step
             /\ \A k \in 1..(n - 1) : to + k * step \notin DOMAIN p.board \ gone
      BY <1>4 DEF Sees
    <2>2. step \in Int /\ step \in Steps
      BY StepsOfKinds, StepParts
    <2>3. Walk(sq, -step, n) = to
      BY <1>2, <2>1, <2>2 DEF Walk
    <2>4. ASSUME NEW k \in 1..(n - 1)
          PROVE  OnBoard(Walk(sq, -step, k)) /\ Walk(sq, -step, k) \notin DOMAIN p.board \ gone
      <3>1. n - k \in 1..(n - 1) /\ n - k \in 1..n
        OBVIOUS
      <3>2. Walk(sq, -step, k) = to + (n - k) * step
        BY <1>2, <2>1, <2>2 DEF Walk
      <3>3. to + (n - k) * step \in Board
        <4>1. to + n * step \in Board /\ n \in 1..8
          BY <1>2, <2>1
        <4> QED
          BY <2>2, <3>1, <4>1, RaySquares
      <3>4. OnBoard(Walk(sq, -step, k))
        BY <3>2, <3>3 DEF OnBoard, Board, off_the_board
      <3> QED
        BY <2>1, <3>1, <3>2, <3>4
    <2> QED
      BY <2>3, <2>4
  <1>5. Hits(p, gone, sq, to) => \E step \in StepsOf(kind) : Sees(p, gone, sq, to, step)
    <2> SUFFICES ASSUME Hits(p, gone, sq, to)
                 PROVE  \E step \in StepsOf(kind) : Sees(p, gone, sq, to, step)
      OBVIOUS
    <2>1. PICK step \in StepsOf(kind), n \in 1..7 :
             /\ Walk(sq, step, n) = to
             /\ \A k \in 1..(n - 1) : /\ OnBoard(Walk(sq, step, k))
                                      /\ Walk(sq, step, k) \notin DOMAIN p.board \ gone
      BY <1>1
    <2>2. Sees(p, gone, sq, to, -step)
      BY <1>3, <2>1
    <2> QED
      BY <2>2, StepsOfKinds
  <1>6. ASSUME NEW step \in StepsOf(kind), Sees(p, gone, sq, to, step)
        PROVE  Hits(p, gone, sq, to)
    <2>1. -step \in StepsOf(kind)
      BY StepsOfKinds
    <2> QED
      BY <1>1, <1>4, <1>6, <2>1
  <1> QED
    BY <1>5, <1>6

\* The way of the capture itself is clear.
LEMMA WayIsClear ==
  ASSUME NEW p, IsPosition(p), NEW from, NEW to, IsCapture(p, from, to),
         NEW step \in Steps, NEW m \in 1..7, from = to + m * step
  PROVE  \A k \in 1..(m - 1) : to + k * step \notin DOMAIN p.board
  <1>1. /\ from \in DOMAIN p.board /\ from \in Board /\ to \in Board
        /\ from \in Int /\ to \in Int
        /\ p.board[from].side = "friend" /\ Hits(p, {}, from, to)
    <2>1. /\ from \in DOMAIN p.board /\ to \in Board
          /\ p.board[from].side = "friend" /\ Hits(p, {}, from, to)
      BY DEF IsCapture
    <2>2. from \in Board
      BY <2>1, PieceFacts
    <2> QED
      BY <2>1, <2>2, BoardNumbers
  <1>2. p.board[from].kind \in {"pawn", "knight", "bishop", "rook", "queen", "king"}
    BY <1>1, PieceFacts
  <1>3. (OnLine(from, to) \/ OnDiagonal(from, to)) /\ d_square(from, to) = m
    BY <1>1, OnSomeLine
  <1>4. CASE p.board[from].kind = "knight"
    <2>1. {d_file(from, to), d_rank(from, to)} = {1, 2}
      BY <1>1, <1>4 DEF Hits
    <2>2. \/ d_file(from, to) = 1 /\ d_rank(from, to) = 2
          \/ d_file(from, to) = 2 /\ d_rank(from, to) = 1
      <3> DEFINE x == d_file(from, to)  y == d_rank(from, to)
      <3>1. x \in {1, 2} /\ y \in {1, 2} /\ 1 \in {x, y} /\ 2 \in {x, y}
        BY <2>1
      <3> HIDE DEF x, y
      <3>2. (x = 1 /\ y = 2) \/ (x = 2 /\ y = 1)
        BY <3>1
      <3> QED
        BY <3>2 DEF x, y
    <2> QED
      BY <1>3, <2>2 DEF OnLine, OnDiagonal
  <1>5. CASE p.board[from].kind = "king"
    <2>1. d_square(from, to) = 1
      BY <1>1, <1>5 DEF Hits
    <2> QED
      BY <1>3, <2>1
  <1>6. CASE p.board[from].kind = "pawn"
    <2>1. to \in {Byte(from + p.up + 1), Byte(from + p.up - 1)} /\ p.up \in {16, 240}
      BY <1>1, <1>6 DEF Hits, IsPosition
    <2>2. from \in 0..127 /\ to \in 0..127
      BY <1>1, BoardNumbers
    <2>a. ASSUME p.up = 16 PROVE from = to + (-17) \/ from = to + (-15)
      <3>1. Byte(from + 16 + 1) = from + 17 /\ Byte(from + 16 - 1) = from + 15
        BY <2>2 DEF Byte
      <3> QED
        BY <2>1, <2>2, <2>a, <3>1
    <2>b. ASSUME p.up = 240 PROVE from = to + 17 \/ from = to + 15
      <3>1. \/ Byte(from + 240 + 1) = from - 15 \/ Byte(from + 240 + 1) = from + 241
        BY <2>2 DEF Byte
      <3>2. \/ Byte(from + 240 - 1) = from - 17 \/ Byte(from + 240 - 1) = from + 239
        BY <2>2 DEF Byte
      <3> QED
        BY <2>1, <2>2, <2>b, <3>1, <3>2
    <2>3. \/ from = to + 1 * (-17) \/ from = to + 1 * (-15)
          \/ from = to + 1 * 17 \/ from = to + 1 * 15
      BY <2>1, <2>2, <2>a, <2>b
    <2>4. \E s \in Steps : from = to + 1 * s
      BY <2>3 DEF Steps, DiagonalSteps
    <2>5. m = 1
      BY <1>1, <2>4, OneLine
    <2> QED
      BY <2>5
  <1>7. CASE p.board[from].kind \in {"bishop", "rook", "queen"}
    <2>1. PICK s \in StepsOf(p.board[from].kind) : Sees(p, {}, from, to, s)
      BY <1>1, <1>7, SliderSees
    <2>2. PICK n \in 1..7 :
             /\ from = to + n * s
             /\ \A k \in 1..(n - 1) : to + k * s \notin DOMAIN p.board
      BY <2>1 DEF Sees
    <2>3. s = step /\ n = m
      BY <1>1, <2>2, StepsOfKinds, OneLine
    <2> QED
      BY <2>2, <2>3
  <1> QED
    BY <1>2, <1>4, <1>5, <1>6, <1>7

LEMMA ByteInjective ==
  ASSUME NEW s \in Steps, NEW t \in Steps, Byte(s) = Byte(t)
  PROVE  s = t
  <1>1. s \in -17..17 /\ t \in -17..17
    BY StepCases
  <1> QED
    BY <1>1 DEF Byte

\* The rays of the code see what the reference sees.
LEMMA RayAtSees ==
  ASSUME NEW p, IsPosition(p), NEW from, NEW to, IsCapture(p, from, to), NEW step \in Steps
  PROVE  LET hit == RayAt(p, from, to, Byte(step)) IN
         /\ off_the_board(hit) \/ hit \in DOMAIN p.board \ {from}
         /\ \A sq \in DOMAIN p.board \ {from} : hit = sq <=> Sees(p, {from}, sq, to, step)
  <1> DEFINE D == DOMAIN p.board
             hit == RayAt(p, from, to, Byte(step))
  <1> SUFFICES /\ off_the_board(hit) \/ hit \in D \ {from}
               /\ \A sq \in D \ {from} : hit = sq <=> Sees(p, {from}, sq, to, step)
    OBVIOUS
  <1>1. from \in D /\ from \in Board /\ to \in Board /\ from \in Int /\ to \in Int /\ step \in Int
    <2>1. from \in D /\ to \in Board
      BY DEF IsCapture
    <2>2. from \in Board
      BY <2>1, PieceFacts
    <2> QED
      BY <2>1, <2>2, BoardNumbers, StepParts
  <1>2. D \subseteq Board
    BY DEF IsPosition
  <1>3. CASE \E m \in 1..7 : from = to + m * step
    <2>1. PICK m \in 1..7 : from = to + m * step
      BY <1>3
    <2>2. \A k \in 1..(m - 1) : to + k * step \notin D
      BY <2>1, WayIsClear
    <2>3. hit = forwards_ray_cast(p, from, Byte(step))
      BY <1>1, <2>1, QueenIncrement DEF RayAt
    <2>4. ASSUME NEW n \in 1..7, from + n * step \in D, \A k \in 1..(n - 1) : from + k * step \notin D
          PROVE  Sees(p, {from}, from + n * step, to, step)
      <3>1. m + n <= 7
        <4>1. SUFFICES ASSUME m + n >= 8 PROVE FALSE
          OBVIOUS
        <4>2. 8 - m \in 1..n
          BY <4>1
        <4>3. from + (8 - m) * step \in Board
          <5>1. from + n * step \in Board /\ n \in 1..8
            BY <1>2, <2>4
          <5>2. \A k \in 1..n : from + k * step \in Board
            BY <1>1, <5>1, RaySquares
          <5> QED
            BY <4>2, <5>2
        <4>4. from + (8 - m) * step = to + 8 * step
          BY <1>1, <2>1
        <4>5. to + 8 * step \notin Board
          BY <1>1, RaySquares
        <4> QED
          BY <4>3, <4>4, <4>5
      <3>2. m + n \in 1..7 /\ from + n * step = to + (m + n) * step
        BY <1>1, <2>1, <3>1
      <3>3. ASSUME NEW k \in 1..(m + n - 1) PROVE to + k * step \notin D \ {from}
        <4>1. CASE k \in 1..(m - 1)
          BY <2>2, <4>1
        <4>2. CASE k = m
          BY <2>1, <4>2
        <4>3. CASE k > m
          <5>1. k - m \in 1..(n - 1) /\ to + k * step = from + (k - m) * step
            BY <1>1, <2>1, <4>3
          <5> QED
            BY <2>4, <5>1
        <4> QED
          BY <4>1, <4>2, <4>3
      <3> QED
        BY <3>2, <3>3 DEF Sees
    <2>5. ASSUME NEW sq \in D \ {from}, Sees(p, {from}, sq, to, step)
          PROVE  \E n \in 1..7 : /\ sq = from + n * step
                                 /\ \A k \in 1..(n - 1) : from + k * step \notin D
      <3>1. PICK n \in 1..7 :
               /\ sq = to + n * step
               /\ \A k \in 1..(n - 1) : to + k * step \notin D \ {from}
        BY <2>5 DEF Sees
      <3>2. n > m
        <4>1. n # m
          BY <2>1, <2>5, <3>1
        <4>2. n \notin 1..(m - 1)
          BY <2>2, <2>5, <3>1
        <4> QED
          BY <4>1, <4>2
      <3>3. n - m \in 1..7 /\ sq = from + (n - m) * step
        BY <1>1, <2>1, <3>1, <3>2
      <3>4. ASSUME NEW k \in 1..(n - m - 1) PROVE from + k * step \notin D
        <4>1. m + k \in 1..(n - 1) /\ from + k * step = to + (m + k) * step
          BY <1>1, <2>1
        <4>2. from + k * step # from
          <5>1. k * step # 0
            BY <1>1, StepCases
          <5>2. k * step \in Int
            BY <1>1
          <5> QED
            BY <1>1, <5>1, <5>2
        <4> QED
          BY <3>1, <4>1, <4>2
      <3> QED
        BY <3>3, <3>4
    <2>6. \/ off_the_board(hit) /\ \A n \in 1..7 : from + n * step \notin D
          \/ hit \in D /\ \E n \in 1..7 : /\ hit = from + n * step
                                          /\ \A k \in 1..(n - 1) : from + k * step \notin D
      BY <1>1, <2>3, RayEnds
    <2> HIDE DEF hit
    <2>7. ASSUME hit \in D PROVE hit # from /\ Sees(p, {from}, hit, to, step)
      <3>1. PICK n \in 1..7 : /\ hit = from + n * step
                              /\ \A k \in 1..(n - 1) : from + k * step \notin D
        BY <2>6, <2>7, PieceFacts
      <3>2. n * step # 0 /\ n * step \in Int
        BY <1>1, StepCases
      <3>3. hit # from
        BY <1>1, <3>1, <3>2
      <3> QED
        BY <2>4, <2>7, <3>1, <3>3
    <2>8. ASSUME NEW sq \in D \ {from}, Sees(p, {from}, sq, to, step)
          PROVE  hit = sq
      <3>1. PICK n \in 1..7 : /\ sq = from + n * step
                              /\ \A k \in 1..(n - 1) : from + k * step \notin D
        BY <2>5, <2>8
      <3>2. hit \in D
        BY <2>6, <2>8, <3>1
      <3>3. PICK m2 \in 1..7 : /\ hit = from + m2 * step
                               /\ \A k \in 1..(m2 - 1) : from + k * step \notin D
        BY <2>6, <3>2, PieceFacts
      <3>4. ~(n < m2) /\ ~(m2 < n)
        BY <2>8, <3>1, <3>2, <3>3
      <3>5. n = m2
        BY <3>4
      <3> QED
        BY <3>1, <3>3, <3>5
    <2> QED
      BY <2>6, <2>7, <2>8
  <1>4. CASE ~\E m \in 1..7 : from = to + m * step
    <2>1. hit = forwards_ray_cast(p, to, Byte(step))
      <3>1. queen_increment(from, to) # Byte(step)
        <4>1. SUFFICES ASSUME queen_increment(from, to) = Byte(step) PROVE FALSE
          OBVIOUS
        <4>2. Byte(step) # 0
          BY StepCases DEF Byte
        <4>3. PICK s \in Steps, n \in 1..7 : from = to + n * s
          BY <1>1, <4>1, <4>2, QueenIncrement
        <4>4. Byte(s) = Byte(step)
          BY <1>1, <4>1, <4>3, QueenIncrement
        <4> QED
          BY <1>4, <4>3, <4>4, ByteInjective
      <3> QED
        BY <3>1 DEF RayAt
    <2>2. \/ off_the_board(hit) /\ \A n \in 1..7 : to + n * step \notin D
          \/ hit \in D /\ \E n \in 1..7 : /\ hit = to + n * step
                                          /\ \A k \in 1..(n - 1) : to + k * step \notin D
      BY <1>1, <2>1, RayEnds
    <2> HIDE DEF hit
    <2>3. ASSUME hit \in D PROVE hit # from /\ Sees(p, {from}, hit, to, step)
      <3>1. PICK n \in 1..7 : /\ hit = to + n * step
                              /\ \A k \in 1..(n - 1) : to + k * step \notin D
        BY <2>2, <2>3, PieceFacts
      <3> QED
        BY <1>4, <3>1 DEF Sees
    <2>4. ASSUME NEW sq \in D \ {from}, Sees(p, {from}, sq, to, step)
          PROVE  hit = sq
      <3>1. PICK n \in 1..7 :
               /\ sq = to + n * step
               /\ \A k \in 1..(n - 1) : to + k * step \notin D \ {from}
        BY <2>4 DEF Sees
      <3>2. \A k \in 1..(n - 1) : to + k * step \notin D
        <4>1. \A k \in 1..(n - 1) : k \in 1..7
          OBVIOUS
        <4> QED
          BY <1>4, <3>1, <4>1
      <3>3. hit \in D
        BY <2>2, <2>4, <3>1
      <3>4. PICK m2 \in 1..7 : /\ hit = to + m2 * step
                               /\ \A k \in 1..(m2 - 1) : to + k * step \notin D
        BY <2>2, <3>3, PieceFacts
      <3>5. ~(n < m2) /\ ~(m2 < n)
        BY <2>4, <3>1, <3>2, <3>3, <3>4
      <3>6. n = m2
        BY <3>5
      <3> QED
        BY <3>1, <3>4, <3>6
    <2> QED
      BY <2>2, <2>3, <2>4
  <1> QED
    BY <1>3, <1>4

-----------------------------------------------------------------------------
(* Lists of squares.                                                         *)

\* The list has each member of the set once and nothing else.
Lists(list, S) ==
  /\ list \in Seq(S)
  /\ \A x \in S : \E i \in 1..Len(list) : list[i] = x
  /\ \A i, j \in 1..Len(list) : list[i] = list[j] => i = j

\* Lists of different squares, one after the other.
LEMMA ListsConcat ==
  ASSUME NEW s, NEW t, NEW S, NEW T, Lists(s, S), Lists(t, T), S \intersect T = {}
  PROVE  Lists(s \o t, S \union T)
  <1> DEFINE U == S \union T
             st == s \o t
  <1>0. s \in Seq(S) /\ t \in Seq(T)
    BY DEF Lists
  <1>1. s \in Seq(U) /\ t \in Seq(U)
    <2>1. S \subseteq U /\ T \subseteq U
      OBVIOUS
    <2> HIDE DEF U
    <2> QED
      BY <1>0, <2>1
  <1> HIDE DEF U
  <1>2. /\ st \in Seq(U) /\ Len(st) = Len(s) + Len(t)
        /\ Len(s) \in Nat /\ Len(t) \in Nat
        /\ \A i \in 1..Len(st) :
             st[i] = IF i <= Len(s) THEN s[i] ELSE t[i - Len(s)]
    BY <1>1, ConcatProperties
  <1> HIDE DEF st
  <1>3. ASSUME NEW x \in U PROVE \E i \in 1..Len(st) : st[i] = x
    <2>1. CASE x \in S
      <3>1. PICK i \in 1..Len(s) : s[i] = x
        BY <2>1 DEF Lists
      <3>2. i \in 1..Len(st) /\ i <= Len(s)
        BY <1>2, <3>1
      <3> QED
        BY <1>2, <3>1, <3>2
    <2>2. CASE x \in T
      <3>1. PICK i \in 1..Len(t) : t[i] = x
        BY <2>2 DEF Lists
      <3>2. Len(s) + i \in 1..Len(st) /\ ~(Len(s) + i <= Len(s)) /\ (Len(s) + i) - Len(s) = i
        BY <1>2, <3>1
      <3>3. st[Len(s) + i] = t[i]
        BY <1>2, <3>2
      <3> QED
        BY <3>1, <3>2, <3>3
    <2> QED
      BY <2>1, <2>2 DEF U
  <1>4. ASSUME NEW i \in 1..Len(st), NEW j \in 1..Len(st), st[i] = st[j]
        PROVE  i = j
    <2>1. \A k \in 1..Len(s) : s[k] \in S
      BY <1>0
    <2>2. \A k \in 1..Len(t) : t[k] \in T
      BY <1>0
    <2>3. CASE i <= Len(s) /\ j <= Len(s)
      <3>1. i \in 1..Len(s) /\ j \in 1..Len(s) /\ st[i] = s[i] /\ st[j] = s[j]
        BY <1>2, <2>3
      <3> QED
        BY <1>4, <3>1 DEF Lists
    <2>4. CASE i > Len(s) /\ j > Len(s)
      <3>1. /\ i - Len(s) \in 1..Len(t) /\ j - Len(s) \in 1..Len(t)
            /\ st[i] = t[i - Len(s)] /\ st[j] = t[j - Len(s)]
        BY <1>2, <2>4
      <3>2. i - Len(s) = j - Len(s)
        BY <1>4, <3>1 DEF Lists
      <3> QED
        BY <1>2, <3>2
    <2>5. CASE i <= Len(s) /\ j > Len(s)
      <3>1. i \in 1..Len(s) /\ j - Len(s) \in 1..Len(t) /\ st[i] = s[i] /\ st[j] = t[j - Len(s)]
        BY <1>2, <2>5
      <3> QED
        BY <1>4, <2>1, <2>2, <3>1
    <2>6. CASE i > Len(s) /\ j <= Len(s)
      <3>1. j \in 1..Len(s) /\ i - Len(s) \in 1..Len(t) /\ st[j] = s[j] /\ st[i] = t[i - Len(s)]
        BY <1>2, <2>6
      <3> QED
        BY <1>4, <2>1, <2>2, <3>1
    <2> QED
      BY <1>2, <2>3, <2>4, <2>5, <2>6
  <1> QED
    BY <1>2, <1>3, <1>4 DEF Lists, U, st

LEMMA ListsNoneOrOne ==
  ASSUME NEW S, NEW x, NEW Test \in BOOLEAN,
         Test => S = {x}, ~Test => S = {}
  PROVE  Lists(IF Test THEN <<x>> ELSE <<>>, S)
  BY DEF Lists

LEMMA ListsSet ==
  ASSUME NEW S, IsFiniteSet(S)
  PROVE  Lists(SetToSeq(S), S)
  <1> DEFINE n == Cardinality(S)
             f == SetToSeq(S)
  <1>1. n \in Nat /\ ExistsBijection(1..n, S)
    BY FS_CardinalityType
  <1>2. PICK g \in [1..n -> S] : IsInjective(g)
    BY <1>1 DEF ExistsBijection, Bijection, Injection
  <1>3. f \in [1..n -> S] /\ IsInjective(f)
    BY <1>2 DEF SetToSeq
  <1>4. f \in Injection(1..n, S)
    BY <1>3 DEF Injection
  <1>5. Cardinality(1..n) = n
    BY <1>1, FS_Interval
  <1> HIDE DEF f, n
  <1>6. f \in Surjection(1..n, S)
    BY <1>4, <1>5, FS_Injection DEF n
  <1>7. \A x \in S : \E i \in 1..n : f[i] = x
    BY <1>6 DEF Surjection
  <1>8. f \in Seq(S) /\ Len(f) = n
    BY <1>1, <1>3
  <1> QED
    BY <1>3, <1>7, <1>8 DEF Lists, IsInjective, f

-----------------------------------------------------------------------------
(* generate_attackers, list by list.                                         *)

SeenAlong(p, side, kind, from, to, step) ==
  {sq \in DOMAIN p.board \ {from} :
     /\ p.board[sq].side = side /\ IsA(p.board[sq], kind)
     /\ Sees(p, {from}, sq, to, step)}

SlidersSeen(p, side, kind, from, to, steps) ==
  {sq \in DOMAIN p.board \ {from} :
     /\ p.board[sq].side = side /\ IsA(p.board[sq], kind)
     /\ \E step \in steps : Sees(p, {from}, sq, to, step)}

LEMMA SmallBytes ==
  /\ \A n \in Int : n >= 0 /\ n < 256 => Byte(n) = n
  /\ \A n \in Int : n < 0 /\ n >= -256 => Byte(n) = n + 256
  BY DEF Byte

LEMMA SquaresOfIs ==
  ASSUME NEW p, IsPosition(p), NEW side, NEW kind, NEW sq
  PROVE  sq \in SquaresOf(p, side, kind)
           <=> sq \in DOMAIN p.board /\ p.board[sq].side = side /\ p.board[sq].kind = kind
  <1>1. ASSUME sq \in SquaresOf(p, side, kind)
        PROVE  sq \in DOMAIN p.board /\ p.board[sq].side = side /\ p.board[sq].kind = kind
    BY <1>1 DEF SquaresOf
  <1>2. ASSUME sq \in DOMAIN p.board, p.board[sq].side = side, p.board[sq].kind = kind
        PROVE  sq \in SquaresOf(p, side, kind)
    BY <1>2, PieceFacts DEF SquaresOf
  <1> QED
    BY <1>1, <1>2

\* One ray lists what is seen along it.
LEMMA RayListed ==
  ASSUME NEW p, IsPosition(p), NEW from, NEW to, IsCapture(p, from, to), NEW step \in Steps,
         NEW side \in {"friend", "enemy"}, NEW kind \in {"bishop", "rook"}
  PROVE  LET sq == RayAt(p, from, to, Byte(step))
             piece == PieceAt(p, sq)
         IN  Lists(IF IsA(piece, kind) /\ piece.side = side THEN <<sq>> ELSE <<>>,
                   SeenAlong(p, side, kind, from, to, step))
  <1> DEFINE hit == RayAt(p, from, to, Byte(step))
             Test == IsA(PieceAt(p, hit), kind) /\ PieceAt(p, hit).side = side
             S == SeenAlong(p, side, kind, from, to, step)
  <1>1. /\ off_the_board(hit) \/ hit \in DOMAIN p.board \ {from}
        /\ \A sq \in DOMAIN p.board \ {from} : hit = sq <=> Sees(p, {from}, sq, to, step)
    BY RayAtSees
  <1> HIDE DEF hit
  <1>2. Test \in BOOLEAN
    BY DEF IsA
  <1>3. Test => S = {hit}
    <2> SUFFICES ASSUME Test PROVE S = {hit}
      OBVIOUS
    <2>1. hit \in DOMAIN p.board \ {from}
      <3>1. SUFFICES ASSUME off_the_board(hit) PROVE FALSE
        BY <1>1
      <3>2. PieceAt(p, hit) = Border
        BY <3>1, PieceFacts
      <3> QED
        BY <3>2 DEF Border
    <2>2. PieceAt(p, hit) = p.board[hit]
      BY <2>1, PieceFacts
    <2>3. hit \in S
      BY <1>1, <2>1, <2>2 DEF SeenAlong
    <2>4. \A sq \in S : sq = hit
      BY <1>1 DEF SeenAlong
    <2> QED
      BY <2>3, <2>4
  <1>4. ~Test => S = {}
    <2> SUFFICES ASSUME ~Test, NEW sq \in S PROVE FALSE
      OBVIOUS
    <2>1. /\ sq \in DOMAIN p.board \ {from} /\ p.board[sq].side = side
          /\ IsA(p.board[sq], kind) /\ Sees(p, {from}, sq, to, step)
      BY DEF SeenAlong
    <2>2. hit = sq
      BY <1>1, <2>1
    <2>3. PieceAt(p, hit) = p.board[sq]
      BY <2>1, <2>2, PieceFacts
    <2> QED
      BY <2>1, <2>3
  <1>5. Lists(IF Test THEN <<hit>> ELSE <<>>, S)
    <2> HIDE DEF Test, S
    <2> QED
      BY <1>2, <1>3, <1>4, ListsNoneOrOne
  <1> QED
    BY <1>5 DEF hit

\* A square is seen along one line only.
LEMMA SeenOnce ==
  ASSUME NEW p, IsPosition(p), NEW gone, NEW to \in Board, NEW sq \in DOMAIN p.board,
         NEW s \in Steps, NEW t \in Steps,
         Sees(p, gone, sq, to, s), Sees(p, gone, sq, to, t)
  PROVE  s = t
  <1>1. sq \in Board
    BY PieceFacts
  <1> QED
    BY <1>1, OneLine DEF Sees

LEMMA SlidersListed ==
  ASSUME NEW p, IsPosition(p), NEW from, NEW to, IsCapture(p, from, to),
         NEW side \in {"friend", "enemy"}, NEW kind \in {"bishop", "rook"},
         NEW s1 \in Steps, NEW s2 \in Steps, NEW s3 \in Steps, NEW s4 \in Steps,
         s1 # s2, s1 # s3, s1 # s4, s2 # s3, s2 # s4, s3 # s4,
         NEW incs, incs = <<Byte(s1), Byte(s2), Byte(s3), Byte(s4)>>
  PROVE  Lists(SlidersAt(p, side, kind, incs, from, to),
               SlidersSeen(p, side, kind, from, to, {s1, s2, s3, s4}))
  <1> DEFINE Hit(i) == LET sq == RayAt(p, from, to, incs[i])
                           piece == PieceAt(p, sq)
                       IN IF IsA(piece, kind) /\ piece.side = side THEN <<sq>> ELSE <<>>
             S(step) == SeenAlong(p, side, kind, from, to, step)
  <1>1. Lists(Hit(1), S(s1)) /\ Lists(Hit(2), S(s2)) /\ Lists(Hit(3), S(s3)) /\ Lists(Hit(4), S(s4))
    <2>1. incs[1] = Byte(s1) /\ incs[2] = Byte(s2) /\ incs[3] = Byte(s3) /\ incs[4] = Byte(s4)
      OBVIOUS
    <2>2. Lists(Hit(1), S(s1))
      BY <2>1, RayListed
    <2>3. Lists(Hit(2), S(s2))
      BY <2>1, RayListed
    <2>4. Lists(Hit(3), S(s3))
      BY <2>1, RayListed
    <2>5. Lists(Hit(4), S(s4))
      BY <2>1, RayListed
    <2> QED
      BY <2>2, <2>3, <2>4, <2>5
  <1>2. ASSUME NEW s \in Steps, NEW t \in Steps, s # t PROVE S(s) \intersect S(t) = {}
    <2>1. to \in Board
      BY DEF IsCapture
    <2>2. \A sq \in DOMAIN p.board : ~(Sees(p, {from}, sq, to, s) /\ Sees(p, {from}, sq, to, t))
      BY <1>2, <2>1, SeenOnce
    <2> QED
      BY <2>2 DEF SeenAlong
  <1>3. SlidersAt(p, side, kind, incs, from, to) = Hit(1) \o Hit(2) \o Hit(3) \o Hit(4)
    BY DEF SlidersAt
  <1>4. /\ S(s1) \intersect S(s2) = {}
        /\ (S(s1) \union S(s2)) \intersect S(s3) = {}
        /\ (S(s1) \union S(s2) \union S(s3)) \intersect S(s4) = {}
    <2>1. S(s1) \intersect S(s2) = {}
      BY <1>2
    <2>2. S(s1) \intersect S(s3) = {} /\ S(s2) \intersect S(s3) = {}
      BY <1>2
    <2>3. S(s1) \intersect S(s4) = {} /\ S(s2) \intersect S(s4) = {} /\ S(s3) \intersect S(s4) = {}
      BY <1>2
    <2> HIDE DEF S
    <2> QED
      BY <2>1, <2>2, <2>3
  <1>5. SlidersSeen(p, side, kind, from, to, {s1, s2, s3, s4})
          = S(s1) \union S(s2) \union S(s3) \union S(s4)
    BY DEF SeenAlong, SlidersSeen
  <1> HIDE DEF Hit, S
  <1>6. Lists(Hit(1) \o Hit(2), S(s1) \union S(s2))
    BY <1>1, <1>4, ListsConcat
  <1>7. Lists(Hit(1) \o Hit(2) \o Hit(3), S(s1) \union S(s2) \union S(s3))
    BY <1>1, <1>4, <1>6, ListsConcat
  <1>8. Lists(Hit(1) \o Hit(2) \o Hit(3) \o Hit(4), S(s1) \union S(s2) \union S(s3) \union S(s4))
    BY <1>1, <1>4, <1>7, ListsConcat
  <1> QED
    BY <1>3, <1>5, <1>8

\* Each kind of piece that is listed, as a set.
KnightsNear(p, side, from, to) ==
  {sq \in SquaresOf(p, side, "knight") : (side = "friend" /\ sq = from) \/ knight_increment(sq, to) # 0}
KingNear(p, side, to) == {sq \in SquaresOf(p, side, "king") : king_increment(sq, to) # 0}

\* Each part of a list is exact for its kind of piece.
LEMMA KindsListed ==
  ASSUME NEW p, IsPosition(p), NEW from, NEW to, IsCapture(p, from, to),
         NEW side \in {"friend", "enemy"}
  PROVE  /\ Lists(KnightsAt(p, side, from, to), KnightsNear(p, side, from, to))
         /\ Lists(SlidersAt(p, side, "bishop", bishop_increments_list, from, to),
                  SlidersSeen(p, side, "bishop", from, to, DiagonalSteps))
         /\ Lists(SlidersAt(p, side, "rook", rook_increments_list, from, to),
                  SlidersSeen(p, side, "rook", from, to, LineSteps))
         /\ Lists(KingAt(p, side, to), KingNear(p, side, to))
  <1>1. Lists(KnightsAt(p, side, from, to), KnightsNear(p, side, from, to))
    <2>1. IsFiniteSet(Board)
      <3>1. PICK last \in Int : last = 255
        OBVIOUS
      <3>2. IsFiniteSet(0..last)
        BY FS_Interval
      <3>3. Board \subseteq 0..last
        BY <3>1 DEF Board
      <3> QED
        BY <3>2, <3>3, FS_Subset
    <2>2. KnightsNear(p, side, from, to) \subseteq Board
      BY DEF KnightsNear, SquaresOf, IsPosition
    <2>3. IsFiniteSet(KnightsNear(p, side, from, to))
      BY <2>1, <2>2, FS_Subset
    <2> QED
      BY <2>3, ListsSet DEF KnightsAt, KnightsNear
  <1>2. Lists(SlidersAt(p, side, "bishop", bishop_increments_list, from, to),
              SlidersSeen(p, side, "bishop", from, to, DiagonalSteps))
    <2>1. Byte(-15) = 241 /\ Byte(-17) = 239 /\ Byte(15) = 15 /\ Byte(17) = 17
      BY SmallBytes
    <2>2. bishop_increments_list = <<Byte(-15), Byte(-17), Byte(15), Byte(17)>>
      BY <2>1, Zenon DEF bishop_increments_list
    <2>3. PICK s1 \in Steps, s2 \in Steps, s3 \in Steps, s4 \in Steps :
            s1 = -15 /\ s2 = -17 /\ s3 = 15 /\ s4 = 17
      BY DEF Steps, DiagonalSteps
    <2>4. DiagonalSteps = {s1, s2, s3, s4}
      BY <2>3 DEF DiagonalSteps
    <2>5. s1 # s2 /\ s1 # s3 /\ s1 # s4 /\ s2 # s3 /\ s2 # s4 /\ s3 # s4
      BY <2>3
    <2>6. bishop_increments_list = <<Byte(s1), Byte(s2), Byte(s3), Byte(s4)>>
      BY <2>2, <2>3
    <2>7. "bishop" \in {"bishop", "rook"}
      OBVIOUS
    <2> QED
      BY <2>4, <2>5, <2>6, <2>7, SlidersListed
  <1>3. Lists(SlidersAt(p, side, "rook", rook_increments_list, from, to),
              SlidersSeen(p, side, "rook", from, to, LineSteps))
    <2>1. Byte(1) = 1 /\ Byte(-1) = 255 /\ Byte(-16) = 240 /\ Byte(16) = 16
      BY SmallBytes
    <2>2. rook_increments_list = <<Byte(1), Byte(-1), Byte(-16), Byte(16)>>
      BY <2>1, Zenon DEF rook_increments_list
    <2>3. PICK s1 \in Steps, s2 \in Steps, s3 \in Steps, s4 \in Steps :
            s1 = 1 /\ s2 = -1 /\ s3 = -16 /\ s4 = 16
      BY DEF Steps, LineSteps
    <2>4. LineSteps = {s1, s2, s3, s4}
      BY <2>3 DEF LineSteps
    <2>5. s1 # s2 /\ s1 # s3 /\ s1 # s4 /\ s2 # s3 /\ s2 # s4 /\ s3 # s4
      BY <2>3
    <2>6. rook_increments_list = <<Byte(s1), Byte(s2), Byte(s3), Byte(s4)>>
      BY <2>2, <2>3
    <2>7. "rook" \in {"bishop", "rook"}
      OBVIOUS
    <2> QED
      BY <2>4, <2>5, <2>6, <2>7, SlidersListed
  <1>4. Lists(KingAt(p, side, to), KingNear(p, side, to))
    <2>1. PICK k \in Board : SquaresOf(p, side, "king") = {k}
      BY DEF IsPosition
    <2>2. KingAt(p, side, to) = IF king_increment(k, to) # 0 THEN <<k>> ELSE <<>>
      BY <2>1 DEF KingAt
    <2>3. KingNear(p, side, to) = IF king_increment(k, to) # 0 THEN {k} ELSE {}
      BY <2>1 DEF KingNear
    <2> DEFINE Test == king_increment(k, to) # 0
               S == KingNear(p, side, to)
    <2>4. Test \in BOOLEAN /\ (Test => S = {k}) /\ (~Test => S = {})
      BY <2>3
    <2>5. Lists(IF Test THEN <<k>> ELSE <<>>, S)
      <3> HIDE DEF Test, S
      <3> QED
        BY <2>4, ListsNoneOrOne
    <2> QED
      BY <2>2, <2>5
  <1> QED
    BY <1>1, <1>2, <1>3, <1>4

Attackers(p, side, from, to) ==
  HittersOf(p, side, from, to)
    \union IF side = "friend" /\ PieceAt(p, from).kind \in {"knight", "king"} THEN {from} ELSE {}

\* Together they are those that attack the target by the rules of chess.
LEMMA KindsAreAttackers ==
  ASSUME NEW p, IsPosition(p), NEW from, NEW to, IsCapture(p, from, to),
         NEW side \in {"friend", "enemy"}
  PROVE  Attackers(p, side, from, to)
           = KnightsNear(p, side, from, to)
               \union SlidersSeen(p, side, "bishop", from, to, DiagonalSteps)
               \union SlidersSeen(p, side, "rook", from, to, LineSteps)
               \union KingNear(p, side, to)
  <1> DEFINE All == KnightsNear(p, side, from, to)
                      \union SlidersSeen(p, side, "bishop", from, to, DiagonalSteps)
                      \union SlidersSeen(p, side, "rook", from, to, LineSteps)
                      \union KingNear(p, side, to)
             D == DOMAIN p.board
  <1>1. /\ from \in D /\ from \in Board /\ to \in Board
        /\ p.board[from].side = "friend" /\ Hits(p, {}, from, to)
    BY PieceFacts DEF IsCapture
  <1>2. PieceAt(p, from) = p.board[from]
    BY <1>1, PieceFacts
  <1>3. ASSUME NEW sq \in D \ {from}
        PROVE  sq \in All <=> sq \in Attackers(p, side, from, to)
    <2>1. sq \in Board /\ p.board[sq].kind \in {"pawn", "knight", "bishop", "rook", "queen", "king"}
      BY PieceFacts
    <2>2. sq \in Attackers(p, side, from, to)
            <=> p.board[sq].side = side /\ p.board[sq].kind # "pawn" /\ Hits(p, {from}, sq, to)
      BY DEF Attackers, HittersOf
    <2>3. sq \in KnightsNear(p, side, from, to)
            <=> /\ p.board[sq].side = side /\ p.board[sq].kind = "knight"
                /\ knight_increment(sq, to) # 0
      BY SquaresOfIs DEF KnightsNear
    <2>4. sq \in KingNear(p, side, to)
            <=> /\ p.board[sq].side = side /\ p.board[sq].kind = "king"
                /\ king_increment(sq, to) # 0
      BY SquaresOfIs DEF KingNear
    <2>5. \A kind, steps : sq \in SlidersSeen(p, side, kind, from, to, steps)
            <=> /\ p.board[sq].side = side /\ IsA(p.board[sq], kind)
                /\ \E step \in steps : Sees(p, {from}, sq, to, step)
      BY DEF SlidersSeen
    <2>6. CASE p.board[sq].kind = "pawn"
      BY <2>2, <2>3, <2>4, <2>5, <2>6 DEF IsA
    <2>7. CASE p.board[sq].kind = "knight"
      <3>1. Hits(p, {from}, sq, to) <=> knight_increment(sq, to) # 0
        BY <1>1, <2>1, <2>7, KnightIncrement DEF Hits
      <3> QED
        BY <2>2, <2>3, <2>4, <2>5, <2>7, <3>1 DEF IsA
    <2>8. CASE p.board[sq].kind = "king"
      <3>1. Hits(p, {from}, sq, to) <=> king_increment(sq, to) # 0
        BY <1>1, <2>1, <2>8, KingIncrement DEF Hits
      <3> QED
        BY <2>2, <2>3, <2>4, <2>5, <2>8, <3>1 DEF IsA
    <2>9. CASE p.board[sq].kind = "bishop"
      <3>1. Hits(p, {from}, sq, to) <=> \E step \in DiagonalSteps : Sees(p, {from}, sq, to, step)
        BY <1>1, <2>9, SliderSees DEF StepsOf
      <3> QED
        BY <2>2, <2>3, <2>4, <2>5, <2>9, <3>1 DEF IsA
    <2>10. CASE p.board[sq].kind = "rook"
      <3>1. Hits(p, {from}, sq, to) <=> \E step \in LineSteps : Sees(p, {from}, sq, to, step)
        BY <1>1, <2>10, SliderSees DEF StepsOf
      <3> QED
        BY <2>2, <2>3, <2>4, <2>5, <2>10, <3>1 DEF IsA
    <2>11. CASE p.board[sq].kind = "queen"
      <3>1. Hits(p, {from}, sq, to)
              <=> \E step \in LineSteps \union DiagonalSteps : Sees(p, {from}, sq, to, step)
        BY <1>1, <2>11, SliderSees DEF StepsOf
      <3> QED
        BY <2>2, <2>3, <2>4, <2>5, <2>11, <3>1 DEF IsA
    <2> QED
      BY <2>1, <2>6, <2>7, <2>8, <2>9, <2>10, <2>11
  <1>4. from \in All <=> from \in Attackers(p, side, from, to)
    <2>1. from \in Attackers(p, side, from, to)
            <=> side = "friend" /\ p.board[from].kind \in {"knight", "king"}
      BY <1>2 DEF Attackers, HittersOf
    <2>2. from \in KnightsNear(p, side, from, to)
            <=> side = "friend" /\ p.board[from].kind = "knight"
      BY <1>1, SquaresOfIs DEF KnightsNear
    <2>3. from \in KingNear(p, side, to) <=> side = "friend" /\ p.board[from].kind = "king"
      <3>1. p.board[from].kind = "king" => king_increment(from, to) # 0
        BY <1>1, KingIncrement DEF Hits
      <3> QED
        BY <1>1, <3>1, SquaresOfIs DEF KingNear
    <2>4. \A kind, steps : from \notin SlidersSeen(p, side, kind, from, to, steps)
      BY DEF SlidersSeen
    <2> QED
      BY <2>1, <2>2, <2>3, <2>4
  <1>5. All \subseteq D
    BY DEF KnightsNear, KingNear, SlidersSeen, SquaresOf
  <1>6. Attackers(p, side, from, to) \subseteq D
    BY <1>1 DEF Attackers, HittersOf
  <1> QED
    BY <1>3, <1>4, <1>5, <1>6

\* The parts are disjoint, so each attacker is listed once.
LEMMA PiecesListed ==
  ASSUME NEW p, IsPosition(p), NEW from, NEW to, IsCapture(p, from, to),
         NEW side \in {"friend", "enemy"}
  PROVE  Lists(PiecesAt(p, side, from, to), Attackers(p, side, from, to))
  <1> DEFINE knights == KnightsAt(p, side, from, to)
             bishops == SlidersAt(p, side, "bishop", bishop_increments_list, from, to)
             rooks == SlidersAt(p, side, "rook", rook_increments_list, from, to)
             king == KingAt(p, side, to)
             K == KnightsNear(p, side, from, to)
             B == SlidersSeen(p, side, "bishop", from, to, DiagonalSteps)
             R == SlidersSeen(p, side, "rook", from, to, LineSteps)
             G == KingNear(p, side, to)
  <1>1. Lists(knights, K) /\ Lists(bishops, B) /\ Lists(rooks, R) /\ Lists(king, G)
    BY KindsListed
  <1>2. \A sq \in K : sq \in DOMAIN p.board /\ p.board[sq].kind = "knight"
    BY SquaresOfIs DEF KnightsNear
  <1>3. \A sq \in G : sq \in DOMAIN p.board /\ p.board[sq].kind = "king"
    BY SquaresOfIs DEF KingNear
  <1>4. \A sq \in B : p.board[sq].kind \in {"bishop", "queen"}
    BY DEF SlidersSeen, IsA
  <1>5. \A sq \in R : p.board[sq].kind \in {"rook", "queen"}
    BY DEF SlidersSeen, IsA
  <1>6. B \intersect R = {}
    <2> SUFFICES ASSUME NEW sq \in B, sq \in R PROVE FALSE
      OBVIOUS
    <2>1. PICK s \in DiagonalSteps : Sees(p, {from}, sq, to, s)
      BY DEF SlidersSeen
    <2>2. PICK t \in LineSteps : Sees(p, {from}, sq, to, t)
      BY DEF SlidersSeen
    <2>3. sq \in DOMAIN p.board /\ to \in Board
      BY DEF SlidersSeen, IsCapture
    <2>4. s \in Steps /\ t \in Steps
      BY DEF Steps
    <2>5. s = t
      BY <2>1, <2>2, <2>3, <2>4, SeenOnce
    <2> QED
      BY <2>1, <2>2, <2>5 DEF LineSteps, DiagonalSteps
  <1>7. PiecesAt(p, side, from, to) = knights \o bishops \o rooks \o king
    BY DEF PiecesAt
  <1>8. Attackers(p, side, from, to) = K \union B \union R \union G
    BY KindsAreAttackers
  <1> HIDE DEF knights, bishops, rooks, king, K, B, R, G
  <1>9. K \intersect B = {} /\ (K \union B) \intersect R = {} /\ (K \union B \union R) \intersect G = {}
    BY <1>2, <1>3, <1>4, <1>5, <1>6
  <1>10. Lists(knights \o bishops, K \union B)
    BY <1>1, <1>9, ListsConcat
  <1>11. Lists(knights \o bishops \o rooks, K \union B \union R)
    BY <1>1, <1>9, <1>10, ListsConcat
  <1>12. Lists(knights \o bishops \o rooks \o king, K \union B \union R \union G)
    BY <1>1, <1>9, <1>11, ListsConcat
  <1> QED
    BY <1>7, <1>8, <1>12

\* A list behind others: without those, it is what is listed.
LEMMA ListsAfter ==
  ASSUME NEW s, NEW t, NEW S, NEW P, s \in Seq(P), Lists(t, S), S \intersect P = {}
  PROVE  /\ {(s \o t)[i] : i \in {k \in DOMAIN (s \o t) : (s \o t)[k] \notin P}} = S
         /\ \A i, j \in {k \in DOMAIN (s \o t) : (s \o t)[k] \notin P} :
              (s \o t)[i] = (s \o t)[j] => i = j
  <1> DEFINE st == s \o t
             Places == {k \in DOMAIN st : st[k] \notin P}
             m == Len(s)
             n == Len(t)
  <1>0. t \in Seq(S) /\ m \in Nat /\ n \in Nat
    BY DEF Lists
  <1>1. /\ DOMAIN st = 1..(m + n)
        /\ \A i \in 1..m : st[i] = s[i]
        /\ \A i \in 1..n : st[m + i] = t[i]
    <2>1. s \in Seq(P \union S) /\ t \in Seq(P \union S)
      BY <1>0
    <2>2. /\ st \in Seq(P \union S) /\ Len(st) = m + n
          /\ \A i \in 1..(m + n) : st[i] = IF i <= m THEN s[i] ELSE t[i - m]
      BY <2>1, ConcatProperties
    <2> HIDE DEF st
    <2>3. DOMAIN st = 1..(m + n)
      BY <2>2
    <2>4. \A i \in 1..m : st[i] = s[i]
      BY <1>0, <2>2
    <2>5. \A i \in 1..n : st[m + i] = t[i]
      <3>1. \A i \in 1..n : m + i \in 1..(m + n) /\ ~(m + i <= m) /\ (m + i) - m = i
        BY <1>0
      <3> QED
        BY <2>2, <3>1
    <2> QED
      BY <2>3, <2>4, <2>5
  <1>2. \A i \in 1..m : s[i] \in P
    OBVIOUS
  <1>3. \A i \in 1..n : t[i] \in S
    BY <1>0
  <1>4. \A k \in 1..(m + n) : k \in 1..m \/ \E i \in 1..n : k = m + i
    <2>1. ASSUME NEW k \in 1..(m + n), k \notin 1..m PROVE \E i \in 1..n : k = m + i
      <3>1. k - m \in 1..n /\ k = m + (k - m)
        BY <1>0, <2>1
      <3> QED
        BY <3>1
    <2> QED
      BY <2>1
  <1>5. \A i \in 1..n : m + i \in 1..(m + n)
    BY <1>0
  <1> HIDE DEF st, m, n
  <1>6. \A k : k \in Places <=> \E i \in 1..n : k = m + i
    <2>1. ASSUME NEW k \in Places PROVE \E i \in 1..n : k = m + i
      BY <1>1, <1>2, <1>4
    <2>2. ASSUME NEW i \in 1..n PROVE m + i \in Places
      BY <1>1, <1>3, <1>5
    <2> QED
      BY <2>1, <2>2
  <1>7. {st[k] : k \in Places} = S
    <2>1. ASSUME NEW k \in Places PROVE st[k] \in S
      BY <1>1, <1>3, <1>6
    <2>2. ASSUME NEW x \in S PROVE \E k \in Places : st[k] = x
      <3>1. PICK i \in 1..n : t[i] = x
        BY DEF Lists, n
      <3> QED
        BY <1>1, <1>6, <3>1
    <2> QED
      BY <2>1, <2>2
  <1>8. \A i, j \in Places : st[i] = st[j] => i = j
    <2> SUFFICES ASSUME NEW i \in Places, NEW j \in Places, st[i] = st[j] PROVE i = j
      OBVIOUS
    <2>1. PICK a \in 1..n : i = m + a
      BY <1>6
    <2>2. PICK b \in 1..n : j = m + b
      BY <1>6
    <2>3. t[a] = t[b]
      BY <1>1, <2>1, <2>2
    <2>4. a = b
      BY <2>3 DEF Lists, n
    <2> QED
      BY <2>1, <2>2, <2>4
  <1> QED
    BY <1>7, <1>8 DEF st

LEMMA PawnsType ==
  ASSUME NEW p, NEW from, NEW to
  PROVE  PawnsAt(p, from, to) \in Seq({sq \in DOMAIN p.board : p.board[sq].kind = "pawn"})
  <1> DEFINE P == {sq \in DOMAIN p.board : p.board[sq].kind = "pawn"}
             own == Byte(to - p.up + 1)
             other == Byte(to - Byte(-p.up) + 1)
             Twice(sq, side) == IF sq \in SquaresOf(p, side, "pawn")
                                  THEN <<sq, sq>> ELSE <<>>
  <1>1. ASSUME NEW sq, NEW side PROVE Twice(sq, side) \in Seq(P)
    <2>1. sq \in SquaresOf(p, side, "pawn") => sq \in P
      BY DEF SquaresOf
    <2> HIDE DEF P
    <2> QED
      BY <2>1
  <1>2. (IF own = from THEN <<>> ELSE Twice(own, "friend")) \in Seq(P)
    <2>1. <<>> \in Seq(P)
      OBVIOUS
    <2> QED
      BY <1>1, <2>1
  <1>3. Twice(other, "enemy") \in Seq(P)
    BY <1>1
  <1>4. (IF own = from THEN <<>> ELSE Twice(own, "friend")) \o Twice(other, "enemy")
          \in Seq(P)
    BY <1>2, <1>3, ConcatProperties
  <1> QED
    BY <1>4 DEF PawnsAt

\* What generate_attackers promises of one capture.
LEMMA GeneratedExact ==
  ASSUME NEW p, IsPosition(p), NEW from, NEW to, IsCapture(p, from, to)
  PROVE  ListsExact(p, from, to)
  <1> DEFINE P == {sq \in DOMAIN p.board : p.board[sq].kind = "pawn"}
             g == generate_attackers(p, from, to)
             Places(side) == {i \in DOMAIN g[side] : PieceAt(p, g[side][i]).kind # "pawn"}
             Listed(side) == {g[side][i] : i \in Places(side)}
             itself == IF PieceAt(p, from).kind \in {"knight", "king"} THEN {from} ELSE {}
             A(side) == Attackers(p, side, from, to)
  <1>1. \A sq \in DOMAIN p.board : PieceAt(p, sq) = p.board[sq]
    BY PieceFacts
  <1>2. \A side : A(side) \subseteq DOMAIN p.board \ P
    <2>1. from \in DOMAIN p.board
      BY DEF IsCapture
    <2> QED
      BY <1>1, <2>1 DEF Attackers, HittersOf
  <1>3. A("enemy") = HittersOf(p, "enemy", from, to)
    BY DEF Attackers
  <1>4. A("friend") = HittersOf(p, "friend", from, to) \union itself
    BY DEF Attackers
  <1>5. /\ g["friend"] = PawnsAt(p, from, to) \o PiecesAt(p, "friend", from, to)
        /\ g["enemy"] = PiecesAt(p, "enemy", from, to)
    BY DEF generate_attackers
  <1>6. ASSUME NEW side \in {"friend", "enemy"}
        PROVE  /\ Listed(side) = A(side)
               /\ \A i, j \in Places(side) : g[side][i] = g[side][j] => i = j
    <2>1. PICK s \in Seq(P) : g[side] = s \o PiecesAt(p, side, from, to)
      <3>1. CASE side = "friend"
        BY <1>5, <3>1, PawnsType
      <3>2. CASE side = "enemy"
        <4>1. PiecesAt(p, side, from, to) \in Seq(A(side))
          BY PiecesListed DEF Lists
        <4> DEFINE t == PiecesAt(p, side, from, to)
        <4>2. t = <<>> \o t
          <5> HIDE DEF t
          <5> QED
            BY <4>1, ConcatEmptySeq DEF t
        <4>3. <<>> \in Seq(P)
          OBVIOUS
        <4> QED
          BY <1>5, <3>2, <4>2, <4>3
      <3> QED
        BY <3>1, <3>2
    <2>2. Lists(PiecesAt(p, side, from, to), A(side))
      BY PiecesListed
    <2> DEFINE st == s \o PiecesAt(p, side, from, to)
    <2>3. /\ {st[i] : i \in {k \in DOMAIN st : st[k] \notin P}} = A(side)
          /\ \A i, j \in {k \in DOMAIN st : st[k] \notin P} : st[i] = st[j] => i = j
      <3>1. A(side) \intersect P = {}
        BY <1>2
      <3> HIDE DEF A, P
      <3> QED
        BY <2>1, <2>2, <3>1, ListsAfter
    <2>4. st \in Seq(DOMAIN p.board)
      <3>1. s \in Seq(DOMAIN p.board)
        BY <2>1
      <3>2. PiecesAt(p, side, from, to) \in Seq(DOMAIN p.board)
        BY <1>2, <2>2 DEF Lists
      <3> QED
        BY <3>1, <3>2, ConcatProperties
    <2>5. Places(side) = {k \in DOMAIN st : st[k] \notin P}
      <3>1. \A k \in DOMAIN st : st[k] \in DOMAIN p.board
        <4> HIDE DEF st
        <4> QED
          BY <2>4
      <3>2. \A k \in DOMAIN st : PieceAt(p, st[k]).kind # "pawn" <=> st[k] \notin P
        <4> HIDE DEF st
        <4> QED
          BY <1>1, <3>1
      <3> QED
        BY <2>1, <3>2
    <2> DEFINE Q == {k \in DOMAIN st : st[k] \notin P}
    <2>6. g[side] = st /\ Places(side) = Q
      BY <2>1, <2>5
    <2>7. {st[i] : i \in Q} = A(side) /\ \A i, j \in Q : st[i] = st[j] => i = j
      BY <2>3
    <2> HIDE DEF g, st, A, Q, Places
    <2>8. {g[side][i] : i \in Places(side)} = A(side)
      BY <2>6, <2>7
    <2> QED
      BY <2>6, <2>7, <2>8
  <1> HIDE DEF A, P
  <1>7. Listed("enemy") = HittersOf(p, "enemy", from, to)
    BY <1>3, <1>6
  <1>8. Listed("friend") = HittersOf(p, "friend", from, to) \union itself
    BY <1>4, <1>6
  <1>9. \A side \in {"friend", "enemy"} : \A i, j \in Places(side) : g[side][i] = g[side][j] => i = j
    BY <1>6
  <1> QED
    BY <1>7, <1>8, <1>9 DEF ListsExact

\* The moving king attacks its target, so it is in the list, and its capture does
\* not return before the test for kings.
LEMMA KingIsListed ==
  ASSUME NEW p, IsPosition(p), NEW from, NEW to, IsCapture(p, from, to),
         PieceAt(p, from).kind = "king"
  PROVE  generate_attackers(p, from, to).friend # <<>>
  <1> DEFINE t == PiecesAt(p, "friend", from, to)
             A == Attackers(p, "friend", from, to)
  <1>1. from \in A
    BY DEF Attackers
  <1>2. Lists(t, A)
    BY PiecesListed
  <1>3. PawnsAt(p, from, to) \in Seq({sq \in DOMAIN p.board : p.board[sq].kind = "pawn"})
    BY PawnsType
  <1>4. generate_attackers(p, from, to).friend = PawnsAt(p, from, to) \o t
    BY DEF generate_attackers
  <1>5. t # <<>> /\ t \in Seq(A)
    <2> HIDE DEF t, A
    <2> QED
      BY <1>1, <1>2 DEF Lists
  <1> HIDE DEF t
  <1> QED
    BY <1>3, <1>4, <1>5, ConcatEqualIffEmpty

\* Apart from pawns, the lists that an exchange begins with are those of the rules
\* of chess, on every board and for every capture (see.c, generate_attackers).
THEOREM ListsAreExact == ExchangeSpec => []AttackersExact
  <1>1. ExchangeInit => call \in Exchanges
    BY DEF ExchangeInit
  <1>2. call \in Exchanges /\ [ExchangeNext]_exchangeVars => (call \in Exchanges)'
    BY DEF ExchangeNext, Call, FriendTook, EnemyTook, exchangeVars
  <1>3. call \in Exchanges => AttackersExact
    BY ExchangeAssumption, GeneratedExact DEF AttackersExact
  <1> QED
    BY <1>1, <1>2, <1>3, PTL DEF ExchangeSpec

-----------------------------------------------------------------------------
(* The loop.  After its first half the side to move has alpha at least what   *)
(* it took less what it moved, and no score above it can be negative; the     *)
(* enemy goes on only above alpha, the side to move only below beta.          *)

FirstCapture == value = Captured /\ alpha = MIN_SCORE /\ value_attacker = Moved
Settled == alpha \in (Captured - Moved)..0

FriendBound ==
  at = "friend" => FirstCapture \/ (Settled /\ value > alpha /\ value <= KingValue)
EnemyBound ==
  at = "enemy" => Settled /\ value <= alpha /\ value >= -900 - KingValue

LoopInv ==
  /\ call \in Exchanges
  /\ at \in {"friend", "enemy"} =>
       beta = Captured /\ ~IsKing(call.from) /\ value_attacker \in 0..KingValue
  /\ value \in Int
  /\ FriendBound /\ EnemyBound
  /\ ExchangesBounded

LEMMA CapturedAndMoved ==
  /\ Captured \in 0..KingValue
  /\ Moved \in 0..KingValue
  /\ ~IsKing(call.from) => Moved <= 900
  <1>1. Captured \in 0..KingValue /\ Moved \in 0..KingValue
    BY SquareValues DEF Captured, Moved
  <1>2. ~IsKing(call.from) => Moved <= 900
    BY SquareValues DEF Moved, IsKing
  <1> QED
    BY <1>1, <1>2, Zenon

\* The three steps, each outcome with the tests that led to it.
LEMMA CallDoes ==
  ASSUME Call
  PROVE  /\ at = "called" /\ call' = call
         /\ lists' = generate_attackers(call.position, call.from, call.to)
         /\ value' = Captured /\ alpha' = MIN_SCORE /\ beta' = Captured
         /\ value_attacker' = Moved
         /\ \/ lists'.friend = <<>> /\ at' = "returned" /\ result' = Captured
            \/ IsKing(call.from) /\ at' = "returned" /\ result' = MIN_SCORE
            \/ ~IsKing(call.from) /\ at' = "friend"
  BY DEF Call, Return, GoOn

LEMMA FriendTookDoes ==
  ASSUME FriendTook, value \in Int, value_attacker \in Int, alpha \in Int, beta \in Int
  PROVE  /\ at = "friend" /\ call' = call /\ beta' = beta
         /\ value' = value - value_attacker
         /\ alpha' = IF value' > alpha THEN value' ELSE alpha
         /\ value_attacker' \in 0..KingValue
         /\ \/ at' = "returned" /\ result' = beta /\ value' >= beta
            \/ at' = "returned" /\ result' = beta /\ alpha' <= 0
            \/ at' = "returned" /\ result' = alpha' /\ alpha' > 0 /\ value' < beta
            \/ at' = "returned" /\ result' = Clamp(value') /\ alpha' <= 0
            \/ at' = "enemy" /\ alpha' <= 0
  <1>1. at = "friend" /\ call' = call /\ beta' = beta
    BY DEF FriendTook
  <1>2. value' = value - value_attacker
    BY DEF FriendTook
  <1>3. alpha' = IF value' > alpha THEN value' ELSE alpha
    BY DEF FriendTook
  <1>4. value_attacker' \in 0..KingValue
    BY PoppedValues DEF FriendTook
  <1>5. \/ at' = "returned" /\ result' = beta /\ value' >= beta
        \/ at' = "returned" /\ result' = beta /\ alpha' <= 0
        \/ at' = "returned" /\ result' = alpha' /\ alpha' > 0 /\ value' < beta
        \/ at' = "returned" /\ result' = Clamp(value') /\ alpha' <= 0
        \/ at' = "enemy" /\ alpha' <= 0
    BY DEF FriendTook, Return, GoOn, Refuted
  <1> QED
    BY <1>1, <1>2, <1>3, <1>4, <1>5, Zenon

LEMMA EnemyTookDoes ==
  ASSUME EnemyTook, value \in Int, value_attacker \in Int, alpha \in Int, beta \in Int
  PROVE  /\ at = "enemy" /\ call' = call /\ alpha' = alpha /\ beta' = beta
         /\ value' = value + value_attacker
         /\ value_attacker' \in 0..KingValue
         /\ \/ at' = "returned" /\ result' = alpha
            \/ at' = "returned" /\ result' = beta /\ beta < 0
            \/ at' = "returned" /\ result' = Clamp(value')
            \/ at' = "friend" /\ value' > alpha
  <1>1. at = "enemy" /\ call' = call /\ alpha' = alpha /\ beta' = beta
    BY DEF EnemyTook
  <1>2. value' = value + value_attacker
    BY DEF EnemyTook
  <1>3. value_attacker' \in 0..KingValue
    BY PoppedValues DEF EnemyTook
  <1>4. \/ at' = "returned" /\ result' = alpha
        \/ at' = "returned" /\ result' = beta /\ beta < 0
        \/ at' = "returned" /\ result' = Clamp(value')
        \/ at' = "friend" /\ value' > alpha
    BY DEF EnemyTook, Return, GoOn
  <1> QED
    BY <1>1, <1>2, <1>3, <1>4, Zenon

\* LoopInv' from its parts; the call, and with it its two values, stays.
LEMMA InvFromParts ==
  ASSUME call' = call, call \in Exchanges,
         value' \in Int, value' >= -32768, value' <= 32767,
         at' \in {"friend", "enemy"} =>
           beta' = Captured /\ ~IsKing(call.from) /\ value_attacker' \in 0..KingValue,
         at' = "friend" =>
           \/ value' = Captured /\ alpha' = MIN_SCORE /\ value_attacker' = Moved
           \/ /\ alpha' \in (Captured - Moved)..0
              /\ value' > alpha' /\ value' <= KingValue,
         at' = "enemy" =>
           /\ alpha' \in (Captured - Moved)..0
           /\ value' <= alpha' /\ value' >= -900 - KingValue,
         at' = "returned" =>
           \/ IsKing(call.from) /\ result' = MIN_SCORE
           \/ ~IsKing(call.from) /\ result' \in (Captured - Moved)..Captured
  PROVE  LoopInv'
  <1> USE DEF Captured, Moved, IsKing
  <1>1. FriendBound'
    BY DEF FriendBound, FirstCapture, Settled
  <1>2. EnemyBound'
    BY DEF EnemyBound, Settled
  <1>3. ExchangesBounded'
    BY DEF ExchangesBounded
  <1> QED
    BY <1>1, <1>2, <1>3 DEF LoopInv

LEMMA StepLoopInv ==
  ASSUME LoopInv, [ExchangeNext]_exchangeVars
  PROVE  LoopInv'
  <1>c. /\ Captured \in 0..KingValue /\ Moved \in 0..KingValue
        /\ ~IsKing(call.from) => Moved <= 900
    BY CapturedAndMoved
  <1>1. CASE Call
    <2>1. /\ call' = call /\ value' = Captured /\ alpha' = MIN_SCORE /\ beta' = Captured
          /\ value_attacker' = Moved
      BY <1>1, CallDoes
    <2>2. call \in Exchanges
      BY DEF LoopInv
    <2>3. IsKing(call.from) => lists'.friend # <<>>
      <3>1. lists' = generate_attackers(call.position, call.from, call.to)
        BY <1>1, CallDoes
      <3>2. IsPosition(call.position) /\ IsCapture(call.position, call.from, call.to)
        BY <2>2, ExchangeAssumption
      <3> QED
        BY <3>1, <3>2, KingIsListed DEF IsKing
    <2>4. \/ ~IsKing(call.from) /\ at' = "returned" /\ result' = Captured
          \/ IsKing(call.from) /\ at' = "returned" /\ result' = MIN_SCORE
          \/ ~IsKing(call.from) /\ at' = "friend"
      BY <1>1, <2>3, CallDoes
    <2>5. Captured \in 0..KingValue /\ Moved \in 0..KingValue
      BY <1>c
    <2>6. at' \notin {"enemy"}
      BY <2>4
    <2>7. value' \in Int /\ value' >= -32768 /\ value' <= 32767
      BY <2>1, <2>5, KingValueFacts
    <2>8. at' = "friend" =>
            /\ value' = Captured /\ alpha' = MIN_SCORE /\ value_attacker' = Moved
            /\ beta' = Captured /\ ~IsKing(call.from) /\ value_attacker' \in 0..KingValue
      BY <2>1, <2>2, <2>4, <2>5
    <2>9. Captured \in (Captured - Moved)..Captured
      BY <2>5
    <2>10. at' = "returned" =>
            \/ IsKing(call.from) /\ result' = MIN_SCORE
            \/ ~IsKing(call.from) /\ result' \in (Captured - Moved)..Captured
      BY <2>2, <2>4, <2>9
    <2> QED
      BY <2>1, <2>2, <2>6, <2>7, <2>8, <2>10, InvFromParts
  <1>2. CASE FriendTook
    <2>1. at = "friend"
      BY <1>2 DEF FriendTook
    <2>2. /\ call \in Exchanges /\ beta = Captured /\ ~IsKing(call.from)
          /\ value_attacker \in 0..KingValue
      BY <2>1 DEF LoopInv
    <2>3. \/ FirstCapture
          \/ Settled /\ value > alpha /\ value <= KingValue
      BY <2>1 DEF LoopInv, FriendBound
    <2>4. /\ Captured \in 0..KingValue /\ Moved \in 0..KingValue /\ Moved <= 900
          /\ value \in Int /\ value_attacker \in Int /\ alpha \in Int /\ beta \in Int
      <3>1. Captured \in 0..KingValue /\ Moved \in 0..KingValue /\ Moved <= 900
        BY <1>c, <2>2
      <3>2. value \in Int /\ value_attacker \in Int /\ beta \in Int
        BY <2>2, <3>1 DEF LoopInv
      <3>3. alpha \in Int
        BY <2>3, <3>1 DEF FirstCapture, Settled, MIN_SCORE
      <3> QED
        BY <3>1, <3>2, <3>3
    <2>5. /\ call' = call /\ beta' = beta /\ value' = value - value_attacker
          /\ alpha' = (IF value' > alpha THEN value' ELSE alpha)
          /\ value_attacker' \in 0..KingValue
      BY <1>2, <2>4, FriendTookDoes
    <2>6. \/ at' = "returned" /\ result' = beta /\ value' >= beta
          \/ at' = "returned" /\ result' = beta /\ alpha' <= 0
          \/ at' = "returned" /\ result' = alpha' /\ alpha' > 0 /\ value' < beta
          \/ at' = "returned" /\ result' = Clamp(value') /\ alpha' <= 0
          \/ at' = "enemy" /\ alpha' <= 0
      BY <1>2, <2>4, FriendTookDoes
    <2>8. \/ value = Captured /\ alpha = -32767 /\ value_attacker = Moved
          \/ /\ alpha >= Captured - Moved /\ alpha <= 0
             /\ value > alpha /\ value <= KingValue
      BY <2>3, <1>c DEF FirstCapture, Settled, MIN_SCORE
    <2>9. /\ value' \in Int /\ value' >= -900 - KingValue /\ value' <= KingValue /\ value' <= alpha'
          /\ alpha' \in Int /\ alpha' >= Captured - Moved
          /\ alpha' > 0 => alpha' = value'
      BY <2>2, <2>4, <2>5, <2>8, KingValueFacts
    <2>10. at' = "returned" => result' \in (Captured - Moved)..Captured
      BY <2>2, <2>4, <2>6, <2>9 DEF Clamp
    <2>11. at' = "enemy" => alpha' \in (Captured - Moved)..0
      BY <2>2, <2>4, <2>6, <2>9
    <2>12. at' \in {"returned", "enemy"}
      BY <2>6
    <2> QED
      <3>1. value' >= -32768 /\ value' <= 32767
        BY <2>9, KingValueFacts
      <3>2. at' = "enemy" =>
              /\ alpha' \in (Captured - Moved)..0
              /\ value' <= alpha' /\ value' >= -900 - KingValue
        BY <2>9, <2>11
      <3>3. at' = "enemy" =>
              beta' = Captured /\ ~IsKing(call.from) /\ value_attacker' \in 0..KingValue
        BY <2>2, <2>5
      <3>4. at' = "returned" =>
              ~IsKing(call.from) /\ result' \in (Captured - Moved)..Captured
        BY <2>2, <2>10
      <3> QED
        BY <2>2, <2>5, <2>9, <2>12, <3>1, <3>2, <3>3, <3>4, InvFromParts
  <1>3. CASE EnemyTook
    <2>1. at = "enemy"
      BY <1>3 DEF EnemyTook
    <2>2. /\ call \in Exchanges /\ beta = Captured /\ ~IsKing(call.from)
          /\ value_attacker \in 0..KingValue
      BY <2>1 DEF LoopInv
    <2>3. Settled /\ value <= alpha /\ value >= -900 - KingValue
      BY <2>1 DEF LoopInv, EnemyBound
    <2>4. /\ Captured \in 0..KingValue /\ Moved \in 0..KingValue /\ Moved <= 900
          /\ value \in Int /\ value_attacker \in Int /\ alpha \in Int /\ beta \in Int
      <3>1. Captured \in 0..KingValue /\ Moved \in 0..KingValue /\ Moved <= 900
        BY <1>c, <2>2
      <3>2. value \in Int /\ value_attacker \in Int /\ beta \in Int
        BY <2>2, <3>1 DEF LoopInv
      <3>3. alpha \in Int
        BY <2>3, <3>1 DEF Settled
      <3> QED
        BY <3>1, <3>2, <3>3
    <2>5. /\ call' = call /\ alpha' = alpha /\ beta' = beta
          /\ value' = value + value_attacker /\ value_attacker' \in 0..KingValue
      BY <1>3, <2>4, EnemyTookDoes
    <2>6. \/ at' = "returned" /\ result' = alpha
          \/ at' = "returned" /\ result' = beta /\ beta < 0
          \/ at' = "returned" /\ result' = Clamp(value')
          \/ at' = "friend" /\ value' > alpha
      BY <1>3, <2>4, EnemyTookDoes
    <2>8. /\ alpha >= Captured - Moved /\ alpha <= 0 /\ value <= 0
          /\ value >= -900 - KingValue
      BY <2>3, <2>4 DEF Settled
    <2>9. value' \in Int /\ value' >= -900 - KingValue /\ value' <= KingValue
      BY <2>2, <2>4, <2>5, <2>8, KingValueFacts
    <2>10. at' = "returned" => result' \in (Captured - Moved)..Captured
      BY <2>2, <2>4, <2>5, <2>6, <2>8, <2>9 DEF Clamp
    <2>11. at' \in {"returned", "friend"}
      BY <2>6
    <2> QED
      <3>1. value' >= -32768 /\ value' <= 32767
        BY <2>9, KingValueFacts
      <3>2. at' = "friend" =>
              /\ alpha' \in (Captured - Moved)..0
              /\ value' > alpha' /\ value' <= KingValue
        BY <2>4, <2>5, <2>6, <2>8, <2>9
      <3>3. at' = "friend" =>
              beta' = Captured /\ ~IsKing(call.from) /\ value_attacker' \in 0..KingValue
        BY <2>2, <2>5
      <3>4. at' = "returned" =>
              ~IsKing(call.from) /\ result' \in (Captured - Moved)..Captured
        BY <2>2, <2>10
      <3> QED
        BY <2>2, <2>5, <2>9, <2>11, <3>1, <3>2, <3>3, <3>4, InvFromParts
  <1>4. CASE UNCHANGED exchangeVars
    BY <1>4
    DEF exchangeVars, LoopInv, FriendBound, EnemyBound, FirstCapture, Settled,
        ExchangesBounded, Captured, Moved, IsKing
  <1> QED
    BY <1>1, <1>2, <1>3, <1>4 DEF ExchangeNext

\* However many pieces join in, an exchange is worth no more than what it takes
\* first and no less than that without the piece that moved, and its score never
\* leaves the 16 bits it is kept in (see.c, static_exchange_evaluation).
THEOREM ExchangesAreBounded == ExchangeSpec => []ExchangesBounded
  <1>1. ExchangeInit => LoopInv
    BY DEF ExchangeInit, LoopInv, FriendBound, EnemyBound, ExchangesBounded
  <1>2. LoopInv /\ [ExchangeNext]_exchangeVars => LoopInv'
    BY StepLoopInv
  <1>3. LoopInv => ExchangesBounded
    BY DEF LoopInv
  <1> QED
    BY <1>1, <1>2, <1>3, PTL DEF ExchangeSpec
=============================================================================
