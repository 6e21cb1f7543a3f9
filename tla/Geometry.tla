----------------------------- MODULE Geometry ------------------------------
(***************************************************************************)
(* The two numberings of the squares and the packing of a move in 16 bits  *)
(* (src/include/chess.h), and the tables of increments that                *)
(* src/scripts/vector_attack.c prints for the chess library.               *)
(*                                                                         *)
(* A square 0x88 number is 16 * rank + file; a number with bit 3 or bit 7  *)
(* set is off the board.  Every number is cut to the width of its type.    *)
(***************************************************************************)
EXTENDS Integers, FiniteSets

VARIABLE asked  \* the squares whose moves and increments the properties ask about

Byte(n) == n % 256
Abs(n) == IF n < 0 THEN -n ELSE n

off_the_board(sq) == sq >= 128 \/ (sq \div 8) % 2 = 1
Board == {sq \in 0..255 : ~off_the_board(sq)}

sq0x88_to_sq8x8(sq) == Byte((sq + (sq % 8)) \div 2)
sq8x8_to_sq0x88(sq) == Byte(sq + (sq - (sq % 8)))
rank07(sq) == sq \div 16
file07(sq) == sq % 8
rankfile_to_sq0x88(rank, file) == Byte(16 * rank + file)

----------------------------------------------------------------------------
(* Moves in 16 bits.  move_t keeps two 0x88 numbers and 4 bits of flags.     *)

Moves == [from : Board, to : Board, flags : 0..15]

compress_move(m) ==
  sq0x88_to_sq8x8(m.from) + 64 * sq0x88_to_sq8x8(m.to) + 4096 * m.flags

\* Mutant: the two squares change places.
UncompressSwapped(c) ==
  [from  |-> sq8x8_to_sq0x88(Byte(c \div 64)),
   to    |-> sq8x8_to_sq0x88(Byte(c)),
   flags |-> c \div 4096]

\* The arguments are cut to the 8 bits of a sq8x8_t, not to the 6 of a square.
uncompress_move(c) ==
  [from  |-> sq8x8_to_sq0x88(Byte(c)),
   to    |-> sq8x8_to_sq0x88(Byte(c \div 64)),
   flags |-> c \div 4096]

\* A hash move read back from the table is either the move that was stored or
\* no move of any position, so that the look-up of the hash move among the
\* generated moves finds it or nothing; it is lost when the file of its target
\* or its lowest flag is odd, because the bits next to a square are not masked.
HashMoveExact(from) ==
  \A m \in [from : {from}, to : Board \ {from}, flags : 0..15] :
    LET hash == uncompress_move(compress_move(m)) IN
    IF file07(m.to) % 2 = 0 /\ m.flags % 2 = 0
      THEN hash = m
      ELSE off_the_board(hash.from) \/ off_the_board(hash.to)

----------------------------------------------------------------------------
(* vector_attack.c fills one cell for every pair of squares: cell            *)
(* from - to + const_offset holds the increment that leads from "to" towards *)
(* "from".  Its loops include the square 64, which is none.                  *)

const_offset == 119
Visited == {sq8x8_to_sq0x88(n) : n \in 0..64}
Cells == 0..(16 * 15 - 1)

d_file(sq1, sq2) == Abs(file07(sq1) - file07(sq2))
d_rank(sq1, sq2) == Abs(rank07(sq1) - rank07(sq2))
d_square(sq1, sq2) ==
  IF d_file(sq1, sq2) > d_rank(sq1, sq2) THEN d_file(sq1, sq2) ELSE d_rank(sq1, sq2)

\* Mutant: squares next to a diagonal pass for squares on it.
NearDiagonal(sq1, sq2) ==
  sq1 # sq2 /\ Abs(d_file(sq1, sq2) - d_rank(sq1, sq2)) <= 1

OnLine(sq1, sq2) == sq1 # sq2 /\ (d_file(sq1, sq2) = 0 \/ d_rank(sq1, sq2) = 0)
OnDiagonal(sq1, sq2) == sq1 # sq2 /\ d_file(sq1, sq2) = d_rank(sq1, sq2)

Cell(pair) == pair[1] - pair[2] + const_offset
\* Both squares are on a line or a diagonal, so the division has no rest.
Increment(pair) == Byte((pair[1] - pair[2]) \div d_square(pair[1], pair[2]))

\* What the writes to a table leave in it: 0 in a cell that is never written.
\* Writes for the square 64 to the numbers 247 and -9 are outside the array and
\* left out: what they hit is up to the build (padding, where a compiler aligns
\* the arrays of 240 bytes to 32).
\* All writes to a cell agree (TablesExact), so their order does not matter.
Table(pairs) ==
  [cell \in Cells |->
     LET values == {Increment(pair) : pair \in {p \in pairs : Cell(p) = cell}} IN
     IF values = {} THEN 0 ELSE CHOOSE v \in values : TRUE]

LinePairs == {p \in Visited \X Visited : OnLine(p[1], p[2])}
DiagonalPairs == {p \in Visited \X Visited : OnDiagonal(p[1], p[2])}
RookTable == Table(LinePairs)
BishopTable == Table(DiagonalPairs)
QueenTable == Table(LinePairs \union DiagonalPairs)
KingTable == Table({p \in Visited \X Visited : d_square(p[1], p[2]) = 1})

KnightIncrements == {18, 14, 33, 31, -14, -18, -31, -33}
KnightTable ==
  [cell \in Cells |->
     IF cell - const_offset \in KnightIncrements THEN Byte(cell - const_offset) ELSE 0]

\* The library reads the tables at diff_0x88.
diff_0x88(from, to) == Byte(const_offset + from - to)
rook_increment(from, to) == RookTable[diff_0x88(from, to)]
bishop_increment(from, to) == BishopTable[diff_0x88(from, to)]
queen_increment(from, to) == QueenTable[diff_0x88(from, to)]
king_increment(from, to) == KingTable[diff_0x88(from, to)]
knight_increment(from, to) == KnightTable[diff_0x88(from, to)]

----------------------------------------------------------------------------
(* The reference: pieces walk from square to square.                         *)

LineSteps == {1, -1, 16, -16}
DiagonalSteps == {15, -15, 17, -17}

\* The square n steps away; numbers off the board never come back to it.
Walk(sq, step, n) == sq + n * step
OnBoard(n) == n \in 0..127 /\ ~off_the_board(n)
Reaches(sq, step, target) ==
  \E n \in 1..7 : Walk(sq, step, n) = target /\ \A k \in 1..n : OnBoard(Walk(sq, step, k))

TowardsBy(steps, to, from) == {Byte(step) : step \in {s \in steps : Reaches(to, s, from)}}

\* Every table names, for a pair of squares, the step by which the piece walks
\* from the second to the first, and 0 when it cannot: two pairs that share a
\* cell agree on it, and the writes for the square 64 disturb no other pair.
TablesExact(from) ==
  \A to \in Board :
    LET Exact(value, steps) ==
          IF TowardsBy(steps, to, from) = {} THEN value = 0
                                             ELSE {value} = TowardsBy(steps, to, from)
    IN /\ Exact(rook_increment(from, to), LineSteps)
       /\ Exact(bishop_increment(from, to), DiagonalSteps)
       /\ Exact(queen_increment(from, to), LineSteps \union DiagonalSteps)
       /\ (king_increment(from, to) # 0)
            <=> \E step \in LineSteps \union DiagonalSteps : from = to + step
       /\ (knight_increment(from, to) # 0)
            <=> ({d_file(from, to), d_rank(from, to)} = {1, 2})

----------------------------------------------------------------------------
\* The tables of increments are those of moving pieces (vector_attack.c, main):
\* pairs of squares that share a cell never disagree.
IncrementsExact == \A from \in asked : TablesExact(from)

\* A move that went through the table of positions is itself or none (chess.h,
\* compress_move and uncompress_move).
HashMovesExact == \A from \in asked : HashMoveExact(from)
=============================================================================
