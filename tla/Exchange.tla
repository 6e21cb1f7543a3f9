----------------------------- MODULE Exchange ------------------------------
(***************************************************************************)
(* static_exchange_evaluation (src/src/see.c): what a capture and the      *)
(* recaptures on its target are worth.  qSearch passes over a capture for  *)
(* which it is negative.                                                   *)
(*                                                                         *)
(* A position is a board and the way the pawns of the side to move go;     *)
(* "friend" is the side to move.  The two lists are sequences of squares:  *)
(* the value kept with a square is always that of the piece on it.  Their  *)
(* 16 places are never exceeded on the boards considered.  A list that is  *)
(* popped when it is empty gives the zero its cells were initialised with. *)
(* Each half of the loop's body, from one capture to the next, is a step.  *)
(***************************************************************************)
EXTENDS Geometry, Sequences, SequencesExt

CONSTANT Exchanges  \* the calls: [position, from, to]

VARIABLES
  call,           \* the arguments
  at,             \* "called", "friend" or "enemy": whose capture is weighed; or "returned"
  lists,          \* attacker_list and defender_list
  value_attacker, \* what stands on the target and may be captured next
  value, alpha, beta,
  result          \* what is returned

exchangeVars == <<call, at, lists, value_attacker, value, alpha, beta, result>>

MIN_SCORE == -32767

NoPiece == [side |-> "none", kind |-> "empty"]
Border  == [side |-> "none", kind |-> "border"]

piece_value(piece) ==
  CASE piece.kind = "pawn"   -> 100
    [] piece.kind = "knight" -> 320
    [] piece.kind = "bishop" -> 330
    [] piece.kind = "rook"   -> 500
    [] piece.kind = "queen"  -> 900
    [] piece.kind = "king"   -> 9 * 900 + 2 * 500 + 2 * 330 + 2 * 320 + 1
    [] OTHER -> 0

PieceAt(p, sq) == IF sq \in DOMAIN p.board THEN p.board[sq]
                  ELSE IF off_the_board(sq) THEN Border ELSE NoPiece
SquaresOf(p, side, kind) ==
  {sq \in DOMAIN p.board : p.board[sq] = [side |-> side, kind |-> kind]}

\* Disjoint flags: a queen has the bits of a bishop and of a rook.
IsA(piece, kind) == piece.kind = kind \/ (kind \in {"bishop", "rook"} /\ piece.kind = "queen")

\* The first square along an increment that is not empty, the border included.
forwards_ray_cast(p, from, inc) ==
  LET At(n) == Byte(from + n * inc)
      first == CHOOSE n \in 1..8 : /\ PieceAt(p, At(n)) # NoPiece
                                   /\ \A k \in 1..(n - 1) : PieceAt(p, At(k)) = NoPiece
  IN At(first)

bishop_increments_list == <<241, 239, 15, 17>>
rook_increments_list == <<1, 255, 240, 16>>

ValueAt(p, sq) == piece_value(PieceAt(p, sq))

----------------------------------------------------------------------------
(* generate_attackers: every test of a pawn is made on the same side of the  *)
(* file and made twice, and all pawns go to the attackers.                   *)

PawnsAt(p, from, to) ==
  LET own   == Byte(to - p.up + 1)
      other == Byte(to - Byte(-p.up) + 1)
      Twice(sq, side) == IF sq \in SquaresOf(p, side, "pawn")
                           THEN <<sq, sq>> ELSE <<>>
  IN (IF own = from THEN <<>> ELSE Twice(own, "friend")) \o Twice(other, "enemy")

\* The moving knight itself passes the test.
KnightsAt(p, side, from, to) ==
  LET found == {sq \in SquaresOf(p, side, "knight") :
                  (side = "friend" /\ sq = from) \/ knight_increment(sq, to) # 0}
  IN SetToSeq(found)

\* Mutant: all rays begin at the target.
RayFromTarget(p, from, to, inc) == forwards_ray_cast(p, to, inc)

\* Along the line of the first capture the ray begins behind the moving piece.
RayAt(p, from, to, inc) ==
  forwards_ray_cast(p, IF queen_increment(from, to) = inc THEN from ELSE to, inc)

SlidersAt(p, side, kind, incs, from, to) ==
  LET Hit(i) == LET sq == RayAt(p, from, to, incs[i])
                    piece == PieceAt(p, sq)
                IN IF IsA(piece, kind) /\ piece.side = side THEN <<sq>> ELSE <<>>
  IN Hit(1) \o Hit(2) \o Hit(3) \o Hit(4)

KingAt(p, side, to) ==
  LET king == CHOOSE sq \in SquaresOf(p, side, "king") : TRUE IN
  IF king_increment(king, to) # 0 THEN <<king>> ELSE <<>>

PiecesAt(p, side, from, to) ==
  KnightsAt(p, side, from, to)
    \o SlidersAt(p, side, "bishop", bishop_increments_list, from, to)
    \o SlidersAt(p, side, "rook", rook_increments_list, from, to)
    \o KingAt(p, side, to)

generate_attackers(p, from, to) ==
  [friend |-> PawnsAt(p, from, to) \o PiecesAt(p, "friend", from, to),
   enemy  |-> PiecesAt(p, "enemy", from, to)]

----------------------------------------------------------------------------
(* A piece that stood behind the one that captured joins in.                 *)
update_xray_attackers(p, known, from, to) ==
  LET inc == queen_increment(from, to)
      sq == forwards_ray_cast(p, from, inc)
      kind == IF bishop_increment(from, to) # 0 THEN "bishop" ELSE "rook"
  IN IF inc = 0 \/ off_the_board(sq) \/ ~IsA(PieceAt(p, sq), kind) THEN known
     ELSE [known EXCEPT ![PieceAt(p, sq).side] = Append(@, sq)]

\* next_attacker: the first of the least valuable; the last takes its place.
Least(p, list) ==
  CHOOSE i \in 1..Len(list) :
    \A j \in 1..Len(list) : \/ ValueAt(p, list[i]) < ValueAt(p, list[j])
                            \/ ValueAt(p, list[i]) = ValueAt(p, list[j]) /\ i <= j
Popped(p, list) ==
  IF list = <<>> THEN [square |-> 0, value |-> 0]
  ELSE LET sq == list[Least(p, list)] IN [square |-> sq, value |-> ValueAt(p, sq)]
\* next_attacker of an empty list happens in the first round only, with no
\* defender: its count becomes -1 and pieces[-1] goes to pieces[0].  Nothing
\* reads either again: the square popped is 0, a corner with no ray behind it,
\* and its value 0 ends the exchange (EnemyTook).
Rest(p, list) ==
  IF list = <<>> THEN <<>>
  ELSE SubSeq([list EXCEPT ![Least(p, list)] = list[Len(list)]], 1, Len(list) - 1)

\* The lists after side has recaptured with its least valuable piece.
AfterPop(p, known, side, to) ==
  update_xray_attackers(p, [known EXCEPT ![side] = Rest(p, @)],
                        Popped(p, known[side]).square, to)

----------------------------------------------------------------------------
(* The call.  beta keeps the value of the captured piece throughout; alpha   *)
(* rises to the value after each capture of the side to move.                *)

Captured == ValueAt(call.position, call.to)
Moved == ValueAt(call.position, call.from)
IsKing(sq) == PieceAt(call.position, sq).kind = "king"

Clamp(gain) == IF gain < alpha' THEN alpha' ELSE IF gain > beta THEN beta ELSE gain

Return(score) == at' = "returned" /\ result' = score
GoOn(side) == at' = side /\ UNCHANGED result

Call ==
  /\ at = "called"
  /\ lists' = generate_attackers(call.position, call.from, call.to)
  /\ value' = Captured /\ alpha' = MIN_SCORE /\ beta' = Captured
  /\ value_attacker' = Moved
  /\ IF lists'.friend = <<>> THEN Return(value')
     ELSE IF IsKing(call.from) THEN Return(MIN_SCORE)
     ELSE GoOn("friend")
  /\ UNCHANGED call

\* Mutant: the test is left out.
NeverRefuted(gain) == FALSE

\* A capture that wins at least what was captured first ends the exchange.
Refuted(gain) == gain >= beta

\* The side to move has captured; the enemy's least valuable piece answers.
FriendTook ==
  LET next == Popped(call.position, lists.enemy) IN
  /\ at = "friend"
  /\ value' = value - value_attacker
  /\ alpha' = IF value' > alpha THEN value' ELSE alpha
  /\ lists' = AfterPop(call.position, lists, "enemy", call.to)
  /\ value_attacker' = next.value
  /\ IF Refuted(value') THEN Return(beta)
     ELSE IF alpha' > 0 THEN Return(alpha')
     ELSE IF lists'.friend = <<>> THEN Return(Clamp(value'))
     ELSE IF IsKing(next.square) THEN Return(beta)
     ELSE GoOn("enemy")
  /\ UNCHANGED <<call, beta>>

\* The enemy has recaptured; the least valuable piece of the side to move answers.
EnemyTook ==
  LET next == Popped(call.position, lists.friend) IN
  /\ at = "enemy"
  /\ value' = value + value_attacker
  /\ lists' = AfterPop(call.position, lists, "friend", call.to)
  /\ value_attacker' = next.value
  /\ UNCHANGED <<call, alpha, beta>>
  /\ IF value' <= alpha THEN Return(alpha)
     ELSE IF beta < 0 THEN Return(beta)
     ELSE IF lists'.enemy = <<>> THEN Return(Clamp(value'))
     ELSE IF IsKing(next.square) THEN Return(alpha)
     ELSE GoOn("friend")

ExchangeInit ==
  /\ call \in Exchanges
  /\ at = "called"
  /\ lists = [friend |-> <<>>, enemy |-> <<>>]
  /\ value = 0 /\ value_attacker = 0 /\ alpha = 0 /\ beta = 0 /\ result = 0

ExchangeNext == Call \/ FriendTook \/ EnemyTook

ExchangeSpec == ExchangeInit /\ [][ExchangeNext]_exchangeVars

----------------------------------------------------------------------------
(* The reference: pieces walk over the board from which the moving piece has *)
(* been taken away.                                                          *)

StepsOf(kind) ==
  CASE kind = "bishop" -> DiagonalSteps
    [] kind = "rook"   -> LineSteps
    [] OTHER -> LineSteps \union DiagonalSteps

Hits(p, gone, sq, to) ==
  LET piece == p.board[sq] IN
  CASE piece.kind = "knight" -> {d_file(sq, to), d_rank(sq, to)} = {1, 2}
    [] piece.kind = "king" -> d_square(sq, to) = 1
    [] piece.kind \in {"bishop", "rook", "queen"} ->
         \E step \in StepsOf(piece.kind), n \in 1..7 :
            /\ Walk(sq, step, n) = to
            /\ \A k \in 1..(n - 1) : /\ OnBoard(Walk(sq, step, k))
                                     /\ Walk(sq, step, k) \notin DOMAIN p.board \ gone
    [] piece.kind = "pawn" ->
         LET up == IF piece.side = "friend" THEN p.up ELSE Byte(-p.up) IN
         to \in {Byte(sq + up + 1), Byte(sq + up - 1)}

HittersOf(p, side, from, to) ==
  {sq \in DOMAIN p.board \ {from} :
     /\ p.board[sq].side = side
     /\ p.board[sq].kind # "pawn"
     /\ Hits(p, {from}, sq, to)}

\* What the program evaluates: a capture by a piece that attacks its target, on
\* a board with a king of each side.
IsPosition(p) ==
  /\ DOMAIN p.board \subseteq Board
  /\ \A sq \in DOMAIN p.board :
       p.board[sq] \in [side : {"friend", "enemy"},
                       kind : {"pawn", "knight", "bishop", "rook", "queen", "king"}]
  /\ \A side \in {"friend", "enemy"} : \E king \in Board : SquaresOf(p, side, "king") = {king}
  /\ p.up \in {16, 240}
IsCapture(p, from, to) ==
  /\ from \in DOMAIN p.board /\ p.board[from].side = "friend"
  /\ to \in Board \ {from}
  /\ Hits(p, {}, from, to)

ASSUME ExchangeAssumption ==
  \A c \in Exchanges : IsPosition(c.position) /\ IsCapture(c.position, c.from, c.to)

\* Apart from pawns, the two lists hold each piece that attacks the target of
\* the capture exactly once, those behind the moving piece included; only a
\* moving knight or king is listed as well (generate_attackers).
ListsExact(p, from, to) ==
  LET generated == generate_attackers(p, from, to)
      Places(side) == {i \in DOMAIN generated[side] :
                         PieceAt(p, generated[side][i]).kind # "pawn"}
      Listed(side) == {generated[side][i] : i \in Places(side)}
      itself == IF PieceAt(p, from).kind \in {"knight", "king"} THEN {from} ELSE {}
  IN /\ Listed("enemy") = HittersOf(p, "enemy", from, to)
     /\ Listed("friend") = HittersOf(p, "friend", from, to) \union itself
     /\ \A side \in {"friend", "enemy"} : \A i, j \in Places(side) :
          generated[side][i] = generated[side][j] => i = j

\* On every capture the lists of attackers and defenders are exact but for
\* pawns (see.c, generate_attackers).
AttackersExact == at = "called" => ListsExact(call.position, call.from, call.to)

\* However long the exchange, the side to move never gains more than it captured
\* first and, as it may stop, never loses more than the piece it moved; only a
\* king that captures is judged lost out of hand.  On the way the score stays
\* within the 16 bits of a score_cp_t, though the value of a king enters it.
ExchangesBounded ==
  /\ at = "returned" => IF IsKing(call.from) THEN result = MIN_SCORE
                        ELSE result \in (Captured - Moved)..Captured
  /\ value >= -32768 /\ value <= 32767
=============================================================================
