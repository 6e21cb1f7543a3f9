---------------------------- MODULE MCAlgorithms ----------------------------
(***************************************************************************)
(* The algorithms of Exchange, Repetition, Evaluation and Geometry against *)
(* their references.  A behaviour is an exchange that is evaluated half a  *)
(* round at a time, a game with its searches, or an input of the other     *)
(* two, to which nothing happens.                                          *)
(***************************************************************************)
EXTENDS Exchange, Evaluation, Repetition, TLC

VARIABLE algorithm  \* which of them the behaviour is about

----------------------------------------------------------------------------
(* Captures on d4, up and down the board, with supporters and defenders of   *)
(* every kind before and behind the pieces that capture.  The kings stand    *)
(* next to d4 or in a corner, and neither is in check, as in qSearch.        *)

a1 == 0  h1 == 7  c3 == 34  e3 == 36  d4 == 51  b5 == 65  c5 == 66
d5 == 67  e5 == 68  d6 == 83  f6 == 85  a8 == 112

Friend(kind) == [side |-> "friend", kind |-> kind]
Enemy(kind) == [side |-> "enemy", kind |-> kind]

HitsBy(p, side, to) ==
  {sq \in DOMAIN p.board : p.board[sq].side = side /\ Hits(p, {}, sq, to)}

MCBoards ==
  {d4 :> target @@ d5 :> onD5 @@ d6 :> onD6 @@ e5 :> onE5 @@ f6 :> onF6 @@ e3 :> onE3
     @@ b5 :> onB5 @@ friendKing :> Friend("king") @@ enemyKing :> Enemy("king") :
     target \in {Enemy("pawn"), Enemy("queen")},
     onD5 \in {NoPiece, Friend("rook"), Enemy("rook")},
     onD6 \in {NoPiece, Friend("queen"), Enemy("queen")},
     onE5 \in {NoPiece, Friend("bishop"), Enemy("pawn")},
     onF6 \in {NoPiece, Friend("queen"), Enemy("bishop")},
     onE3 \in {NoPiece, Friend("pawn"), Friend("queen")},
     onB5 \in {NoPiece, Friend("knight"), Enemy("knight")},
     friendKing \in {a1, c3, h1}, enemyKing \in {c5, a8}}

Occupied(squares) == Restrict(squares, {sq \in DOMAIN squares : squares[sq] # NoPiece})
InCheck(p, side, other) ==
  \E king \in SquaresOf(p, side, "king") : HitsBy(p, other, king) # {}

MCPositions ==
  {p \in [board : {Occupied(squares) : squares \in MCBoards}, up : {16, 240}] :
     ~InCheck(p, "friend", "enemy") /\ ~InCheck(p, "enemy", "friend")}

\* The legal captures: a king takes only what is not defended.
Captures(p) ==
  {from \in HitsBy(p, "friend", d4) :
     p.board[from].kind = "king" =>
       ~\E sq \in DOMAIN p.board \ {d4} : p.board[sq].side = "enemy" /\ Hits(p, {from}, sq, d4)}

MCExchanges ==
  UNION {{[position |-> p, from |-> from, to |-> d4] : from \in Captures(p)} : p \in MCPositions}

----------------------------------------------------------------------------
(* Evaluation: a few pieces anywhere on a small part of the board, and the   *)
(* most material a side can have.                                            *)

MCSquareTable ==
  [kind \in Kinds \union {"king"} |->
     [sq \in 0..63 |->
        LET weight == IF kind = "pawn" THEN 7 ELSE 5
            least  == IF kind = "king" THEN 200 ELSE 100
        IN ((weight * sq + 3 * (sq \div 8) * (sq % 8)) % 300) - least]]

NoPieces == [kind \in Kinds |-> {}]
Army(king, kind, squares) == ("king" :> {king}) @@ (kind :> squares) @@ NoPieces
NineQueens(king) ==
  ("king" :> {king}) @@ ("queen" :> (96..103) \union {84}) @@ ("rook" :> {0, 7})
    @@ ("knight" :> {1, 6}) @@ ("light_bishop" :> {5}) @@ ("dark_bishop" :> {2}) @@ NoPieces

MCLeaves ==
  {[white |-> IF wsquares = {} THEN NineQueens(wking) ELSE Army(wking, wkind, wsquares),
    black |-> Army(bking, bkind, bsquares), turn |-> turn, end |-> end] :
     wking \in {4, 6}, wkind \in Kinds, wsquares \in SUBSET {35, 49},
     bking \in {116, 114}, bkind \in Kinds, bsquares \in SUBSET {82, 100, 68},
     turn \in Colours, end \in {"none", "draw", "checkmate", "stalemate"}}

----------------------------------------------------------------------------
(* Games of up to nine plies among a few positions of each side, in which    *)
(* two irreversible moves may be made.                                       *)

MCKeys == {"w1", "w2", "w3", "b1", "b2", "w4", "b3", "w5", "b4", "b5"}
MCTurn == [key \in MCKeys |-> IF key \in {"w1", "w2", "w3", "w4", "w5"} THEN 0 ELSE 1]
MCProgress == [key \in MCKeys |-> IF key \in {"w1", "w2", "w3", "b1", "b2"} THEN 0
                                  ELSE IF key \in {"w4", "b3"} THEN 1 ELSE 2]

NoGame ==
  /\ ply_counter = 0 /\ ply_of_root = 0
  /\ zobrists = [i \in {0} |-> "w1"] /\ ply_of_last_irreversible_move = [i \in {0} |-> 0]

----------------------------------------------------------------------------
NoExchange ==
  /\ at = "none" /\ call = "none"
  /\ lists = [friend |-> <<>>, enemy |-> <<>>]
  /\ value = 0 /\ value_attacker = 0 /\ alpha = 0 /\ beta = 0 /\ result = 0

vars == <<algorithm, exchangeVars, repetitionVars, scored, asked>>

Init ==
  \/ algorithm = "exchange" /\ ExchangeInit /\ NoGame /\ scored = {} /\ asked = {}
  \/ algorithm = "repetition" /\ NoExchange /\ RepetitionInit /\ scored = {} /\ asked = {}
  \/ /\ algorithm = "evaluation" /\ NoExchange /\ NoGame
     /\ \E position \in Leaves : scored = {position}
     /\ asked = {}
  \/ /\ algorithm = "geometry" /\ NoExchange /\ NoGame
     /\ scored = {}
     /\ \E sq \in Board : asked = {sq}
Next ==
  \/ ExchangeNext /\ UNCHANGED <<algorithm, repetitionVars, scored, asked>>
  \/ /\ algorithm = "repetition"
     /\ RepetitionNext
     /\ UNCHANGED <<algorithm, exchangeVars, scored, asked>>
Spec == Init /\ [][Next]_vars
=============================================================================
