------------------------------ MODULE MCSearch ------------------------------
(* Small games for Search: one shape of nine positions, with a choice of two *)
(* static scores.  A and B transpose into D, whose stand pat hides a mate: D *)
(* to G to H.  C is a check that is also a capture; F and Z are draws, Z in  *)
(* check.  The library's is_draw, which qSearch asks, takes F for a draw in  *)
(* some of the games only; its static score is 0 in all.                     *)
EXTENDS Search, FiniteSetsExt

CONSTANTS R, A, B, C, D, F, G, H, Z

Names == {R, A, B, C, D, F, G, H, Z}
Shapes == {-1, 0, 1} \X {-1, 1}
MCNodes == Shapes \X Names
MCRoots == Shapes \X {R}

Moves == [ n \in Names |-> CASE n = R -> {A, B} [] n = A -> {C, D} [] n = B -> {D, F}
                             [] n = C -> {Z} [] n = D -> {G} [] n = G -> {H}
                             [] OTHER -> {} ]
Captures == [ n \in Names |-> CASE n = A -> {C} [] n = G -> {H} [] OTHER -> {} ]

MCSucc == [n \in MCNodes |-> {<<n[1], m>> : m \in Moves[n[2]]}]
MCTactical == [n \in MCNodes |-> {<<n[1], m>> : m \in Captures[n[2]]}]
MCInCheck == Shapes \X {C, H, Z}
MCDrawn == Shapes \X {F, Z}
MCDrawnQuiet == {n \in MCDrawn : n[1][1] # 0 /\ n[2] = F}
MCStatic == [n \in MCNodes |-> CASE n[2] = D -> n[1][1] [] n[2] = G -> n[1][2] [] OTHER -> 0]
MCMate == -8
MCRootScores == {-3, 0}
MCSlots == 1 .. 3
MCIndex == [n \in MCNodes |-> IF n[2] \in {A, C} THEN 1 ELSE IF n[2] \in {B, G} THEN 2 ELSE 3]

\* The range of the scores of a node at a depth or below it; ValuationAssumption
\* checks these tables against the game.
MCLo == [n \in MCNodes |-> [dep \in Depths |-> LET stat == MCStatic[n] IN
  CASE n[2] = H            -> -8 - MaxIter
    [] n[2] = G            -> 7 + dep
    [] n[2] = D            -> IF dep <= 0 THEN stat ELSE -8 - MaxIter
    [] n[2] \in {A, B}     -> IF dep <= 0 THEN 0
                              ELSE IF dep = 1 THEN Max({0, -n[1][1]}) ELSE 5 + dep
    [] n[2] = R /\ dep > 0 -> -8 - MaxIter
    [] OTHER               -> 0]]
MCHi == [n \in MCNodes |-> [dep \in Depths |-> LET stat == MCStatic[n] IN
  CASE n[2] = H                     -> -8 - dep
    [] n[2] = G                     -> 8 + MaxIter
    [] n[2] = D                     -> IF dep <= 0 THEN stat ELSE -6 - dep
    [] n[2] \in {A, B} /\ dep > 0   -> 8 + MaxIter
    [] OTHER                        -> 0]]
=============================================================================
