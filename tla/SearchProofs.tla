---------------------------- MODULE SearchProofs ----------------------------
(***************************************************************************)
(* Proofs about Search, for every game, table, window and depth.           *)
(*                                                                         *)
(* The frames of the stack are proved about one at a time: StackOK says    *)
(* what each frame looks like and how it is linked to the frame of its     *)
(* caller, and the lemmas CallKeeps, ContinueKeeps and ReturnKeeps say     *)
(* that a call, a step inside a call and a return keep that.  Each action  *)
(* of Search is one of the three.                                          *)
(***************************************************************************)
EXTENDS Search, TLAPS

Waits(f) == f.at \in {"first", "null", "full", "capture"}

MovesOf(f) == IF f.fn = "q" THEN Tactical[f.node] ELSE Succ[f.node]

Window(f) == MinScore <= f.low /\ f.low <= f.alpha /\ f.alpha < f.beta /\ f.beta <= MaxScore

\* The root frame, and a frame of abSearch or qSearch.
RootOK(f) ==
  /\ f.fn = "root" /\ f.at \in {"idle", "null", "full"}
  /\ f.node = root
  /\ 0 <= f.depth /\ f.depth <= MaxIter
  /\ f.at # "idle" => f.child \in Nodes
  /\ f.beta = IF f.at = "null" THEN f.alpha + 1 ELSE MaxScore
  /\ f.low = MinScore /\ Window(f)

FrameOK(f) ==
  /\ f.node \in Nodes
  /\ \/ f.fn = "ab" /\ f.at \in {"enter", "first", "null", "full", "loop"}
     \/ f.fn = "q" /\ f.at \in {"enter", "capture", "loop"} /\ f.depth <= 0
  /\ f.at # "enter" => ~IsDraw(f.node, f.depth) /\ (f.fn = "q" <=> Quiet(f.node, f.depth))
  /\ f.at \in {"enter", "first"} => f.alpha = f.low
  /\ f.at # "enter" => f.left \subseteq MovesOf(f)
  /\ Waits(f) => f.child \in MovesOf(f)
  /\ Window(f)

GoodFrame(f) == IF top = 0 THEN RootOK(f) ELSE FrameOK(f)

\* What a call takes from the frame of its caller.
Linked(p, c) ==
  /\ Waits(p)
  /\ c.node = p.child /\ c.depth = p.depth - 1
  /\ c.low = ChildLow(p) /\ c.beta = -p.alpha

\* What a step changes: a call adds a frame; any other step leaves every frame but
\* the last as it is, and the position of that frame, or removes it.
Called ==
  /\ top < MaxPly /\ top' = top + 1 /\ returned' = FALSE
  /\ \A i \in 0 .. top - 1 : frame'[i] = frame[i]
  /\ frame'[top].node = Top.node /\ (top > 0 => frame'[top].depth = Top.depth)

Settled ==
  /\ \A i \in 0 .. top - 1 : frame'[i] = frame[i]
  /\ \/ /\ top' = top /\ returned' = FALSE
        /\ frame'[top].node = Top.node /\ frame'[top].depth = Top.depth
     \/ top > 0 /\ top' = top - 1 /\ returned' = TRUE

\* A call searches a new move, or the move that has just been searched.
Starts == ~returned /\ \E m \in Nodes : MakeMove(m) /\ frame'[top].child = m
Repeats == returned /\ UNCHANGED positionVars /\ frame'[top].child = Top.child

SameCall(f, g) == f.node = g.node /\ f.depth = g.depth /\ f.low = g.low /\ f.beta = g.beta

StackOK ==
  /\ RootOK(frame[0])
  /\ \A i \in 1 .. top : FrameOK(frame[i]) /\ Linked(frame[i - 1], frame[i])
  /\ returned <=> Waits(frame[top])

-----------------------------------------------------------------------------
(* The records of the stack.                                                *)

LEMMA NewFrameIs ==
  ASSUME NEW fn \in Functions, NEW n \in NodeOrNone, NEW d \in Int,
         NEW low \in Int, NEW beta \in Int
  PROVE  LET f == NewFrame(fn, n, d, low, beta) IN
         /\ f \in Frames /\ f.fn = fn /\ f.at = "enter" /\ f.node = n /\ f.depth = d
         /\ f.low = low /\ f.alpha = low /\ f.beta = beta /\ f.left = {}
<1>1. "enter" \in Places /\ {} \in NodeSets /\ NoNode \in NodeOrNone
  BY DEF Places, NodeSets, NodeOrNone
<1>. QED BY <1>1, SMT DEF NewFrame, Frames

LEMMA UnusedIs == Unused \in Frames
<1>1. "none" \in Functions /\ NoNode \in NodeOrNone /\ 0 \in Int
  BY DEF Functions, NodeOrNone
<1>2. \A fn \in Functions, n \in NodeOrNone : NewFrame(fn, n, 0, 0, 0) \in Frames
  BY <1>1, NewFrameIs, Zenon
<1>3. NewFrame("none", NoNode, 0, 0, 0) \in Frames
  BY <1>1, <1>2, Zenon
<1>. QED BY <1>3, Zenon DEF Unused

LEMMA SearchesMove ==
  ASSUME NEW f \in Frames, NEW at \in Places, NEW m \in NodeOrNone, NEW L \in NodeSets
  PROVE  LET g == Searching(f, at, m, L) IN
         /\ g \in Frames /\ g.fn = f.fn /\ g.at = at /\ SameCall(g, f)
         /\ g.alpha = f.alpha /\ g.best = f.best /\ g.left = L /\ g.child = m
<1>. DEFINE g == [f EXCEPT !.at = at, !.child = m, !.left = L]
<1>0. Searching(f, at, m, L) = g
  BY DEF Searching
<1>1. g \in Frames
  <2>. DEFINE g1 == [f EXCEPT !.at = at]
              g2 == [g1 EXCEPT !.child = m]
  <2>1. g1 \in Frames
    BY SMT DEF Frames
  <2>2. g2 \in Frames
    <3>. HIDE DEF g1
    <3>. QED BY <2>1, SMT DEF Frames
  <2>3. [g2 EXCEPT !.left = L] \in Frames
    <3>. HIDE DEF g2
    <3>. QED BY <2>2, SMT DEF Frames
  <2>4. g = [g2 EXCEPT !.left = L]
    BY Zenon DEF g
  <2>. QED BY <2>3, <2>4
<1>2. /\ g.fn = f.fn /\ g.at = at /\ g.left = L /\ g.child = m
      /\ g.node = f.node /\ g.depth = f.depth /\ g.low = f.low /\ g.beta = f.beta
      /\ g.alpha = f.alpha /\ g.best = f.best
  BY SMT DEF Frames
<1>. QED BY <1>0, <1>1, <1>2 DEF SameCall

LEMMA GoesTo ==
  ASSUME NEW f \in Frames, NEW at \in Places
  PROVE  LET g == [f EXCEPT !.at = at] IN
         /\ g \in Frames /\ g.fn = f.fn /\ g.at = at /\ SameCall(g, f)
         /\ g.alpha = f.alpha /\ g.best = f.best /\ g.left = f.left /\ g.child = f.child
BY SMT DEF Frames, SameCall

LEMMA BecomesCall ==
  ASSUME NEW f \in Frames, NEW fn \in Functions
  PROVE  LET g == [f EXCEPT !.fn = fn] IN
         /\ g \in Frames /\ g.fn = fn /\ g.at = f.at /\ SameCall(g, f)
         /\ g.alpha = f.alpha /\ g.best = f.best /\ g.left = f.left /\ g.child = f.child
BY SMT DEF Frames, SameCall

LEMMA Max2Is ==
  ASSUME NEW a \in Int, NEW b \in Int
  PROVE  /\ Max2(a, b) \in Int /\ Max2(a, b) >= a /\ Max2(a, b) >= b
         /\ Max2(a, b) = a \/ Max2(a, b) = b
BY SMT DEF Max2

LEMMA BetterIs ==
  ASSUME NEW f \in Frames, NEW s \in Int
  PROVE  LET g == Better(f, s) IN
         /\ g \in Frames /\ g.fn = f.fn /\ g.at = "loop" /\ SameCall(g, f)
         /\ g.alpha = Max2(f.alpha, s) /\ g.best = s /\ g.left = f.left
         /\ g.child = f.child
<1>1. f.alpha \in Int
  BY SMT DEF Frames
<1>2. Max2(f.alpha, s) \in Int
  BY <1>1, Max2Is
<1>. DEFINE a == Max2(f.alpha, s)
<1>3. Better(f, s) = [f EXCEPT !.at = "loop", !.best = s, !.alpha = a]
  BY Zenon DEF Better
<1>4. a \in Int
  BY <1>2
<1>. HIDE DEF a
<1>5. "loop" \in Places
  BY DEF Places
<1>. DEFINE g == [f EXCEPT !.at = "loop", !.best = s, !.alpha = a]
<1>6. g \in Frames
  <2>. DEFINE g1 == [f EXCEPT !.at = "loop"]
              g2 == [g1 EXCEPT !.best = s]
  <2>1. g1 \in Frames
    BY <1>5, SMT DEF Frames
  <2>2. g2 \in Frames
    <3>. HIDE DEF g1
    <3>. QED BY <2>1, SMT DEF Frames
  <2>3. [g2 EXCEPT !.alpha = a] \in Frames
    <3>. HIDE DEF g2
    <3>. QED BY <1>4, <2>2, SMT DEF Frames
  <2>4. g = [g2 EXCEPT !.alpha = a]
    BY Zenon DEF g
  <2>. QED BY <2>3, <2>4
<1>7. /\ g.fn = f.fn /\ g.at = "loop" /\ g.left = f.left /\ g.child = f.child
      /\ g.node = f.node /\ g.depth = f.depth /\ g.low = f.low /\ g.beta = f.beta
      /\ g.alpha = a /\ g.best = s
  BY <1>4, <1>5, SMT DEF Frames
<1>. QED BY <1>3, <1>6, <1>7 DEF SameCall, a

LEMMA RootSearchesMove ==
  ASSUME NEW f \in Frames, NEW at \in Places, NEW d \in Int, NEW m \in NodeOrNone,
         NEW low \in Int, NEW beta \in Int
  PROVE  LET g == AsksFor(f, at, d, m, low, beta) IN
         /\ g \in Frames /\ g.fn = f.fn /\ g.at = at /\ g.node = f.node
         /\ g.depth = d /\ g.low = f.low /\ g.alpha = -beta /\ g.beta = -low
         /\ g.child = m
<1>. DEFINE g1 == [f EXCEPT !.at = at]
            g2 == [g1 EXCEPT !.depth = d]
            g3 == [g2 EXCEPT !.child = m]
            a == -beta
            b == -low
            g4 == [g3 EXCEPT !.alpha = a]
            g5 == [g4 EXCEPT !.beta = b]
<1>0. a \in Int /\ b \in Int
  OBVIOUS
<1>1. g1 \in Frames /\ g1.fn = f.fn /\ g1.at = at /\ g1.node = f.node /\ g1.low = f.low
  BY SMT DEF Frames
<1>2. /\ g2 \in Frames /\ g2.fn = f.fn /\ g2.at = at /\ g2.node = f.node /\ g2.low = f.low
      /\ g2.depth = d
  <2>. HIDE DEF g1
  <2>. QED BY <1>1, SMT DEF Frames
<1>3. /\ g3 \in Frames /\ g3.fn = f.fn /\ g3.at = at /\ g3.node = f.node /\ g3.low = f.low
      /\ g3.depth = d /\ g3.child = m
  <2>. HIDE DEF g2
  <2>. QED BY <1>2, SMT DEF Frames
<1>4. /\ g4 \in Frames /\ g4.fn = f.fn /\ g4.at = at /\ g4.node = f.node /\ g4.low = f.low
      /\ g4.depth = d /\ g4.child = m /\ g4.alpha = a
  <2>. HIDE DEF g3, a
  <2>. QED BY <1>0, <1>3, SMT DEF Frames
<1>5. /\ g5 \in Frames /\ g5.fn = f.fn /\ g5.at = at /\ g5.node = f.node /\ g5.low = f.low
      /\ g5.depth = d /\ g5.child = m /\ g5.alpha = a /\ g5.beta = b
  <2>. HIDE DEF g4, a, b
  <2>. QED BY <1>0, <1>4, SMT DEF Frames
<1>6. AsksFor(f, at, d, m, low, beta) = g5
  BY Zenon DEF AsksFor, g1, g2, g3, g4, g5
<1>. HIDE DEF g5
<1>. QED BY <1>5, <1>6

LEMMA RootAsksAgain ==
  ASSUME NEW f \in Frames, NEW b \in Int
  PROVE  LET g == [f EXCEPT !.at = "full", !.beta = b] IN
         /\ g \in Frames /\ g.fn = f.fn /\ g.at = "full" /\ g.node = f.node
         /\ g.depth = f.depth /\ g.low = f.low /\ g.alpha = f.alpha /\ g.beta = b
         /\ g.child = f.child
<1>1. "full" \in Places
  BY DEF Places
<1>. DEFINE g1 == [f EXCEPT !.at = "full"]
            g2 == [g1 EXCEPT !.beta = b]
<1>2. /\ g1 \in Frames /\ g1.fn = f.fn /\ g1.at = "full" /\ g1.node = f.node
      /\ g1.depth = f.depth /\ g1.low = f.low /\ g1.alpha = f.alpha /\ g1.child = f.child
  BY <1>1, SMT DEF Frames
<1>3. /\ g2 \in Frames /\ g2.fn = f.fn /\ g2.at = "full" /\ g2.node = f.node
      /\ g2.depth = f.depth /\ g2.low = f.low /\ g2.alpha = f.alpha /\ g2.child = f.child
      /\ g2.beta = b
  <2>. HIDE DEF g1
  <2>. QED BY <1>2, SMT DEF Frames
<1>4. [f EXCEPT !.at = "full", !.beta = b] = g2
  BY Zenon DEF g1, g2
<1>. HIDE DEF g2
<1>. QED BY <1>3, <1>4

LEMMA RootFrameIs ==
  ASSUME NEW n \in Nodes, NEW d \in Int
  PROVE  LET f == RootFrame(n, d) IN
         /\ f \in Frames /\ f.fn = "root" /\ f.at = "idle" /\ f.node = n /\ f.depth = d
         /\ f.low = MinScore /\ f.alpha = MinScore /\ f.beta = MaxScore
<1>. DEFINE g == NewFrame("root", n, d, MinScore, MaxScore)
<1>1. "root" \in Functions /\ n \in NodeOrNone /\ "idle" \in Places
  BY DEF Functions, NodeOrNone, Places
<1>2. MinScore \in Int /\ MaxScore \in Int
  BY BoundAssumption DEF MinScore
<1>3. /\ g \in Frames /\ g.fn = "root" /\ g.node = n /\ g.depth = d
      /\ g.low = MinScore /\ g.alpha = MinScore /\ g.beta = MaxScore
  BY <1>1, <1>2, NewFrameIs
<1>. HIDE DEF g
<1>4. LET f == [g EXCEPT !.at = "idle"] IN
      /\ f \in Frames /\ f.fn = g.fn /\ f.at = "idle" /\ SameCall(f, g) /\ f.alpha = g.alpha
  BY <1>1, <1>3, GoesTo
<1>. QED BY <1>3, <1>4, Zenon DEF RootFrame, g, SameCall

-----------------------------------------------------------------------------
(* A call, a step inside a call and a return.                               *)

StackTypes ==
  /\ frame \in [Plies -> Frames]
  /\ top \in Plies
  /\ returned \in BOOLEAN
  /\ ret \in Int

LEMMA PliesAre == 0 \in Plies /\ Plies \subseteq Int /\ \A p \in Plies : 0 .. p \subseteq Plies
BY BoundAssumption DEF Plies

\* What is known of the frame that runs.
LEMMA TopIs ==
  ASSUME StackTypes, StackOK
  PROVE  /\ Top \in Frames /\ top \in Nat /\ Top = frame[top]
         /\ Top.depth \in Int /\ Top.low \in Int /\ Top.alpha \in Int
         /\ Top.beta \in Int /\ Top.best \in Int /\ ret \in Int /\ Score \in Int
         /\ top = 0 => RootOK(Top)
         /\ top > 0 => FrameOK(Top)
         /\ top > 0 <=> Top.fn # "root"
         /\ returned <=> Waits(Top)
<1>1. Top \in Frames /\ top \in Nat /\ Top = frame[top]
  BY BoundAssumption DEF StackTypes, Plies, Top
<1>2. /\ Top.depth \in Int /\ Top.low \in Int /\ Top.alpha \in Int
      /\ Top.beta \in Int /\ Top.best \in Int
  BY <1>1 DEF Frames
<1>3. ret \in Int /\ Score \in Int
  BY DEF StackTypes, Score
<1>4. top = 0 => RootOK(Top)
  BY <1>1 DEF StackOK
<1>5. top > 0 => FrameOK(Top)
  BY <1>1 DEF StackOK
<1>6. top > 0 <=> Top.fn # "root"
  BY <1>1, <1>4, <1>5 DEF RootOK, FrameOK
<1>7. returned <=> Waits(Top)
  BY <1>1 DEF StackOK
<1>. QED BY <1>1, <1>2, <1>3, <1>4, <1>5, <1>6, <1>7

LEMMA CallKeeps ==
  ASSUME StackTypes, StackOK, UNCHANGED root,
         NEW f \in Frames, NEW fn \in {"ab", "q"}, NEW low \in Int, NEW beta \in Int,
         CallFor(f, fn, low, beta), GoodFrame(f), Waits(f), f.child \in Nodes,
         top > 0 => SameCall(f, Top),
         fn = "q" => f.depth <= 0,
         low = ChildLow(f), beta = -f.alpha,
         MinScore <= low, low < beta, beta <= MaxScore
  PROVE  /\ StackTypes' /\ StackOK'
         /\ top < MaxPly /\ top' = top + 1 /\ frame'[top] = f
         /\ frame'[top + 1] = NewFrame(fn, f.child, f.depth - 1, low, beta)
         /\ Called
<1>. DEFINE g == NewFrame(fn, f.child, f.depth - 1, low, beta)
<1>1. f.depth \in Int /\ f.child \in NodeOrNone /\ fn \in Functions /\ f.alpha \in Int
  BY SMT DEF Frames, NodeOrNone, Functions
<1>2. /\ g \in Frames /\ g.fn = fn /\ g.at = "enter" /\ g.node = f.child
      /\ g.depth = f.depth - 1 /\ g.low = low /\ g.alpha = low /\ g.beta = beta
      /\ g.left = {}
  <2>1. f.depth - 1 \in Int
    BY <1>1
  <2>. QED BY <1>1, <2>1, NewFrameIs
<1>. HIDE DEF g
<1>3. top \in Nat /\ top + 1 \in Plies /\ top \in Plies /\ top < MaxPly
  BY BoundAssumption DEF CallFor, StackTypes, Plies
<1>4. /\ frame' \in [Plies -> Frames] /\ frame'[top] = f /\ frame'[top + 1] = g
      /\ \A i \in Plies : i # top /\ i # top + 1 => frame'[i] = frame[i]
  BY <1>2, <1>3, SMT DEF CallFor, StackTypes, g
<1>5. top' = top + 1 /\ returned' = FALSE /\ ret' = ret
  BY DEF CallFor
<1>6. \A i \in 0 .. top - 1 : frame'[i] = frame[i]
  BY BoundAssumption, <1>3, <1>4 DEF Plies
<1>7. FrameOK(g)
  BY <1>1, <1>2 DEF FrameOK, Window, Waits
<1>8. RootOK(frame[0])'
  <2>1. CASE top = 0
    BY <2>1, <1>4 DEF GoodFrame, RootOK
  <2>2. CASE top # 0
    BY <2>2, <1>3, <1>6 DEF StackOK, RootOK
  <2>. QED BY <2>1, <2>2
<1>9. Linked(f, g)
  BY <1>2 DEF Linked
<1>10. ASSUME NEW i \in 1 .. top + 1
       PROVE  FrameOK(frame'[i]) /\ Linked(frame'[i - 1], frame'[i])
  <2>1. CASE i = top + 1
    BY <2>1, <1>3, <1>4, <1>7, <1>9
  <2>2. CASE i = top
    <3>1. top > 0 /\ FrameOK(f) /\ SameCall(f, Top) /\ frame'[top] = f
      BY <2>2, <1>3, <1>4 DEF GoodFrame
    <3>2. frame'[top - 1] = frame[top - 1]
      BY <3>1, <1>3, <1>6
    <3>3. Linked(frame[top - 1], Top)
      BY <3>1, <1>3 DEF StackOK, Top
    <3>4. Linked(frame[top - 1], f)
      BY <3>1, <3>3 DEF Linked, SameCall
    <3>. QED BY <2>2, <3>1, <3>2, <3>4
  <2>3. CASE i < top
    BY <2>3, <1>3, <1>6 DEF StackOK
  <2>. QED BY <2>1, <2>2, <2>3, <1>3
<1>11. ~Waits(g)
  BY <1>2 DEF Waits
<1>12. StackOK'
  BY <1>5, <1>8, <1>10, <1>11, <1>4 DEF StackOK
<1>13. StackTypes'
  BY <1>3, <1>4, <1>5 DEF StackTypes
<1>14. f.node = Top.node /\ (top > 0 => f.depth = Top.depth)
  <2>1. CASE top = 0
    BY <2>1, TopIs DEF GoodFrame, RootOK
  <2>2. CASE top > 0
    BY <2>2 DEF SameCall
  <2>. QED BY <2>1, <2>2, <1>3
<1>15. Called
  BY <1>3, <1>4, <1>5, <1>6, <1>14 DEF Called
<1>. QED BY <1>3, <1>4, <1>5, <1>12, <1>13, <1>15 DEF g

LEMMA ContinueKeeps ==
  ASSUME StackTypes, StackOK, UNCHANGED root, NEW f \in Frames,
         frame' = [frame EXCEPT ![top] = f], UNCHANGED <<top, ret>>, returned' = FALSE,
         GoodFrame(f), ~Waits(f), top > 0 => SameCall(f, Top), top > 0 \/ f.depth = Top.depth
  PROVE  StackTypes' /\ StackOK' /\ Settled /\ frame'[top] = f
<1>1. top \in Nat /\ top \in Plies
  BY BoundAssumption DEF StackTypes, Plies
<1>2. /\ frame' \in [Plies -> Frames] /\ frame'[top] = f
      /\ \A i \in Plies : i # top => frame'[i] = frame[i]
  BY <1>1 DEF StackTypes
<1>3. \A i \in 0 .. top - 1 : frame'[i] = frame[i]
  BY BoundAssumption, <1>1, <1>2 DEF Plies
<1>4. RootOK(frame[0])'
  <2>1. CASE top = 0
    BY <2>1, <1>2 DEF GoodFrame, RootOK
  <2>2. CASE top # 0
    BY <2>2, <1>1, <1>3 DEF StackOK, RootOK
  <2>. QED BY <2>1, <2>2
<1>5. ASSUME NEW i \in 1 .. top
      PROVE  FrameOK(frame'[i]) /\ Linked(frame'[i - 1], frame'[i])
  <2>1. CASE i = top
    <3>1. top > 0 /\ FrameOK(f) /\ SameCall(f, Top) /\ frame'[top] = f
      BY <2>1, <1>1, <1>2 DEF GoodFrame
    <3>2. frame'[top - 1] = frame[top - 1]
      BY <3>1, <1>1, <1>3
    <3>3. Linked(frame[top - 1], Top)
      BY <3>1, <1>1 DEF StackOK, Top
    <3>4. Linked(frame[top - 1], f)
      BY <3>1, <3>3 DEF Linked, SameCall
    <3>. QED BY <2>1, <3>1, <3>2, <3>4
  <2>2. CASE i < top
    BY <2>2, <1>1, <1>3 DEF StackOK
  <2>. QED BY <2>1, <2>2, <1>1
<1>6. StackOK'
  BY <1>2, <1>4, <1>5 DEF StackOK
<1>7. StackTypes'
  BY <1>2 DEF StackTypes
<1>8. f.node = Top.node /\ f.depth = Top.depth
  <2>1. CASE top = 0
    BY <2>1, TopIs DEF GoodFrame, RootOK
  <2>2. CASE top > 0
    BY <2>2 DEF SameCall
  <2>. QED BY <2>1, <2>2, <1>1
<1>9. Settled
  BY <1>2, <1>3, <1>8 DEF Settled
<1>. QED BY <1>2, <1>6, <1>7, <1>9

LEMMA ReturnKeeps ==
  ASSUME StackTypes, StackOK, UNCHANGED root, NEW s \in Int, ReturnScore(s), top > 0
  PROVE  /\ StackTypes' /\ StackOK'
         /\ top' = top - 1 /\ returned' = TRUE /\ ret' = s
         /\ Settled /\ Linked(frame[top - 1], Top)
<1>1. top \in Nat /\ top \in Plies /\ top - 1 \in Plies
  BY BoundAssumption DEF StackTypes, Plies
<1>2. Unused \in Frames
  BY UnusedIs
<1>3. /\ frame' \in [Plies -> Frames]
      /\ \A i \in Plies : i # top => frame'[i] = frame[i]
  BY <1>1, <1>2 DEF StackTypes, ReturnScore
<1>4. \A i \in 0 .. top - 1 : frame'[i] = frame[i]
  BY BoundAssumption, <1>1, <1>3 DEF Plies
<1>5. top' = top - 1 /\ returned' = TRUE /\ ret' = s
  BY DEF ReturnScore
<1>6. RootOK(frame[0])'
  BY <1>1, <1>4 DEF StackOK, RootOK
<1>7. \A i \in 1 .. top - 1 : FrameOK(frame'[i]) /\ Linked(frame'[i - 1], frame'[i])
  BY <1>1, <1>4 DEF StackOK
<1>8. Linked(frame[top - 1], Top)
  BY <1>1 DEF StackOK, Top
<1>9. Waits(frame'[top - 1])
  BY <1>1, <1>4, <1>8 DEF Linked
<1>10. StackOK'
  BY <1>5, <1>6, <1>7, <1>9 DEF StackOK
<1>11. StackTypes'
  BY <1>1, <1>3, <1>5 DEF StackTypes
<1>12. Settled
  BY <1>4, <1>5 DEF Settled
<1>. QED BY <1>5, <1>8, <1>10, <1>11, <1>12

-----------------------------------------------------------------------------
(* The actions of abSearch.                                                 *)

LEMMA GameTypes ==
  ASSUME NEW n \in Nodes
  PROVE  /\ Succ[n] \subseteq Nodes /\ Tactical[n] \subseteq Nodes
         /\ StandPat(n) \in Int /\ \A d \in Int : NoMoveScore(n, d) \in Int
BY GameAssumption DEF StandPat, NoMoveScore

LEMMA EnterQuietStack ==
  ASSUME StackTypes, StackOK, EnterQuiet
  PROVE  StackTypes' /\ StackOK' /\ Settled
<1>. DEFINE f == [Top EXCEPT !.fn = "q"]
<1>1. /\ top > 0 /\ FrameOK(Top) /\ Top.at = "enter" /\ ~returned /\ Top \in Frames
      /\ Quiet(Top.node, Top.depth)
  BY TopIs DEF EnterQuiet, Enters, At
<1>2. /\ f \in Frames /\ f.fn = "q" /\ f.at = "enter" /\ SameCall(f, Top)
      /\ f.alpha = Top.alpha /\ f.left = Top.left
  <2>1. "q" \in Functions
    BY DEF Functions
  <2>. QED BY <1>1, <2>1, BecomesCall
<1>3. frame' = [frame EXCEPT ![top] = f] /\ UNCHANGED <<root, top, ret>> /\ returned' = FALSE
  BY <1>1 DEF EnterQuiet, Top, goVars
<1>. HIDE DEF f
<1>4. GoodFrame(f) /\ ~Waits(f)
  BY <1>1, <1>2 DEF GoodFrame, FrameOK, Waits, Window, SameCall, Quiet
<1>. QED BY <1>1, <1>2, <1>3, <1>4, ContinueKeeps

LEMMA ReturnDrawStack ==
  ASSUME StackTypes, StackOK, ReturnDraw
  PROVE  StackTypes' /\ StackOK' /\ Settled
<1>1. top > 0
  BY TopIs DEF ReturnDraw, Searches, Enters, At
<1>2. ReturnScore(0) /\ UNCHANGED root
  BY DEF ReturnDraw, goVars
<1>3. 0 \in Int
  OBVIOUS
<1>. QED BY <1>1, <1>2, <1>3, ReturnKeeps, Zenon

LEMMA ReturnEntryStack ==
  ASSUME TypeOK, StackOK, ReturnEntry
  PROVE  StackTypes' /\ StackOK' /\ Settled
<1>0. StackTypes
  BY DEF TypeOK, StackTypes
<1>1. top > 0 /\ FrameOK(Top)
  BY <1>0, TopIs DEF ReturnEntry, Searches, Enters, At
<1>. DEFINE e == table[Index[Top.node]]
<1>2. e \in Entries \union {NoEntry} /\ e # NoEntry
  <2>1. Index[Top.node] \in Slots
    BY <1>1, TableAssumption DEF FrameOK
  <2>. QED BY <2>1 DEF TypeOK, ReturnEntry, Usable
<1>3. e.score \in Int
  BY <1>2 DEF Entries
<1>4. ReturnScore(e.score) /\ UNCHANGED root
  BY DEF ReturnEntry, goVars
<1>. HIDE DEF e
<1>. QED BY <1>0, <1>1, <1>3, <1>4, ReturnKeeps

LEMMA ReturnNoMoveStack ==
  ASSUME StackTypes, StackOK, ReturnNoMove
  PROVE  StackTypes' /\ StackOK' /\ Settled
<1>1. top > 0 /\ FrameOK(Top) /\ Top.depth \in Int
  BY TopIs DEF ReturnNoMove, MustSearch, Searches, Enters, At
<1>2. NoMoveScore(Top.node, Top.depth) \in Int
  BY <1>1, GameTypes DEF FrameOK
<1>. QED BY <1>1, <1>2, ReturnKeeps DEF ReturnNoMove, goVars

LEMMA FirstMoveStack ==
  ASSUME StackTypes, StackOK, FirstMove
  PROVE  StackTypes' /\ StackOK' /\ Called /\ Starts
<1>1. /\ top > 0 /\ FrameOK(Top) /\ Top.fn = "ab" /\ Top.at = "enter"
      /\ ~IsDraw(Top.node, Top.depth) /\ ~Quiet(Top.node, Top.depth)
      /\ Top \in Frames /\ Top.alpha \in Int /\ Top.beta \in Int
  BY TopIs DEF FirstMove, MustSearch, Searches, Enters, At, IsDraw
<1>2. PICK m \in Succ[Top.node] :
        /\ CallFor(Searching(Top, "first", m, Succ[Top.node] \ {m}), "ab", -Top.beta, -Top.alpha)
        /\ MakeMove(m)
  BY DEF FirstMove
<1>. DEFINE L == Succ[Top.node] \ {m}
            f == Searching(Top, "first", m, L)
<1>3. m \in Nodes /\ L \in NodeSets /\ "first" \in Places /\ m \in NodeOrNone
  BY <1>1, GameTypes DEF FrameOK, NodeSets, Places, NodeOrNone
<1>4. L \subseteq Succ[Top.node]
  OBVIOUS
<1>. HIDE DEF L
<1>5. /\ f \in Frames /\ f.fn = "ab" /\ f.at = "first" /\ SameCall(f, Top)
      /\ f.alpha = Top.alpha /\ f.left = L /\ f.child = m
  BY <1>1, <1>3, SearchesMove
<1>6. CallFor(f, "ab", -Top.beta, -Top.alpha)
  BY <1>2 DEF L
<1>. HIDE DEF f
<1>7. FrameOK(f) /\ Waits(f)
  BY <1>1, <1>4, <1>5 DEF FrameOK, Waits, Window, SameCall, MovesOf
<1>8. /\ -Top.beta = ChildLow(f) /\ -Top.alpha = -f.alpha
      /\ MinScore <= -Top.beta /\ -Top.beta < -Top.alpha /\ -Top.alpha <= MaxScore
      /\ -Top.beta \in Int /\ -Top.alpha \in Int
  BY <1>1, <1>5, BoundAssumption, TopIs DEF FrameOK, Window, ChildLow, SameCall, MinScore
<1>9. UNCHANGED root
  BY DEF FirstMove, goVars
<1>20. StackTypes' /\ StackOK' /\ Called /\ frame'[top] = f
  BY <1>1, <1>3, <1>5, <1>6, <1>7, <1>8, <1>9, CallKeeps DEF GoodFrame
<1>21. Starts
  BY <1>1, <1>2, <1>3, <1>5, <1>20, TopIs DEF Starts, Waits
<1>. QED BY <1>20, <1>21

\* A call that waited goes on with a better score, or with the one it had.
LEMMA BetterStack ==
  ASSUME StackTypes, StackOK, UNCHANGED root, top > 0, Top.at # "enter",
         NEW s \in Int, s < Top.beta, Continue(Better(Top, s))
  PROVE  StackTypes' /\ StackOK' /\ Settled
<1>. DEFINE f == Better(Top, s)
<1>1. FrameOK(Top) /\ Top \in Frames /\ Top.alpha \in Int /\ Top.beta \in Int /\ Top.low \in Int
  BY TopIs
<1>2. /\ f \in Frames /\ f.fn = Top.fn /\ f.at = "loop" /\ SameCall(f, Top)
      /\ f.alpha = Max2(Top.alpha, s) /\ f.left = Top.left
  BY <1>1, BetterIs
<1>3. /\ Max2(Top.alpha, s) \in Int /\ Max2(Top.alpha, s) >= Top.alpha
      /\ Max2(Top.alpha, s) = Top.alpha \/ Max2(Top.alpha, s) = s
  BY <1>1, Max2Is
<1>4. /\ frame' = [frame EXCEPT ![top] = f] /\ UNCHANGED <<top, ret>> /\ returned' = FALSE
  BY DEF Continue
<1>. HIDE DEF f
<1>5. Window(f)
  BY <1>1, <1>2, <1>3, BoundAssumption DEF FrameOK, Window, SameCall, MinScore
<1>6. FrameOK(f) /\ ~Waits(f)
  BY <1>1, <1>2, <1>5 DEF FrameOK, Waits, SameCall, MovesOf
<1>7. GoodFrame(f)
  BY <1>6 DEF GoodFrame
<1>. QED BY <1>2, <1>4, <1>6, <1>7, ContinueKeeps

LEMMA LoopStack ==
  ASSUME StackTypes, StackOK, UNCHANGED root, top > 0, Top.at # "enter",
         Continue([Top EXCEPT !.at = "loop"])
  PROVE  StackTypes' /\ StackOK' /\ Settled
<1>. DEFINE f == [Top EXCEPT !.at = "loop"]
<1>1. FrameOK(Top) /\ Top \in Frames
  BY TopIs
<1>2. /\ f \in Frames /\ f.fn = Top.fn /\ f.at = "loop" /\ SameCall(f, Top)
      /\ f.alpha = Top.alpha /\ f.left = Top.left
  <2>1. "loop" \in Places
    BY DEF Places
  <2>. QED BY <1>1, <2>1, GoesTo
<1>3. /\ frame' = [frame EXCEPT ![top] = f] /\ UNCHANGED <<top, ret>> /\ returned' = FALSE
  BY DEF Continue
<1>. HIDE DEF f
<1>4. FrameOK(f) /\ ~Waits(f)
  BY <1>1, <1>2 DEF FrameOK, Waits, Window, SameCall, MovesOf
<1>5. GoodFrame(f)
  BY <1>4 DEF GoodFrame
<1>. QED BY <1>2, <1>3, <1>4, <1>5, ContinueKeeps

LEMMA FirstReturnsStack ==
  ASSUME StackTypes, StackOK, FirstReturns
  PROVE  StackTypes' /\ StackOK' /\ Settled
<1>1. top > 0 /\ Top.at = "first" /\ Score \in Int
  BY TopIs DEF FirstReturns, At
<1>2. UNCHANGED root
  BY DEF FirstReturns, goVars
<1>3. CASE Score >= Top.beta /\ CutOff(Score)
  <2>1. ReturnScore(Score)
    BY <1>3 DEF CutOff
  <2>. QED BY <1>1, <1>2, <2>1, ReturnKeeps
<1>4. CASE Score < Top.beta /\ Continue(Better(Top, Score))
  BY <1>1, <1>2, <1>4, BetterStack
<1>. QED BY <1>3, <1>4 DEF FirstReturns

LEMMA NextMoveStack ==
  ASSUME StackTypes, StackOK, NextMove
  PROVE  StackTypes' /\ StackOK' /\ Called /\ Starts
<1>1. /\ top > 0 /\ FrameOK(Top) /\ Top.fn = "ab" /\ Top.at = "loop"
      /\ Top \in Frames /\ Top.alpha \in Int /\ Top.beta \in Int /\ Top.low \in Int
  BY TopIs DEF NextMove, At
<1>2. PICK m \in Top.left :
        /\ CallFor(Searching(Top, "null", m, Top.left \ {m}), "ab", -Top.alpha - 1, -Top.alpha)
        /\ MakeMove(m)
  BY DEF NextMove
<1>. DEFINE L == Top.left \ {m}
            f == Searching(Top, "null", m, L)
<1>3. L \subseteq Succ[Top.node] /\ m \in Succ[Top.node]
  BY <1>1 DEF FrameOK, MovesOf
<1>4. m \in Nodes /\ L \in NodeSets /\ "null" \in Places /\ m \in NodeOrNone
  BY <1>1, <1>3, GameTypes DEF FrameOK, NodeSets, Places, NodeOrNone
<1>. HIDE DEF L
<1>5. /\ f \in Frames /\ f.fn = "ab" /\ f.at = "null" /\ SameCall(f, Top)
      /\ f.alpha = Top.alpha /\ f.left = L /\ f.child = m
  BY <1>1, <1>4, SearchesMove
<1>6. CallFor(f, "ab", -Top.alpha - 1, -Top.alpha)
  BY <1>2 DEF L
<1>. HIDE DEF f
<1>7. FrameOK(f) /\ Waits(f)
  BY <1>1, <1>3, <1>5 DEF FrameOK, Waits, Window, SameCall, MovesOf
<1>8. /\ -Top.alpha - 1 = ChildLow(f) /\ -Top.alpha = -f.alpha
      /\ MinScore <= -Top.alpha - 1 /\ -Top.alpha - 1 < -Top.alpha /\ -Top.alpha <= MaxScore
      /\ -Top.alpha - 1 \in Int /\ -Top.alpha \in Int
  BY <1>1, <1>5, BoundAssumption DEF FrameOK, Window, ChildLow, SameCall, MinScore
<1>9. UNCHANGED root
  BY DEF NextMove, goVars
<1>20. StackTypes' /\ StackOK' /\ Called /\ frame'[top] = f
  BY <1>1, <1>4, <1>5, <1>6, <1>7, <1>8, <1>9, CallKeeps DEF GoodFrame
<1>21. Starts
  BY <1>1, <1>2, <1>4, <1>5, <1>20, TopIs DEF Starts, Waits
<1>. QED BY <1>20, <1>21

LEMMA NullReturnsInsideStack ==
  ASSUME StackTypes, StackOK, NullReturnsInside
  PROVE  StackTypes' /\ StackOK' /\ Called /\ Repeats
<1>1. /\ top > 0 /\ FrameOK(Top) /\ Top.fn = "ab" /\ Top.at = "null"
      /\ Top \in Frames /\ Top.alpha \in Int /\ Top.beta \in Int /\ Top.low \in Int
  BY TopIs DEF NullReturnsInside, At
<1>. DEFINE f == [Top EXCEPT !.at = "full"]
<1>2. /\ f \in Frames /\ f.fn = "ab" /\ f.at = "full" /\ SameCall(f, Top)
      /\ f.alpha = Top.alpha /\ f.left = Top.left /\ f.child = Top.child
  <2>1. "full" \in Places
    BY DEF Places
  <2>. QED BY <1>1, <2>1, GoesTo
<1>3. CallFor(f, "ab", -Top.beta, -Top.alpha) /\ UNCHANGED root
  BY DEF NullReturnsInside, goVars
<1>. HIDE DEF f
<1>4. FrameOK(f) /\ Waits(f) /\ f.child \in Nodes
  BY <1>1, <1>2, GameTypes DEF FrameOK, Waits, Window, SameCall, MovesOf
<1>5. /\ -Top.beta = ChildLow(f) /\ -Top.alpha = -f.alpha
      /\ MinScore <= -Top.beta /\ -Top.beta < -Top.alpha /\ -Top.alpha <= MaxScore
      /\ -Top.beta \in Int /\ -Top.alpha \in Int
  BY <1>1, <1>2, BoundAssumption DEF FrameOK, Window, ChildLow, SameCall, MinScore
<1>20. StackTypes' /\ StackOK' /\ Called /\ frame'[top] = f
  BY <1>1, <1>2, <1>3, <1>4, <1>5, CallKeeps DEF GoodFrame
<1>21. Repeats
  BY <1>2, <1>20 DEF Repeats, NullReturnsInside
<1>. QED BY <1>20, <1>21

LEMMA SettleStack ==
  ASSUME StackTypes, StackOK, UNCHANGED root, top > 0, Top.at # "enter",
         NEW s \in Int, Settle(s)
  PROVE  StackTypes' /\ StackOK' /\ Settled
<1>1. CASE s >= Top.beta /\ CutOff(s)
  <2>1. ReturnScore(s)
    BY <1>1 DEF CutOff
  <2>. QED BY <2>1, ReturnKeeps
<1>2. CASE s < Top.beta /\ Continue(Better(Top, s))
  BY <1>2, BetterStack
<1>3. CASE Continue([Top EXCEPT !.at = "loop"])
  BY <1>3, LoopStack
<1>. QED BY <1>1, <1>2, <1>3 DEF Settle

LEMMA MoveReturnsStack ==
  ASSUME StackTypes, StackOK, NullReturns \/ FullReturns
  PROVE  StackTypes' /\ StackOK' /\ Settled
<1>1. top > 0 /\ Top.at # "enter" /\ Score \in Int
  BY TopIs DEF NullReturns, FullReturns, At
<1>2. Settle(Score)
  BY DEF NullReturns, FullReturns
<1>3. UNCHANGED root
  BY <1>2 DEF Settle, goVars
<1>. QED BY <1>1, <1>2, <1>3, SettleStack

LEMMA LoopEndsStack ==
  ASSUME StackTypes, StackOK, LoopEnds \/ CapturesEnd
  PROVE  StackTypes' /\ StackOK' /\ Settled
<1>1. top > 0 /\ Top.best \in Int
  BY TopIs DEF LoopEnds, CapturesEnd, At
<1>2. ReturnScore(Top.best) /\ UNCHANGED root
  BY DEF LoopEnds, CapturesEnd, goVars
<1>. QED BY <1>1, <1>2, ReturnKeeps

-----------------------------------------------------------------------------
(* The actions of qSearch.                                                  *)

LEMMA EnterCheckStack ==
  ASSUME StackTypes, StackOK, EnterCheck
  PROVE  StackTypes' /\ StackOK' /\ Settled
<1>. DEFINE f == [Top EXCEPT !.fn = "ab"]
<1>1. top > 0 /\ FrameOK(Top) /\ Top.at = "enter" /\ ~returned /\ Top \in Frames
  BY TopIs DEF EnterCheck, Enters, At
<1>2. /\ f \in Frames /\ f.fn = "ab" /\ f.at = "enter" /\ SameCall(f, Top)
      /\ f.alpha = Top.alpha /\ f.left = Top.left
  <2>1. "ab" \in Functions
    BY DEF Functions
  <2>. QED BY <1>1, <2>1, BecomesCall
<1>3. frame' = [frame EXCEPT ![top] = f] /\ UNCHANGED <<root, top, ret>> /\ returned' = FALSE
  BY <1>1 DEF EnterCheck, Top, goVars
<1>. HIDE DEF f
<1>4. GoodFrame(f) /\ ~Waits(f)
  BY <1>1, <1>2 DEF GoodFrame, FrameOK, Waits, Window, SameCall
<1>. QED BY <1>1, <1>2, <1>3, <1>4, ContinueKeeps

LEMMA QuietReturnsStack ==
  ASSUME StackTypes, StackOK, QuietDraw \/ StandPatCutsOff
  PROVE  StackTypes' /\ StackOK' /\ Settled
<1>1. top > 0 /\ FrameOK(Top)
  BY TopIs DEF QuietDraw, StandPatCutsOff, Evaluates, Enters, At
<1>2. PICK s \in Int : ReturnScore(s)
  BY <1>1, GameTypes DEF QuietDraw, StandPatCutsOff, FrameOK
<1>3. UNCHANGED root
  BY DEF QuietDraw, StandPatCutsOff, goVars
<1>. QED BY <1>1, <1>2, <1>3, ReturnKeeps

LEMMA StandPatIsBestStack ==
  ASSUME StackTypes, StackOK, StandPatIsBest
  PROVE  StackTypes' /\ StackOK' /\ Settled
<1>. DEFINE s == StandPat(Top.node)
            L == Tactical[Top.node]
            g == Better(Top, s)
            f == [g EXCEPT !.left = L]
<1>1. /\ top > 0 /\ FrameOK(Top) /\ Top.fn = "q" /\ Top.at = "enter"
      /\ Top.node \notin InCheck /\ ~IsDraw(Top.node, Top.depth) /\ Top.node \in Nodes
      /\ Top \in Frames /\ Top.alpha \in Int /\ Top.beta \in Int /\ Top.low \in Int
  BY TopIs DEF StandPatIsBest, Evaluates, Enters, At, FrameOK, IsDraw, Quiet
<1>2. s \in Int /\ L \in NodeSets /\ L \subseteq Tactical[Top.node]
  BY <1>1, GameTypes DEF NodeSets
<1>3. s < Top.beta /\ Continue(f) /\ UNCHANGED root
  BY DEF StandPatIsBest, goVars
<1>. HIDE DEF s, L
<1>4. /\ g \in Frames /\ g.fn = "q" /\ g.at = "loop" /\ SameCall(g, Top)
      /\ g.alpha = Max2(Top.alpha, s)
  BY <1>1, <1>2, BetterIs
<1>. HIDE DEF g
<1>5. /\ f \in Frames /\ f.fn = "q" /\ f.at = "loop" /\ SameCall(f, Top)
      /\ f.alpha = Max2(Top.alpha, s) /\ f.left = L
  <2>1. f \in Frames
    BY <1>2, <1>4, SMT DEF Frames
  <2>2. /\ f.fn = g.fn /\ f.at = g.at /\ f.node = g.node /\ f.depth = g.depth
        /\ f.low = g.low /\ f.beta = g.beta /\ f.alpha = g.alpha /\ f.left = L
    BY <1>4, SMT DEF Frames
  <2>. QED BY <1>4, <2>1, <2>2 DEF SameCall
<1>6. /\ frame' = [frame EXCEPT ![top] = f] /\ UNCHANGED <<top, ret>> /\ returned' = FALSE
  BY <1>3 DEF Continue
<1>. HIDE DEF f
<1>7. /\ Max2(Top.alpha, s) \in Int /\ Max2(Top.alpha, s) >= Top.alpha
      /\ Max2(Top.alpha, s) = Top.alpha \/ Max2(Top.alpha, s) = s
  BY <1>1, <1>2, Max2Is
<1>8. Window(f)
  BY <1>1, <1>2, <1>3, <1>5, <1>7, BoundAssumption DEF FrameOK, Window, SameCall, MinScore
<1>9. FrameOK(f) /\ ~Waits(f)
  BY <1>1, <1>2, <1>5, <1>8 DEF FrameOK, Waits, SameCall, MovesOf, Quiet
<1>10. GoodFrame(f)
  BY <1>1, <1>9 DEF GoodFrame
<1>. QED BY <1>1, <1>3, <1>5, <1>6, <1>9, <1>10, ContinueKeeps

LEMMA NextCaptureStack ==
  ASSUME StackTypes, StackOK, NextCapture
  PROVE  StackTypes' /\ StackOK' /\ Called /\ Starts
<1>1. /\ top > 0 /\ FrameOK(Top) /\ Top.fn = "q" /\ Top.at = "loop"
      /\ Top \in Frames /\ Top.alpha \in Int /\ Top.beta \in Int /\ Top.low \in Int
  BY TopIs DEF NextCapture, At
<1>2. PICK m \in Top.left :
        /\ CallFor(Searching(Top, "capture", m, Top.left \ {m}), "q", -Top.beta, -Top.alpha)
        /\ MakeMove(m)
  BY DEF NextCapture
<1>. DEFINE L == Top.left \ {m}
            f == Searching(Top, "capture", m, L)
<1>3. L \subseteq Tactical[Top.node] /\ m \in Tactical[Top.node]
  BY <1>1 DEF FrameOK, MovesOf
<1>4. m \in Nodes /\ L \in NodeSets /\ "capture" \in Places /\ m \in NodeOrNone
  BY <1>1, <1>3, GameTypes DEF FrameOK, NodeSets, Places, NodeOrNone
<1>. HIDE DEF L
<1>5. /\ f \in Frames /\ f.fn = "q" /\ f.at = "capture" /\ SameCall(f, Top)
      /\ f.alpha = Top.alpha /\ f.left = L /\ f.child = m
  BY <1>1, <1>4, SearchesMove
<1>6. CallFor(f, "q", -Top.beta, -Top.alpha)
  BY <1>2 DEF L
<1>. HIDE DEF f
<1>7. FrameOK(f) /\ Waits(f) /\ f.depth <= 0
  BY <1>1, <1>3, <1>5 DEF FrameOK, Waits, Window, SameCall, MovesOf
<1>8. /\ -Top.beta = ChildLow(f) /\ -Top.alpha = -f.alpha
      /\ MinScore <= -Top.beta /\ -Top.beta < -Top.alpha /\ -Top.alpha <= MaxScore
      /\ -Top.beta \in Int /\ -Top.alpha \in Int
  BY <1>1, <1>5, BoundAssumption DEF FrameOK, Window, ChildLow, SameCall, MinScore
<1>9. UNCHANGED root
  BY DEF NextCapture, goVars
<1>20. StackTypes' /\ StackOK' /\ Called /\ frame'[top] = f
  BY <1>1, <1>4, <1>5, <1>6, <1>7, <1>8, <1>9, CallKeeps DEF GoodFrame
<1>21. Starts
  BY <1>1, <1>2, <1>4, <1>5, <1>20, TopIs DEF Starts, Waits
<1>. QED BY <1>20, <1>21

LEMMA CaptureReturnsStack ==
  ASSUME StackTypes, StackOK, CaptureReturns
  PROVE  StackTypes' /\ StackOK' /\ Settled
<1>1. top > 0 /\ Top.at # "enter" /\ Score \in Int
  BY TopIs DEF CaptureReturns, At
<1>2. UNCHANGED root
  BY DEF CaptureReturns, goVars
<1>3. CASE ReturnScore(Score)
  BY <1>1, <1>2, <1>3, ReturnKeeps
<1>4. CASE Score < Top.beta /\ Continue(Better(Top, Score))
  BY <1>1, <1>2, <1>4, BetterStack
<1>5. CASE Continue([Top EXCEPT !.at = "loop"])
  BY <1>1, <1>2, <1>5, LoopStack
<1>. QED BY <1>3, <1>4, <1>5 DEF CaptureReturns

-----------------------------------------------------------------------------
(* The actions of rootSearch and its worker.                                *)

LEMMA RootCallStack ==
  ASSUME StackTypes, StackOK, root \in Nodes,
         NEW m \in Succ[root], NEW d \in 0 .. MaxIter, NEW low \in Int, NEW beta \in Int,
         NEW at \in {"null", "full"}, RootCall(m, d, low, beta, at),
         MinScore <= low, low < beta, beta <= MaxScore,
         low = IF at = "null" THEN beta - 1 ELSE MinScore
  PROVE  StackTypes' /\ StackOK' /\ Called /\ Starts
<1>. DEFINE f == AsksFor(Top, at, d, m, low, beta)
<1>1. top = 0 /\ RootOK(Top) /\ Top \in Frames
  BY TopIs DEF RootCall
<1>2. m \in Nodes /\ m \in NodeOrNone /\ at \in Places /\ d \in Int /\ 0 <= d /\ d <= MaxIter
  BY BoundAssumption, GameTypes DEF NodeOrNone, Places
<1>3. /\ f \in Frames /\ f.fn = Top.fn /\ f.at = at /\ f.node = Top.node /\ f.depth = d
      /\ f.low = Top.low /\ f.alpha = -beta /\ f.beta = -low /\ f.child = m
  BY <1>1, <1>2, RootSearchesMove
<1>4. CallFor(f, "ab", low, beta) /\ UNCHANGED root
  BY DEF RootCall
<1>. HIDE DEF f
<1>5. RootOK(f) /\ Waits(f)
  BY <1>1, <1>2, <1>3, BoundAssumption DEF RootOK, Waits, Window, MinScore
<1>6. low = ChildLow(f) /\ beta = -f.alpha
  BY <1>3 DEF ChildLow
<1>20. StackTypes' /\ StackOK' /\ Called /\ frame'[top] = f
  BY <1>1, <1>2, <1>3, <1>4, <1>5, <1>6, CallKeeps DEF GoodFrame
<1>21. Starts
  BY <1>2, <1>3, <1>20 DEF Starts, RootCall
<1>. QED BY <1>20, <1>21

LEMMA RootAgainStack ==
  ASSUME StackTypes, StackOK, RootAgain
  PROVE  StackTypes' /\ StackOK' /\ Called /\ Repeats
<1>. DEFINE f == [Top EXCEPT !.at = "full", !.beta = MaxScore]
<1>1. /\ top = 0 /\ RootOK(Top) /\ Top \in Frames /\ Top.at = "null"
      /\ Top.alpha \in Int /\ Top.beta \in Int /\ Top.low \in Int
  BY TopIs DEF RootAgain
<1>2. /\ f \in Frames /\ f.fn = Top.fn /\ f.at = "full" /\ f.node = Top.node
      /\ f.depth = Top.depth /\ f.low = Top.low /\ f.alpha = Top.alpha /\ f.beta = MaxScore
      /\ f.child = Top.child
  <2>1. MaxScore \in Int
    BY BoundAssumption
  <2>. QED BY <1>1, <2>1, RootAsksAgain
<1>3. CallFor(f, "ab", MinScore, -Top.alpha) /\ UNCHANGED root
  BY DEF RootAgain, goVars
<1>. HIDE DEF f
<1>4. RootOK(f) /\ Waits(f) /\ f.child \in Nodes
  BY <1>1, <1>2, BoundAssumption DEF RootOK, Waits, Window, MinScore
<1>5. /\ MinScore = ChildLow(f) /\ -Top.alpha = -f.alpha /\ MinScore < -Top.alpha
      /\ -Top.alpha <= MaxScore /\ MinScore \in Int /\ -Top.alpha \in Int /\ MinScore <= MinScore
  BY <1>1, <1>2, BoundAssumption DEF RootOK, Window, ChildLow, MinScore
<1>20. StackTypes' /\ StackOK' /\ Called /\ frame'[top] = f
  BY <1>1, <1>2, <1>3, <1>4, <1>5, CallKeeps DEF GoodFrame
<1>21. Repeats
  BY <1>2, <1>20 DEF Repeats, RootAgain
<1>. QED BY <1>20, <1>21

LEMMA RootTakesStack ==
  ASSUME StackTypes, StackOK, root \in Nodes, RootTakes
  PROVE  StackTypes' /\ StackOK' /\ Settled
<1>. DEFINE f == RootFrame(root, Top.depth)
<1>1. top = 0 /\ RootOK(Top) /\ Top.depth \in Int
  BY TopIs DEF RootTakes
<1>2. /\ f \in Frames /\ f.fn = "root" /\ f.at = "idle" /\ f.node = root
      /\ f.depth = Top.depth /\ f.low = MinScore /\ f.alpha = MinScore /\ f.beta = MaxScore
  BY <1>1, RootFrameIs
<1>3. /\ frame' = [frame EXCEPT ![top] = f] /\ UNCHANGED <<root, top, ret>> /\ returned' = FALSE
  BY DEF RootTakes, Continue, goVars
<1>. HIDE DEF f
<1>4. RootOK(f) /\ ~Waits(f)
  BY <1>1, <1>2, BoundAssumption DEF RootOK, Waits, Window, MinScore
<1>5. GoodFrame(f) /\ ~(top > 0) /\ f.depth = Top.depth /\ f \in Frames /\ UNCHANGED root
  BY <1>1, <1>2, <1>3, <1>4 DEF GoodFrame
<1>. QED BY <1>3, <1>4, <1>5, ContinueKeeps

LEMMA NewGoStack ==
  ASSUME StackTypes, StackOK, NewGo
  PROVE  StackTypes' /\ StackOK'
<1>. DEFINE f == RootFrame(root', 0)
<1>1. top = 0 /\ root' \in Nodes
  BY GameAssumption DEF NewGo
<1>2. /\ f \in Frames /\ f.fn = "root" /\ f.at = "idle" /\ f.node = root'
      /\ f.depth = 0 /\ f.low = MinScore /\ f.alpha = MinScore /\ f.beta = MaxScore
  BY <1>1, RootFrameIs
<1>3. /\ frame' = [frame EXCEPT ![0] = f] /\ UNCHANGED <<top, ret>> /\ returned' = FALSE
  BY DEF NewGo
<1>. HIDE DEF f
<1>4. frame' \in [Plies -> Frames] /\ frame'[0] = f
  BY <1>2, <1>3, PliesAre DEF StackTypes
<1>5. RootOK(frame[0])' /\ ~Waits(f)
  BY <1>2, <1>4, BoundAssumption DEF RootOK, Waits, Window, MinScore
<1>6. StackOK'
  BY <1>1, <1>3, <1>4, <1>5 DEF StackOK
<1>. QED BY <1>3, <1>4, <1>6 DEF StackTypes

-----------------------------------------------------------------------------
(* The position and the stack.                                              *)

PositionStays == IF returned THEN UnmakeMove ELSE UNCHANGED positionVars

PositionTypes == line \in [Plies -> NodeOrNone] /\ made \in Plies

SearchStep == AbSearch \/ QSearch \/ RootSearch

LEMMA SearchStepStack ==
  ASSUME TypeOK, StackOK, SearchStep
  PROVE  /\ StackTypes' /\ StackOK'
         /\ \/ Settled /\ PositionStays
            \/ Called /\ (Starts \/ Repeats)
<1>0. StackTypes /\ root \in Nodes
  BY GameAssumption DEF TypeOK, StackTypes
<1>1. CASE EnterQuiet \/ EnterCheck
  BY <1>0, <1>1, EnterQuietStack, EnterCheckStack
     DEF PositionStays, EnterQuiet, EnterCheck, Enters
<1>2. CASE ReturnDraw \/ ReturnEntry \/ ReturnNoMove
  BY <1>0, <1>2, ReturnDrawStack, ReturnEntryStack, ReturnNoMoveStack
     DEF PositionStays, ReturnDraw, ReturnEntry, ReturnNoMove, MustSearch, Searches, Enters
<1>3. CASE FirstMove \/ NextMove \/ NextCapture
  BY <1>0, <1>3, FirstMoveStack, NextMoveStack, NextCaptureStack
<1>4. CASE FirstReturns
  BY <1>0, <1>4, FirstReturnsStack DEF PositionStays, FirstReturns
<1>5. CASE NullReturnsInside
  BY <1>0, <1>5, NullReturnsInsideStack
<1>6. CASE NullReturns \/ FullReturns
  BY <1>0, <1>6, MoveReturnsStack DEF PositionStays, NullReturns, FullReturns, Settle
<1>7. CASE LoopEnds \/ CapturesEnd
  BY <1>0, <1>7, LoopEndsStack DEF PositionStays, LoopEnds, CapturesEnd
<1>8. CASE QuietDraw \/ StandPatCutsOff
  BY <1>0, <1>8, QuietReturnsStack
     DEF PositionStays, QuietDraw, StandPatCutsOff, Evaluates, Enters
<1>9. CASE StandPatIsBest
  BY <1>0, <1>9, StandPatIsBestStack DEF PositionStays, StandPatIsBest, Evaluates, Enters
<1>10. CASE CaptureReturns
  BY <1>0, <1>10, CaptureReturnsStack DEF PositionStays, CaptureReturns
<1>11. ASSUME NEW m \in Succ[root], NEW d \in Top.depth .. MaxIter,
              RootFirst(m, d) \/ \E s \in RootScores : RootNull(m, d, s)
       PROVE  StackTypes' /\ StackOK' /\ Called /\ Starts
  <2>1. d \in 0 .. MaxIter
    <3>1. top = 0
      BY <1>11 DEF RootFirst, RootNull, RootCall
    <3>2. RootOK(Top) /\ Top.depth \in Int
      BY <1>0, <3>1, TopIs
    <3>. QED BY <3>2, BoundAssumption DEF RootOK
  <2>2. CASE RootFirst(m, d)
    <3>1. RootCall(m, d, MinScore, MaxScore, "full")
      BY <2>2 DEF RootFirst
    <3>2. /\ MinScore \in Int /\ MaxScore \in Int /\ MinScore <= MinScore
          /\ MinScore < MaxScore /\ MaxScore <= MaxScore /\ "full" \in {"null", "full"}
      BY BoundAssumption DEF MinScore
    <3>. QED BY <1>0, <2>1, <3>1, <3>2, RootCallStack
  <2>3. ASSUME NEW s \in RootScores, RootNull(m, d, s)
        PROVE  StackTypes' /\ StackOK' /\ Called /\ Starts
    <3>1. RootCall(m, d, -s - 1, -s, "null")
      BY <2>3 DEF RootNull
    <3>2. /\ -s - 1 \in Int /\ -s \in Int /\ MinScore <= -s - 1
          /\ -s - 1 < -s /\ -s <= MaxScore /\ -s - 1 = (-s) - 1 /\ "null" \in {"null", "full"}
      BY BoundAssumption DEF MinScore
    <3>. QED BY <1>0, <2>1, <3>1, <3>2, RootCallStack
  <2>. QED BY <1>11, <2>2, <2>3
<1>12. CASE RootAgain
  BY <1>0, <1>12, RootAgainStack
<1>13. CASE RootTakes
  BY <1>0, <1>13, RootTakesStack DEF PositionStays, RootTakes
<1>. QED BY <1>1, <1>2, <1>3, <1>4, <1>5, <1>6, <1>7, <1>8, <1>9, <1>10, <1>11, <1>12, <1>13
         DEF SearchStep, AbSearch, QSearch, RootSearch

LEMMA SettledBalanced ==
  ASSUME StackTypes, StackOK, PositionTypes, Balanced, Settled, PositionStays
  PROVE  PositionTypes' /\ Balanced'
<1>1. top \in Nat /\ top \in Plies /\ Plies = 0 .. MaxPly /\ MaxPly \in Nat
  BY BoundAssumption DEF StackTypes, Plies
<1>2. made' = top /\ line' \in [Plies -> NodeOrNone] /\ \A i \in 0 .. top : line'[i] = line[i]
  <2>1. CASE returned
    <3>1. made = top + 1 /\ made' = top /\ line' = [line EXCEPT ![made] = NoNode]
      BY <2>1, <1>1 DEF Balanced, PositionStays, UnmakeMove
    <3>. QED BY <3>1, <1>1 DEF PositionTypes, NodeOrNone
  <2>2. CASE ~returned
    BY <2>2, <1>1 DEF Balanced, PositionStays, positionVars, PositionTypes
  <2>. QED BY <2>1, <2>2
<1>3. PositionTypes'
  BY <1>1, <1>2 DEF PositionTypes
<1>4. CASE top' = top /\ returned' = FALSE
  <2>1. frame'[top].node = frame[top].node /\ frame'[top].depth = frame[top].depth
    BY <1>1, <1>4 DEF Settled, Top
  <2>2. \A i \in 0 .. top : /\ frame'[i].node = frame[i].node
                           /\ frame'[i].depth = frame[i].depth
    BY <1>1, <2>1 DEF Settled
  <2>3. \A i \in 0 .. top : /\ line'[i] = frame'[i].node
                           /\ frame'[i].depth = frame'[0].depth - i
    BY <1>1, <1>2, <2>2 DEF Balanced
  <2>. QED BY <1>2, <1>3, <1>4, <2>3 DEF Balanced
<1>5. CASE top > 0 /\ top' = top - 1 /\ returned' = TRUE
  <2>1. \A i \in 0 .. top - 1 : frame'[i] = frame[i]
    BY DEF Settled
  <2>2. \A i \in 0 .. top - 1 : /\ line'[i] = frame'[i].node
                               /\ frame'[i].depth = frame'[0].depth - i
    BY <1>1, <1>2, <1>5, <2>1 DEF Balanced
  <2>3. line'[top] = frame[top].node
    BY <1>1, <1>2 DEF Balanced
  <2>4. frame[top].node = frame'[top - 1].child
    BY <1>1, <1>5, <2>1 DEF StackOK, Linked
  <2>5. made' = top' + 1 /\ line'[made'] = Top'.child
    BY <1>1, <1>2, <1>5, <2>3, <2>4 DEF Top
  <2>. QED BY <1>3, <1>5, <2>2, <2>5 DEF Balanced
<1>. QED BY <1>4, <1>5 DEF Settled

LEMMA CalledBalanced ==
  ASSUME StackTypes, StackOK, PositionTypes, Balanced, Called, Starts \/ Repeats,
         StackTypes', StackOK'
  PROVE  PositionTypes' /\ Balanced'
<1>1. /\ top \in Nat /\ top \in Plies /\ Plies = 0 .. MaxPly /\ MaxPly \in Nat
      /\ top + 1 \in Plies
  BY BoundAssumption DEF StackTypes, Plies, Called
<1>2. /\ made' = top + 1 /\ line' \in [Plies -> NodeOrNone]
      /\ \A i \in 0 .. top : line'[i] = line[i]
      /\ line'[top + 1] = frame'[top].child
  <2>1. CASE Starts
    <3>1. PICK m \in Nodes : MakeMove(m) /\ frame'[top].child = m
      BY <2>1 DEF Starts
    <3>2. made = top
      BY <2>1 DEF Starts, Balanced
    <3>. QED BY <1>1, <3>1, <3>2 DEF MakeMove, PositionTypes, NodeOrNone
  <2>2. CASE Repeats
    BY <2>2, <1>1 DEF Repeats, positionVars, Balanced, PositionTypes
  <2>. QED BY <2>1, <2>2
<1>3. top' = top + 1 /\ returned' = FALSE
  BY DEF Called
<1>4. Linked(frame'[top], frame'[top + 1])
  BY <1>1, <1>3 DEF StackOK
<1>5. \A i \in 0 .. top : frame'[i].node = frame[i].node
  BY <1>1 DEF Called, Top
<1>6. \A i \in 0 .. top + 1 : line'[i] = frame'[i].node
  BY <1>1, <1>2, <1>4, <1>5 DEF Balanced, Linked
<1>10. frame'[0].depth \in Int /\ frame'[top].depth \in Int
  <2>1. frame'[0] \in Frames /\ frame'[top] \in Frames
    BY <1>1 DEF StackTypes
  <2>. QED BY <2>1 DEF Frames
<1>7. \A i \in 0 .. top : frame'[i].depth = frame'[0].depth - i
  <2>1. CASE top = 0
    BY <2>1, <1>10
  <2>2. CASE top > 0
    BY <2>2, <1>1 DEF Called, Top, Balanced
  <2>. QED BY <2>1, <2>2, <1>1
<1>8. frame'[top + 1].depth = frame'[0].depth - (top + 1)
  BY <1>1, <1>4, <1>7, <1>10 DEF Linked
<1>9. \A i \in 0 .. top + 1 : frame'[i].depth = frame'[0].depth - i
  BY <1>1, <1>7, <1>8
<1>. QED BY <1>1, <1>2, <1>3, <1>6, <1>9 DEF Balanced, PositionTypes

-----------------------------------------------------------------------------
(* The table and the other variables.                                       *)

OtherTypes ==
  /\ root \in Roots
  /\ table \in [Slots -> Entries \union {NoEntry}]
  /\ stopped \in BOOLEAN
  /\ calls \in 0 .. MaxCalls
  /\ tainted \in BOOLEAN

LEMMA TypesAre == TypeOK <=> StackTypes /\ PositionTypes /\ OtherTypes
BY DEF TypeOK, StackTypes, PositionTypes, OtherTypes

LEMMA EntryIs ==
  ASSUME NEW n \in Nodes, NEW type \in Types, NEW s \in Int, NEW d \in Int
  PROVE  LET e == Entry(n, type, s, d) IN
         /\ e \in Entries /\ e.key = n /\ e.type = type /\ e.score = s
         /\ 0 <= d /\ d <= MaxIter => e.depth = d
<1>1. d % Byte \in Nat /\ (0 <= d /\ d <= MaxIter => d % Byte = d)
  BY BoundAssumption
<1>. QED BY <1>1 DEF Entry, Entries

LEMMA StoreTypes ==
  ASSUME NEW n \in Nodes, NEW type \in Types, NEW s \in Int, NEW d \in Int,
         table \in [Slots -> Entries \union {NoEntry}], StoreEntry(n, type, s, d)
  PROVE  table' \in [Slots -> Entries \union {NoEntry}]
<1>. DEFINE e == Entry(n, type, s, d)
<1>1. e \in Entries
  BY EntryIs
<1>2. table' = [table EXCEPT ![Index[n]] = IF @ = NoEntry \/ @.depth < d THEN e ELSE @]
  BY DEF StoreEntry
<1>. HIDE DEF e
<1>3. Index[n] \in Slots
  BY TableAssumption
<1>. QED BY <1>1, <1>2, <1>3

\* A cut off and the end of the loop store a score of the node of the last frame.
LEMMA SearchStepTypes ==
  ASSUME TypeOK, StackOK, SearchStep
  PROVE  OtherTypes'
<1>0. StackTypes /\ OtherTypes
  BY TypesAre
<1>1. ASSUME NEW s \in Int, CutOff(s), top > 0
      PROVE  table' \in [Slots -> Entries \union {NoEntry}] /\ tainted' \in BOOLEAN
  <2>1. Top.node \in Nodes /\ Top.depth \in Int /\ "lower" \in Types
    BY <1>0, <1>1, TopIs DEF FrameOK, Types
  <2>. QED BY <1>0, <1>1, <2>1, StoreTypes DEF CutOff, OtherTypes
<1>2. CASE UNCHANGED <<root, table, stopped, tainted, calls>>
  BY <1>0, <1>2 DEF OtherTypes
<1>3. CASE FirstReturns
  <2>1. top > 0 /\ Score \in Int
    BY <1>0, <1>3, TopIs DEF FirstReturns, At
  <2>2. CASE CutOff(Score)
    BY <1>0, <1>1, <1>3, <2>1, <2>2 DEF FirstReturns, goVars, OtherTypes
  <2>3. CASE UNCHANGED <<table, tainted>>
    BY <1>0, <1>3, <2>3 DEF FirstReturns, goVars, OtherTypes
  <2>. QED BY <1>3, <2>2, <2>3 DEF FirstReturns
<1>4. CASE NullReturns \/ FullReturns
  <2>1. top > 0 /\ Score \in Int
    BY <1>0, <1>4, TopIs DEF NullReturns, FullReturns, At
  <2>2. Settle(Score)
    BY <1>4 DEF NullReturns, FullReturns
  <2>3. CASE CutOff(Score)
    BY <1>0, <1>1, <2>1, <2>2, <2>3 DEF Settle, goVars, OtherTypes
  <2>4. CASE UNCHANGED <<table, tainted>>
    BY <1>0, <2>2, <2>4 DEF Settle, goVars, OtherTypes
  <2>. QED BY <2>2, <2>3, <2>4 DEF Settle
<1>5. CASE LoopEnds
  <2>1. top > 0 /\ Top.node \in Nodes /\ Top.depth \in Int /\ Top.best \in Int
    BY <1>0, <1>5, TopIs DEF LoopEnds, At, FrameOK
  <2>2. Kind(Top) \in Types
    BY DEF Kind, Types
  <2>3. table' \in [Slots -> Entries \union {NoEntry}]
    BY <1>0, <1>5, <2>1, <2>2, StoreTypes DEF LoopEnds, OtherTypes
  <2>. QED BY <1>0, <1>5, <2>3 DEF LoopEnds, goVars, OtherTypes
<1>6. CASE CapturesEnd
  BY <1>0, <1>6 DEF CapturesEnd, goVars, OtherTypes
<1>7. CASE RootSearch
  <2>1. ASSUME NEW m \in Succ[root], NEW d \in Top.depth .. MaxIter,
               RootFirst(m, d) \/ \E s \in RootScores : RootNull(m, d, s)
        PROVE  OtherTypes'
    <3>1. UNCHANGED <<root, table, stopped, tainted>> /\ calls < MaxCalls /\ calls' = calls + 1
      BY <2>1 DEF RootFirst, RootNull, RootCall, CallFor
    <3>. QED BY <1>0, <3>1, BoundAssumption DEF OtherTypes
  <2>2. CASE RootAgain \/ RootTakes
    BY <1>0, <2>2 DEF RootAgain, RootTakes, CallFor, goVars, OtherTypes
  <2>. QED BY <1>7, <2>1, <2>2 DEF RootSearch
<1>8. CASE \/ EnterQuiet \/ ReturnDraw \/ ReturnEntry \/ ReturnNoMove \/ EnterCheck \/ QuietDraw
           \/ StandPatCutsOff \/ StandPatIsBest \/ CaptureReturns
  BY <1>2, <1>8 DEF EnterQuiet, ReturnDraw, ReturnEntry, ReturnNoMove, EnterCheck, QuietDraw,
     StandPatCutsOff, StandPatIsBest, CaptureReturns, goVars, Continue
<1>9. CASE FirstMove \/ NextMove \/ NullReturnsInside \/ NextCapture
  BY <1>2, <1>9 DEF FirstMove, NextMove, NullReturnsInside, NextCapture, CallFor, goVars
<1>. QED BY <1>3, <1>4, <1>5, <1>6, <1>7, <1>8, <1>9 DEF SearchStep, AbSearch, QSearch

-----------------------------------------------------------------------------
(* The invariant and the theorems about the stack.                          *)

StackInv == TypeOK /\ StackOK /\ Balanced

LEMMA StackInit == ASSUME Init PROVE StackInv
<1>. DEFINE f == RootFrame(root, 0)
<1>1. root \in Nodes /\ root \in Roots /\ root \in NodeOrNone /\ NoNode \in NodeOrNone
  BY GameAssumption DEF Init, NodeOrNone
<1>2. /\ f \in Frames /\ f.fn = "root" /\ f.at = "idle" /\ f.node = root
      /\ f.depth = 0 /\ f.low = MinScore /\ f.alpha = MinScore /\ f.beta = MaxScore
  BY <1>1, RootFrameIs
<1>3. Unused \in Frames
  BY UnusedIs
<1>4. frame = [p \in Plies |-> IF p = 0 THEN f ELSE Unused]
  BY DEF Init
<1>. HIDE DEF f
<1>5. frame \in [Plies -> Frames] /\ frame[0] = f
  BY <1>2, <1>3, <1>4, PliesAre
<1>6. StackTypes
  BY <1>5, PliesAre DEF Init, StackTypes
<1>7. PositionTypes
  BY <1>1, PliesAre DEF Init, PositionTypes
<1>8. OtherTypes
  <2>1. table = [s \in Slots |-> NoEntry] /\ stopped = FALSE /\ calls = 0 /\ tainted = FALSE
    BY DEF Init
  <2>2. 0 \in 0 .. MaxCalls
    BY BoundAssumption
  <2>. QED BY <1>1, <2>1, <2>2 DEF OtherTypes
<1>9. RootOK(frame[0]) /\ ~Waits(f)
  BY <1>2, <1>5, BoundAssumption DEF RootOK, Waits, Window, MinScore
<1>10. StackOK
  BY <1>5, <1>9 DEF Init, StackOK
<1>11. Balanced
  <2>1. made = 0 /\ top = 0 /\ returned = FALSE /\ line[0] = root
    BY PliesAre DEF Init
  <2>. QED BY <2>1, <1>2, <1>5 DEF Balanced
<1>. QED BY <1>6, <1>7, <1>8, <1>10, <1>11, TypesAre DEF StackInv

LEMMA NewGoInv == ASSUME StackInv, NewGo PROVE StackInv'
<1>0. StackTypes /\ PositionTypes /\ OtherTypes /\ StackOK
  BY TypesAre DEF StackInv
<1>1. StackTypes' /\ StackOK'
  BY <1>0, NewGoStack
<1>2. top = 0 /\ top' = 0 /\ ~returned /\ ~returned' /\ root' \in Roots /\ root' \in Nodes
  BY GameAssumption DEF NewGo
<1>3. OtherTypes'
  BY <1>0, <1>2 DEF NewGo, OtherTypes
<1>4. line' = [line EXCEPT ![0] = root'] /\ made' = made /\ made = 0
  BY <1>2 DEF NewGo, StackInv, Balanced
<1>5. PositionTypes' /\ line'[0] = root'
  BY <1>0, <1>2, <1>4, PliesAre DEF PositionTypes, NodeOrNone
<1>6. frame'[0].node = root' /\ frame'[0].depth = 0
  <2>1. frame'[0] = RootFrame(root', 0)
    BY <1>0, PliesAre DEF NewGo, StackTypes
  <2>. QED BY <1>2, <2>1, RootFrameIs
<1>7. Balanced'
  BY <1>2, <1>4, <1>5, <1>6 DEF Balanced
<1>8. TypeOK'
  BY <1>1, <1>3, <1>5, TypesAre DEF TypeOK, StackTypes, PositionTypes, OtherTypes
<1>. QED BY <1>1, <1>7, <1>8 DEF StackInv

LEMMA StackStep == ASSUME StackInv, [Next]_vars PROVE StackInv'
<1>0. StackTypes /\ PositionTypes /\ OtherTypes /\ StackOK /\ Balanced /\ TypeOK
  BY TypesAre DEF StackInv
<1>1. CASE SearchStep
  <2>1. /\ StackTypes' /\ StackOK'
        /\ (Settled /\ PositionStays) \/ (Called /\ (Starts \/ Repeats))
    BY <1>0, <1>1, SearchStepStack
  <2>2. PositionTypes' /\ Balanced'
    BY <1>0, <2>1, SettledBalanced, CalledBalanced
  <2>3. OtherTypes'
    BY <1>0, <1>1, SearchStepTypes
  <2>4. TypeOK'
    BY <2>1, <2>2, <2>3 DEF TypeOK, StackTypes, PositionTypes, OtherTypes
  <2>. QED BY <2>1, <2>2, <2>4 DEF StackInv
<1>2. CASE NewGo
  BY <1>2, NewGoInv
<1>3. CASE Abort
  <2>1. UNCHANGED <<root, frame, top, returned, ret, line, made, table, calls, tainted>>
    BY <1>3 DEF Abort, positionVars
  <2>2. StackOK' /\ Balanced'
    BY <1>0, <2>1 DEF StackOK, Balanced, RootOK, Top
  <2>3. TypeOK'
    BY <1>0, <1>3, <2>1 DEF TypeOK, Abort
  <2>. QED BY <2>2, <2>3 DEF StackInv
<1>4. CASE UNCHANGED vars
  <2>1. StackOK' /\ Balanced'
    BY <1>0, <1>4 DEF vars, StackOK, Balanced, RootOK, Top
  <2>2. TypeOK'
    BY <1>0, <1>4 DEF TypeOK, vars
  <2>. QED BY <2>1, <2>2 DEF StackInv
<1>. QED BY <1>1, <1>2, <1>3, <1>4 DEF Next, SearchStep

\* Every variable of the search keeps its type, for every game and every table:
\* in particular the depth kept in an entry is a number, although the search
\* goes on below depth 0.
THEOREM TypeCorrect == Spec => []TypeOK
<1>1. Spec => []StackInv
  BY StackInit, StackStep, PTL DEF Spec
<1>2. StackInv => TypeOK
  BY DEF StackInv
<1>. QED BY <1>1, <1>2, PTL

\* Each call works on the position it was made for: on every way out of abSearch
\* and qSearch, wherever stop() ends them, each move made has been unmade.
THEOREM AlwaysBalanced == Spec => []Balanced
<1>1. Spec => []StackInv
  BY StackInit, StackStep, PTL DEF Spec
<1>2. StackInv => Balanced
  BY DEF StackInv
<1>. QED BY <1>1, <1>2, PTL

\* No call has an empty window, and no bound leaves the range of the scores.
THEOREM AlwaysWindowsOpen == Spec => []WindowsOpen
<1>1. Spec => []StackInv
  BY StackInit, StackStep, PTL DEF Spec
<1>2. StackInv => WindowsOpen
  BY DEF StackInv, StackOK, FrameOK, Window, WindowsOpen
<1>. QED BY <1>1, <1>2, PTL

-----------------------------------------------------------------------------
(* Scores.                                                                  *)

\* What the locals of a call say about the scores, while nothing is tainted: the
\* best score is a lower bound, alpha is the better of it and the argument alpha,
\* a score above the argument alpha is an upper bound as well, and no move that
\* has been searched can be worth more.
ScoreOK(f) ==
  /\ f.at = "first" => f.left = MovesOf(f) \ {f.child}
  /\ f.at \notin {"enter", "first"} =>
       /\ f.fn = "ab" => MovesOf(f) # {}
       /\ f.fn = "q" => StandPat(f.node) <= f.best
       /\ f.best <= f.low => f.alpha = f.low
       /\ f.best > f.low => f.alpha = f.best /\ f.best <= Hi[f.node][f.depth]
       /\ \A m \in MovesOf(f) \ f.left :
            m # f.child \/ ~Waits(f) => f.depth - 1 \in Depths /\ -Hi[m][f.depth - 1] <= f.best

FramesSound == \A i \in 1 .. top : ScoreOK(frame[i])

EntrySound(e) ==
  /\ 0 <= e.depth /\ e.depth <= MaxIter /\ ~Quiet(e.key, e.depth)
  /\ e.type # "upper" => e.score <= Hi[e.key][e.depth]
  /\ e.type # "lower" => Lo[e.key][e.depth] <= e.score

EntriesSound == \A s \in Slots : table[s] # NoEntry => EntrySound(table[s])

ScoreInv == ~tainted => FramesSound /\ EntriesSound /\ ReturnSound

LEMMA ValueIs ==
  ASSUME NEW n \in Nodes, NEW d \in Depths
  PROVE  /\ Lo[n][d] \in Int /\ Hi[n][d] \in Int
         /\ IsDraw(n, d) => Lo[n][d] <= 0 /\ 0 <= Hi[n][d]
         /\ Quiet(n, d) /\ ~IsDraw(n, d) =>
              /\ StandPat(n) <= Hi[n][d]
              /\ \A m \in Tactical[n] : d - 1 \in Depths => -Lo[m][d - 1] <= Hi[n][d]
              /\ \/ Lo[n][d] <= StandPat(n)
                 \/ \E m \in Tactical[n] : d - 1 \in Depths => Lo[n][d] <= -Hi[m][d - 1]
         /\ ~Quiet(n, d) /\ ~IsDraw(n, d) /\ Succ[n] = {} =>
              Lo[n][d] <= NoMoveScore(n, d) /\ NoMoveScore(n, d) <= Hi[n][d]
         /\ ~Quiet(n, d) /\ ~IsDraw(n, d) /\ Succ[n] # {} =>
              /\ \A m \in Succ[n] : d - 1 \in Depths => -Lo[m][d - 1] <= Hi[n][d]
              /\ \E m \in Succ[n] : d - 1 \in Depths => Lo[n][d] <= -Hi[m][d - 1]
         /\ ~Quiet(n, d) => \A e \in d .. MaxIter : Lo[n][d] <= Lo[n][e] /\ Hi[n][e] <= Hi[n][d]
BY ScoresHaveRanges DEF ValuationAssumption

\* The depths of the calls under way are among those the ranges are given for.
LEMMA DepthsAre ==
  ASSUME StackInv
  PROVE  /\ StackTypes /\ StackOK /\ Top.depth \in Depths
         /\ returned => Top.depth - 1 \in Depths
<1>1. StackTypes /\ StackOK /\ PositionTypes
  BY TypesAre DEF StackInv
<1>2. /\ top \in Nat /\ top <= MaxPly /\ frame[0].depth \in Int
      /\ 0 <= frame[0].depth /\ frame[0].depth <= MaxIter /\ Top.depth \in Int
  <2>1. frame[0] \in Frames
    BY <1>1, PliesAre DEF StackTypes
  <2>2. frame[0].depth \in Int
    BY <2>1 DEF Frames
  <2>3. 0 <= frame[0].depth /\ frame[0].depth <= MaxIter
    BY <1>1 DEF StackOK, RootOK
  <2>4. top \in Nat /\ top <= MaxPly
    BY <1>1, BoundAssumption DEF StackTypes, Plies
  <2>5. Top.depth \in Int
    BY <1>1, TopIs
  <2>. QED BY <2>2, <2>3, <2>4, <2>5
<1>3. Top.depth = frame[0].depth - top
  BY <1>2 DEF StackInv, Balanced, Top
<1>4. returned => top + 1 <= MaxPly
  BY <1>1, BoundAssumption DEF StackInv, Balanced, PositionTypes, Plies
<1>. QED BY <1>1, <1>2, <1>3, <1>4, BoundAssumption DEF Depths

\* What a caller learns from the score of the move it has searched.
LEMMA ChildScore ==
  ASSUME StackInv, returned, ReturnSound, ~tainted, top > 0
  PROVE  /\ Score \in Int /\ Top.child \in MovesOf(Top) /\ Top.depth - 1 \in Depths
         /\ Score > Top.alpha => Score <= Hi[Top.node][Top.depth]
         /\ IF Top.at = "null" THEN Score <= Top.alpha => -Hi[Top.child][Top.depth - 1] <= Score
            ELSE Score < Top.beta => -Hi[Top.child][Top.depth - 1] <= Score
<1>. DEFINE m == Top.child
            d == Top.depth
<1>1. /\ StackTypes /\ StackOK /\ d \in Depths /\ d - 1 \in Depths
      /\ FrameOK(Top) /\ Waits(Top) /\ Top.alpha \in Int /\ Top.beta \in Int /\ ret \in Int
  BY DepthsAre, TopIs
<1>2. /\ m \in MovesOf(Top) /\ Top.node \in Nodes /\ ~IsDraw(Top.node, d)
      /\ Top.fn = "q" <=> Quiet(Top.node, d)
  BY <1>1 DEF FrameOK, Waits
<1>3. m \in Nodes
  BY <1>2, GameTypes DEF MovesOf
<1>4. Lo[m][d - 1] \in Int /\ Hi[m][d - 1] \in Int /\ Hi[Top.node][d] \in Int
  BY <1>1, <1>2, <1>3, ValueIs
<1>5. -Lo[m][d - 1] <= Hi[Top.node][d]
  <2>1. CASE Quiet(Top.node, d)
    BY <2>1, <1>1, <1>2, ValueIs DEF MovesOf
  <2>2. CASE ~Quiet(Top.node, d)
    BY <2>2, <1>1, <1>2, ValueIs DEF MovesOf
  <2>. QED BY <2>1, <2>2
<1>6. /\ ret < -Top.alpha => Lo[m][d - 1] <= ret
      /\ ret > ChildLow(Top) => ret <= Hi[m][d - 1]
  BY DEF ReturnSound, ScoreFits, FailSoft
<1>7. Score = -ret
  BY DEF Score
<1>8. Score > Top.alpha => Score <= Hi[Top.node][d]
  BY <1>1, <1>4, <1>5, <1>6, <1>7
<1>9. IF Top.at = "null" THEN Score <= Top.alpha => -Hi[m][d - 1] <= Score
      ELSE Score < Top.beta => -Hi[m][d - 1] <= Score
  BY <1>1, <1>4, <1>6, <1>7 DEF ChildLow
<1>. QED BY <1>1, <1>2, <1>7, <1>8, <1>9

-----------------------------------------------------------------------------
(* A return, a step and a call keep the scores sound.                       *)

LEMMA ReturnIsSound ==
  ASSUME StackInv, FramesSound, NEW s \in Int, ReturnScore(s), top > 0, UNCHANGED root,
         ScoreFits(s, Top.node, Top.depth, Top.low, Top.beta)
  PROVE  FramesSound' /\ ReturnSound'
<1>1. StackTypes /\ StackOK /\ top \in Nat
  BY DepthsAre, TopIs
<1>2. /\ top' = top - 1 /\ returned' = TRUE /\ ret' = s
      /\ Settled /\ Linked(frame[top - 1], Top)
  BY <1>1, ReturnKeeps
<1>3. \A i \in 0 .. top - 1 : frame'[i] = frame[i]
  BY <1>2 DEF Settled
<1>4. Top' = frame[top - 1]
  BY <1>1, <1>2, <1>3 DEF Top
<1>5. FramesSound'
  BY <1>1, <1>2, <1>3 DEF FramesSound
<1>. DEFINE p == frame[top - 1]
<1>6. ScoreFits(s, p.child, p.depth - 1, ChildLow(p), -p.alpha)
  BY <1>2 DEF Linked
<1>7. ScoreFits(ret', Top'.child, Top'.depth - 1, ChildLow(Top'), -Top'.alpha)
  BY <1>2, <1>4, <1>6
<1>8. ReturnSound'
  BY <1>7 DEF ReturnSound, ScoreFits, FailSoft, ChildLow
<1>. QED BY <1>5, <1>8

LEMMA StepIsSound ==
  ASSUME StackInv, FramesSound, NEW f \in Frames, frame' = [frame EXCEPT ![top] = f],
         top' = top, returned' = FALSE, top > 0 => ScoreOK(f)
  PROVE  FramesSound' /\ ReturnSound'
<1>1. StackTypes /\ top \in Plies /\ top \in Nat
  BY DepthsAre, TopIs DEF StackTypes
<1>2. frame'[top] = f /\ \A i \in Plies : i # top => frame'[i] = frame[i]
  BY <1>1 DEF StackTypes
<1>3. \A i \in 1 .. top - 1 : frame'[i] = frame[i]
  BY <1>1, <1>2, BoundAssumption DEF Plies
<1>4. FramesSound'
  BY <1>1, <1>2, <1>3 DEF FramesSound
<1>. QED BY <1>4 DEF ReturnSound

LEMMA CallIsSound ==
  ASSUME StackInv, FramesSound, NEW f \in Frames, NEW fn \in {"ab", "q"},
         NEW low \in Int, NEW beta \in Int, CallFor(f, fn, low, beta), top > 0 => ScoreOK(f)
  PROVE  FramesSound' /\ ReturnSound'
<1>. DEFINE g == NewFrame(fn, f.child, f.depth - 1, low, beta)
<1>1. StackTypes /\ top \in Plies /\ top \in Nat
  BY DepthsAre, TopIs DEF StackTypes
<1>2. f.child \in NodeOrNone /\ f.depth - 1 \in Int /\ fn \in Functions
  BY DEF Frames, Functions
<1>3. g \in Frames /\ g.at = "enter"
  BY <1>2, NewFrameIs
<1>. HIDE DEF g
<1>4. ScoreOK(g)
  BY <1>3 DEF ScoreOK
<1>5. top' = top + 1 /\ returned' = FALSE /\ top < MaxPly
  BY DEF CallFor
<1>6. top + 1 \in Plies
  BY <1>1, <1>5, BoundAssumption DEF Plies
<1>7. /\ frame'[top] = f /\ frame'[top + 1] = g
      /\ \A i \in Plies : i # top /\ i # top + 1 => frame'[i] = frame[i]
  BY <1>1, <1>6, SMT DEF CallFor, StackTypes, g
<1>8. \A i \in 1 .. top - 1 : frame'[i] = frame[i]
  BY <1>1, <1>7, BoundAssumption DEF Plies
<1>9. FramesSound'
  BY <1>1, <1>4, <1>5, <1>7, <1>8 DEF FramesSound
<1>. QED BY <1>5, <1>9 DEF ReturnSound

\* Storing a sound bound in the table.
LEMMA StoreIsSound ==
  ASSUME TypeOK, EntriesSound, NEW n \in Nodes, NEW type \in Types, NEW s \in Int,
         NEW d \in Int, StoreEntry(n, type, s, d), 0 <= d, d <= MaxIter, ~Quiet(n, d),
         type # "upper" => s <= Hi[n][d], type # "lower" => Lo[n][d] <= s
  PROVE  EntriesSound'
<1>. DEFINE e == Entry(n, type, s, d)
<1>1. e.key = n /\ e.type = type /\ e.score = s /\ e.depth = d
  BY EntryIs
<1>2. EntrySound(e)
  BY <1>1 DEF EntrySound
<1>3. table' = [table EXCEPT ![Index[n]] = IF @ = NoEntry \/ @.depth < d THEN e ELSE @]
  BY DEF StoreEntry
<1>. HIDE DEF e
<1>4. \A t \in Slots : table'[t] = e \/ table'[t] = table[t]
  BY <1>3 DEF TypeOK
<1>. QED BY <1>2, <1>4 DEF EntriesSound

LEMMA BetterIsSound ==
  ASSUME StackInv, returned, ReturnSound, ~tainted, top > 0, ScoreOK(Top),
         Score < Top.beta, Top.at # "first" => Score > Top.best,
         Top.at = "null" => ~Inside(Score)
  PROVE  ScoreOK(Better(Top, Score))
<1>. DEFINE g == Better(Top, Score)
            m == Top.child
<1>1. /\ StackTypes /\ StackOK /\ FrameOK(Top) /\ Waits(Top) /\ Top \in Frames
      /\ Top.alpha \in Int /\ Top.beta \in Int /\ Top.low \in Int /\ Top.best \in Int
      /\ Score \in Int /\ Top.node \in Nodes /\ Top.depth \in Depths
  BY DepthsAre, TopIs DEF FrameOK
<1>2. /\ m \in MovesOf(Top) /\ Top.depth - 1 \in Depths
      /\ Score > Top.alpha => Score <= Hi[Top.node][Top.depth]
  BY ChildScore
<1>3. -Hi[m][Top.depth - 1] <= Score
  BY <1>1, ChildScore DEF Inside
<1>4. /\ g.fn = Top.fn /\ g.at = "loop" /\ SameCall(g, Top) /\ g.left = Top.left
      /\ g.alpha = Max2(Top.alpha, Score) /\ g.best = Score
  BY <1>1, BetterIs
<1>. HIDE DEF g
<1>5. MovesOf(g) = MovesOf(Top) /\ ~Waits(g) /\ g.depth = Top.depth /\ g.node = Top.node
      /\ g.low = Top.low
  BY <1>4 DEF MovesOf, SameCall, Waits
<1>6. Score > Top.low => Score > Top.alpha
  <2>1. CASE Top.at = "first"
    BY <2>1, <1>1 DEF FrameOK
  <2>2. CASE Top.at # "first"
    <3>1. /\ Top.best <= Top.low => Top.alpha = Top.low
          /\ Top.best > Top.low => Top.alpha = Top.best
      BY <2>2, <1>1 DEF ScoreOK, Waits
    <3>. QED BY <2>2, <3>1, <1>1
  <2>. QED BY <2>1, <2>2
<1>7. Score <= Top.low => Top.alpha = Top.low
  <2>1. CASE Top.at = "first"
    BY <2>1, <1>1 DEF FrameOK
  <2>2. CASE Top.at # "first"
    <3>1. Top.best <= Top.low => Top.alpha = Top.low
      BY <2>2, <1>1 DEF ScoreOK, Waits
    <3>. QED BY <2>2, <3>1, <1>1
  <2>. QED BY <2>1, <2>2
<1>8. /\ g.best <= g.low => g.alpha = g.low
      /\ g.best > g.low => g.alpha = g.best /\ g.best <= Hi[g.node][g.depth]
  BY <1>1, <1>2, <1>4, <1>5, <1>6, <1>7 DEF Max2
<1>9. g.fn = "ab" => MovesOf(g) # {}
  BY <1>2, <1>5
<1>10. g.fn = "q" => StandPat(g.node) <= g.best
  <2>1. CASE g.fn = "q"
    <3>1. Top.fn = "q" /\ Top.at # "first" /\ Top.at # "enter"
      BY <2>1, <1>1, <1>4 DEF FrameOK, Waits
    <3>2. StandPat(Top.node) <= Top.best /\ Top.best < Score
      BY <3>1, <1>1 DEF ScoreOK
    <3>. QED BY <3>2, <1>1, <1>4, <1>5, GameTypes
  <2>. QED BY <2>1
<1>11. ASSUME NEW x \in MovesOf(g) \ g.left
       PROVE  g.depth - 1 \in Depths /\ -Hi[x][g.depth - 1] <= g.best
  <2>1. CASE x = m
    BY <2>1, <1>2, <1>3, <1>4, <1>5
  <2>2. CASE x # m
    <3>1. Top.at # "first" /\ Top.at # "enter"
      BY <2>2, <1>1, <1>4, <1>5 DEF ScoreOK, Waits
    <3>2. -Hi[x][Top.depth - 1] <= Top.best /\ Top.best < Score
      BY <2>2, <3>1, <1>4, <1>5 DEF ScoreOK
    <3>3. x \in Nodes
      BY <1>1, <1>5, GameTypes DEF MovesOf
    <3>4. Hi[x][Top.depth - 1] \in Int
      BY <3>3, <1>2, ValueIs
    <3>. QED BY <3>2, <3>4, <1>1, <1>2, <1>4, <1>5
  <2>. QED BY <2>1, <2>2
<1>. QED BY <1>4, <1>8, <1>9, <1>10, <1>11 DEF ScoreOK, g

LEMMA LoopIsSound ==
  ASSUME StackInv, returned, ReturnSound, ~tainted, top > 0, ScoreOK(Top),
         Top.at # "first", Score <= Top.best
  PROVE  ScoreOK([Top EXCEPT !.at = "loop"])
<1>. DEFINE g == [Top EXCEPT !.at = "loop"]
            m == Top.child
<1>1. /\ StackTypes /\ StackOK /\ FrameOK(Top) /\ Waits(Top) /\ Top \in Frames
      /\ Top.alpha \in Int /\ Top.beta \in Int /\ Top.low \in Int /\ Top.best \in Int
      /\ Score \in Int /\ Top.node \in Nodes /\ Top.depth \in Depths
  BY DepthsAre, TopIs DEF FrameOK
<1>2. /\ g.fn = Top.fn /\ g.at = "loop" /\ SameCall(g, Top) /\ g.left = Top.left
      /\ g.alpha = Top.alpha /\ g.best = Top.best
  <2>1. "loop" \in Places
    BY DEF Places
  <2>. QED BY <1>1, <2>1, GoesTo
<1>. HIDE DEF g
<1>3. MovesOf(g) = MovesOf(Top) /\ ~Waits(g) /\ g.depth = Top.depth /\ g.node = Top.node
      /\ g.low = Top.low
  BY <1>2 DEF MovesOf, SameCall, Waits
<1>4. /\ Top.fn = "ab" => MovesOf(Top) # {}
      /\ Top.fn = "q" => StandPat(Top.node) <= Top.best
      /\ Top.best <= Top.low => Top.alpha = Top.low
      /\ Top.best > Top.low => Top.alpha = Top.best /\ Top.best <= Hi[Top.node][Top.depth]
      /\ \A x \in MovesOf(Top) \ Top.left :
           x # m => Top.depth - 1 \in Depths /\ -Hi[x][Top.depth - 1] <= Top.best
  BY <1>1 DEF ScoreOK, Waits
<1>5. Top.best <= Top.alpha
  BY <1>1, <1>4 DEF FrameOK, Window
<1>6. m \in MovesOf(Top) /\ Top.depth - 1 \in Depths /\ -Hi[m][Top.depth - 1] <= Score
  BY <1>1, <1>5, ChildScore DEF FrameOK, Window
<1>7. Hi[m][Top.depth - 1] \in Int
  <2>1. m \in Nodes
    BY <1>1, <1>6, GameTypes DEF MovesOf
  <2>. QED BY <2>1, <1>6, ValueIs
<1>8. \A x \in MovesOf(g) \ g.left : g.depth - 1 \in Depths /\ -Hi[x][g.depth - 1] <= g.best
  BY <1>1, <1>2, <1>3, <1>4, <1>6, <1>7
<1>. QED BY <1>2, <1>3, <1>4, <1>8 DEF ScoreOK, g

AllSound == FramesSound /\ EntriesSound /\ ReturnSound

LEMMA CutOffIsSound ==
  ASSUME StackInv, FramesSound, EntriesSound, NEW s \in Int, CutOff(s), top > 0, UNCHANGED root,
         Top.fn = "ab", Top.at # "enter", s >= Top.beta, s <= Hi[Top.node][Top.depth], ~tainted'
  PROVE  AllSound'
<1>1. /\ StackTypes /\ StackOK /\ Top.depth \in Depths /\ Top.depth \in Int /\ FrameOK(Top)
      /\ Top.beta \in Int /\ TypeOK
  BY DepthsAre, TopIs DEF StackInv
<1>2. Top.node \in Nodes /\ ~Quiet(Top.node, Top.depth) /\ "lower" \in Types
  BY <1>1 DEF FrameOK, Types
<1>3. 0 <= Top.depth /\ Top.depth <= MaxIter
  <2>1. ~(Top.depth < 0)
    BY Zenon DEF CutOff
  <2>. QED BY <1>1, <2>1, BoundAssumption DEF Depths
<1>4. StoreEntry(Top.node, "lower", s, Top.depth) /\ ReturnScore(s)
  BY DEF CutOff
<1>5. EntriesSound'
  BY <1>1, <1>2, <1>3, <1>4, StoreIsSound
<1>6. ScoreFits(s, Top.node, Top.depth, Top.low, Top.beta)
  BY <1>1 DEF ScoreFits, FailSoft
<1>7. FramesSound' /\ ReturnSound'
  BY <1>4, <1>6, ReturnIsSound
<1>. QED BY <1>5, <1>7 DEF AllSound

LEMMA EntriesStay == ASSUME EntriesSound, UNCHANGED table PROVE EntriesSound'
BY DEF EntriesSound

\* A step that changes neither the table nor tainted, and returns s.
LEMMA PlainReturn ==
  ASSUME StackInv, ScoreInv, ~tainted, NEW s \in Int, ReturnScore(s), top > 0,
         UNCHANGED <<root, table>>, ScoreFits(s, Top.node, Top.depth, Top.low, Top.beta)
  PROVE  AllSound'
BY ReturnIsSound, EntriesStay DEF ScoreInv, AllSound

LEMMA PlainStep ==
  ASSUME StackInv, ScoreInv, ~tainted, NEW f \in Frames, frame' = [frame EXCEPT ![top] = f],
         top' = top, returned' = FALSE, UNCHANGED table, top > 0 => ScoreOK(f)
  PROVE  AllSound'
BY StepIsSound, EntriesStay DEF ScoreInv, AllSound

LEMMA PlainCall ==
  ASSUME StackInv, ScoreInv, ~tainted, NEW f \in Frames, NEW fn \in {"ab", "q"},
         NEW low \in Int, NEW beta \in Int, CallFor(f, fn, low, beta), top > 0 => ScoreOK(f)
  PROVE  AllSound'
BY CallIsSound, EntriesStay DEF ScoreInv, AllSound, CallFor

\* The score of the last call is sound, and so are the locals of the last frame.
LEMMA TopSound ==
  ASSUME StackInv, ScoreInv, ~tainted
  PROVE  /\ FramesSound /\ EntriesSound /\ ReturnSound
         /\ top > 0 => ScoreOK(Top)
<1>1. FramesSound /\ EntriesSound /\ ReturnSound
  BY DEF ScoreInv
<1>2. top \in Nat /\ Top = frame[top]
  BY DepthsAre, TopIs
<1>. QED BY <1>1, <1>2 DEF FramesSound

LEMMA EnterIsSound ==
  ASSUME StackInv, ScoreInv, ~tainted, EnterQuiet \/ EnterCheck
  PROVE  AllSound'
<1>1. Top \in Frames /\ Top.at = "enter" /\ ~returned /\ top > 0
  BY DepthsAre, TopIs DEF EnterQuiet, EnterCheck, Enters, At
<1>2. PICK fn \in Functions : frame' = [frame EXCEPT ![top] = [@ EXCEPT !.fn = fn]]
  BY DEF EnterQuiet, EnterCheck, Functions
<1>. DEFINE f == [Top EXCEPT !.fn = fn]
<1>3. f \in Frames /\ f.at = "enter"
  BY <1>1, BecomesCall
<1>4. frame' = [frame EXCEPT ![top] = f] /\ top' = top /\ returned' = FALSE /\ UNCHANGED table
  BY <1>1, <1>2 DEF Top, EnterQuiet, EnterCheck
<1>. HIDE DEF f
<1>5. ScoreOK(f)
  BY <1>3 DEF ScoreOK
<1>. QED BY <1>3, <1>4, <1>5, PlainStep

LEMMA EndIsSound ==
  ASSUME StackInv, ScoreInv, ~tainted,
         ReturnDraw \/ ReturnNoMove \/ QuietDraw \/ StandPatCutsOff
  PROVE  AllSound'
<1>. DEFINE n == Top.node
            d == Top.depth
<1>1. /\ top > 0 /\ FrameOK(Top) /\ Top.at = "enter" /\ n \in Nodes /\ d \in Depths
      /\ d \in Int /\ Top.beta \in Int
  BY DepthsAre, TopIs DEF ReturnDraw, ReturnNoMove, QuietDraw, StandPatCutsOff, MustSearch,
     Searches, Evaluates, Enters, At, FrameOK
<1>2. UNCHANGED <<root, table>>
  BY DEF ReturnDraw, ReturnNoMove, QuietDraw, StandPatCutsOff, goVars
<1>3. CASE ReturnDraw \/ QuietDraw
  <2>1. ReturnScore(0) /\ IsDraw(n, d) /\ 0 \in Int
    BY <1>1, <1>3 DEF ReturnDraw, QuietDraw, Searches, Enters, At, FrameOK, IsDraw, Quiet
  <2>2. ScoreFits(0, n, d, Top.low, Top.beta)
    BY <1>1, <2>1, ValueIs DEF ScoreFits, FailSoft
  <2>. HIDE DEF n, d
  <2>. QED BY <1>1, <1>2, <2>1, <2>2, PlainReturn, Zenon DEF n, d
<1>4. CASE ReturnNoMove
  <2>1. /\ ReturnScore(NoMoveScore(n, d)) /\ ~IsDraw(n, d) /\ Succ[n] = {} /\ ~Quiet(n, d)
        /\ NoMoveScore(n, d) \in Int
    BY <1>1, <1>4, GameTypes DEF ReturnNoMove, MustSearch, Searches, IsDraw
  <2>2. ScoreFits(NoMoveScore(n, d), n, d, Top.low, Top.beta)
    BY <1>1, <2>1, ValueIs DEF ScoreFits, FailSoft
  <2>. QED BY <1>1, <1>2, <2>1, <2>2, PlainReturn
<1>5. CASE StandPatCutsOff
  <2>1. /\ ReturnScore(StandPat(n)) /\ ~IsDraw(n, d) /\ Quiet(n, d) /\ StandPat(n) >= Top.beta
        /\ StandPat(n) \in Int
    BY <1>1, <1>5, GameTypes DEF StandPatCutsOff, Evaluates, Enters, At, FrameOK, Quiet, IsDraw
  <2>2. ScoreFits(StandPat(n), n, d, Top.low, Top.beta)
    BY <1>1, <2>1, ValueIs DEF ScoreFits, FailSoft
  <2>. QED BY <1>1, <1>2, <2>1, <2>2, PlainReturn
<1>. QED BY <1>3, <1>4, <1>5

LEMMA EntryIsSound ==
  ASSUME StackInv, ScoreInv, ~tainted, ReturnEntry
  PROVE  AllSound'
<1>. DEFINE n == Top.node
            d == Top.depth
            e == table[Index[n]]
<1>1. /\ top > 0 /\ FrameOK(Top) /\ n \in Nodes /\ d \in Depths /\ ~Quiet(n, d) /\ d \in Int
      /\ Top.alpha = Top.low /\ Top.low \in Int /\ Top.beta \in Int /\ TypeOK
  BY DepthsAre, TopIs DEF ReturnEntry, Searches, Enters, At, FrameOK, StackInv
<1>2. Index[n] \in Slots
  BY <1>1, TableAssumption
<1>3. /\ ReturnScore(e.score) /\ UNCHANGED <<root, table>>
      /\ e # NoEntry /\ e.key = n /\ e.depth >= d
      /\ \/ e.type = "exact"
         \/ e.type = "upper" /\ e.score <= Top.alpha
         \/ e.type = "lower" /\ e.score >= Top.beta
  BY DEF ReturnEntry, goVars, Usable
<1>4. e \in Entries /\ EntrySound(e)
  BY <1>1, <1>2, <1>3, TopSound DEF TypeOK, EntriesSound
<1>. HIDE DEF e
<1>5. e.score \in Int /\ e.depth \in Int /\ e.depth \in d .. MaxIter /\ e.depth \in Depths
  BY <1>1, <1>3, <1>4, BoundAssumption DEF Entries, EntrySound, Depths
<1>6. /\ Lo[n][d] <= Lo[n][e.depth] /\ Hi[n][e.depth] <= Hi[n][d]
      /\ Lo[n][d] \in Int /\ Hi[n][d] \in Int /\ Lo[n][e.depth] \in Int /\ Hi[n][e.depth] \in Int
  BY <1>1, <1>5, ValueIs
<1>7. ScoreFits(e.score, n, d, Top.low, Top.beta)
  BY <1>1, <1>3, <1>4, <1>5, <1>6 DEF ScoreFits, FailSoft, EntrySound
<1>. QED BY <1>1, <1>3, <1>5, <1>7, PlainReturn

\* A call that starts a new move of a call whose locals are sound.
LEMMA StartIsSound ==
  ASSUME StackInv, ScoreInv, ~tainted, FirstMove \/ NextMove \/ NextCapture
  PROVE  AllSound'
<1>1. /\ Top \in Frames /\ FrameOK(Top) /\ top > 0 /\ ~returned /\ ~Waits(Top) /\ ScoreOK(Top)
      /\ Top.alpha \in Int /\ Top.beta \in Int /\ Top.node \in Nodes
  BY DepthsAre, TopIs, TopSound DEF FirstMove, NextMove, NextCapture, MustSearch, Searches,
     Enters, At, FrameOK
<1>2. -Top.beta \in Int /\ -Top.alpha \in Int /\ -Top.alpha - 1 \in Int
  BY <1>1
<1>3. CASE FirstMove
  <2>. DEFINE L(m) == Succ[Top.node] \ {m}
              f(m) == Searching(Top, "first", m, L(m))
  <2>1. PICK m \in Succ[Top.node] : CallFor(f(m), "ab", -Top.beta, -Top.alpha)
    BY <1>3 DEF FirstMove
  <2>2. Top.fn = "ab"
    BY <1>3 DEF FirstMove, MustSearch, Searches, Enters, At
  <2>3. L(m) \in NodeSets /\ m \in NodeOrNone /\ "first" \in Places
    BY <1>1, GameTypes DEF NodeSets, NodeOrNone, Places
  <2>7. L(m) = Succ[Top.node] \ {m}
    OBVIOUS
  <2>. HIDE DEF L
  <2>4. /\ f(m) \in Frames /\ f(m).fn = "ab" /\ f(m).at = "first" /\ SameCall(f(m), Top)
        /\ f(m).left = L(m) /\ f(m).child = m
    <3>1. Top \in Frames
      BY <1>1
    <3>2. f(m) \in Frames /\ f(m).fn = "ab" /\ f(m).at = "first"
      BY <3>1, <2>2, <2>3, SearchesMove
    <3>3. SameCall(f(m), Top)
      BY <3>1, <2>3, SearchesMove
    <3>4. f(m).left = L(m) /\ f(m).child = m
      BY <3>1, <2>3, SearchesMove
    <3>. QED BY <3>2, <3>3, <3>4
  <2>. HIDE DEF f
  <2>5. ScoreOK(f(m))
    BY <2>4, <2>7 DEF ScoreOK, MovesOf, SameCall
  <2>6. "ab" \in {"ab", "q"}
    OBVIOUS
  <2>. QED BY <1>2, <2>1, <2>4, <2>5, <2>6, PlainCall, Zenon
<1>4. ASSUME NEW at \in {"null", "capture"}, NEW fn \in {"ab", "q"}, NEW low \in Int,
             NEW m \in Top.left, Top.at = "loop",
             CallFor(Searching(Top, at, m, Top.left \ {m}), fn, low, -Top.alpha)
      PROVE  AllSound'
  <2>. DEFINE L == Top.left \ {m}
              f == Searching(Top, at, m, L)
  <2>1. L \in NodeSets /\ m \in NodeOrNone /\ at \in Places
    BY <1>1, <1>4, GameTypes DEF NodeSets, NodeOrNone, Places, FrameOK, MovesOf
  <2>7. L = Top.left \ {m} /\ m \in MovesOf(Top)
    BY <1>1, <1>4 DEF FrameOK
  <2>2. CallFor(f, fn, low, -Top.alpha)
    BY <1>4
  <2>. HIDE DEF L
  <2>3. /\ f \in Frames /\ f.fn = Top.fn /\ f.at = at /\ SameCall(f, Top)
        /\ f.alpha = Top.alpha /\ f.best = Top.best /\ f.left = L /\ f.child = m
    <3>1. Top \in Frames
      BY <1>1
    <3>2. f \in Frames /\ f.fn = Top.fn /\ f.at = at
      BY <3>1, <2>1, SearchesMove
    <3>3. SameCall(f, Top)
      BY <3>1, <2>1, SearchesMove
    <3>4. f.alpha = Top.alpha /\ f.best = Top.best /\ f.left = L /\ f.child = m
      BY <3>1, <2>1, SearchesMove
    <3>. QED BY <3>2, <3>3, <3>4
  <2>. HIDE DEF f
  <2>4. MovesOf(f) = MovesOf(Top) /\ Waits(f) /\ f.at \notin {"enter", "first"}
    BY <1>4, <2>3 DEF MovesOf, SameCall, Waits
  <2>5. \A x \in MovesOf(f) \ f.left : x = m \/ x \in MovesOf(Top) \ Top.left
    BY <2>3, <2>4, <2>7
  <2>6. ScoreOK(f)
    BY <1>1, <1>4, <2>3, <2>4, <2>5 DEF ScoreOK, SameCall
  <2>. QED BY <1>2, <1>4, <2>2, <2>3, <2>6, PlainCall, Zenon
<1>5. CASE NextMove
  <2>1. PICK m \in Top.left : /\ Top.at = "loop"
                              /\ CallFor(Searching(Top, "null", m, Top.left \ {m}),
                                         "ab", -Top.alpha - 1, -Top.alpha)
    BY <1>5 DEF NextMove, At
  <2>. QED BY <1>2, <1>4, <2>1
<1>6. CASE NextCapture
  <2>1. PICK m \in Top.left : /\ Top.at = "loop"
                              /\ CallFor(Searching(Top, "capture", m, Top.left \ {m}),
                                         "q", -Top.beta, -Top.alpha)
    BY <1>6 DEF NextCapture, At
  <2>. QED BY <1>2, <1>4, <2>1
<1>. QED BY <1>3, <1>5, <1>6

LEMMA InsideIsSound ==
  ASSUME StackInv, ScoreInv, ~tainted, NullReturnsInside
  PROVE  AllSound'
<1>. DEFINE f == [Top EXCEPT !.at = "full"]
<1>1. /\ Top \in Frames /\ FrameOK(Top) /\ top > 0 /\ ScoreOK(Top) /\ Top.at = "null"
      /\ Top.alpha \in Int /\ Top.beta \in Int
  BY DepthsAre, TopIs, TopSound DEF NullReturnsInside, At
<1>2. "full" \in Places /\ -Top.beta \in Int /\ -Top.alpha \in Int
  BY <1>1 DEF Places
<1>3. /\ f \in Frames /\ f.fn = Top.fn /\ f.at = "full" /\ SameCall(f, Top)
      /\ f.alpha = Top.alpha /\ f.best = Top.best /\ f.left = Top.left /\ f.child = Top.child
  BY <1>1, <1>2, GoesTo
<1>4. CallFor(f, "ab", -Top.beta, -Top.alpha)
  BY DEF NullReturnsInside
<1>. HIDE DEF f
<1>5. MovesOf(f) = MovesOf(Top) /\ Waits(f) /\ Waits(Top)
  BY <1>1, <1>3 DEF MovesOf, SameCall, Waits
<1>6. ScoreOK(f)
  BY <1>1, <1>3, <1>5 DEF ScoreOK, SameCall
<1>. QED BY <1>2, <1>3, <1>4, <1>6, PlainCall

\* What is known of a call whose move has returned.
LEMMA WaitingIs ==
  ASSUME StackInv, ScoreInv, ~tainted, returned, top > 0
  PROVE  /\ FrameOK(Top) /\ ScoreOK(Top) /\ ReturnSound /\ FramesSound /\ EntriesSound
         /\ Top \in Frames /\ Top.alpha \in Int /\ Top.beta \in Int /\ Top.best \in Int
         /\ Score \in Int /\ Top.node \in Nodes
         /\ Score >= Top.beta => Score <= Hi[Top.node][Top.depth]
         /\ Better(Top, Score) \in Frames /\ [Top EXCEPT !.at = "loop"] \in Frames
<1>1. /\ FrameOK(Top) /\ ScoreOK(Top) /\ ReturnSound /\ FramesSound /\ EntriesSound
      /\ Top \in Frames /\ Top.alpha \in Int /\ Top.beta \in Int /\ Top.best \in Int
      /\ Score \in Int
  BY DepthsAre, TopIs, TopSound
<1>2. Score > Top.alpha => Score <= Hi[Top.node][Top.depth]
  BY <1>1, ChildScore
<1>3. Score >= Top.beta => Score > Top.alpha
  BY <1>1 DEF FrameOK, Window
<1>4. Better(Top, Score) \in Frames
  BY <1>1, BetterIs
<1>5. "loop" \in Places
  BY DEF Places
<1>6. [Top EXCEPT !.at = "loop"] \in Frames
  BY <1>1, <1>5, GoesTo
<1>. QED BY <1>1, <1>2, <1>3, <1>4, <1>6 DEF FrameOK

LEMMA FirstReturnsIsSound ==
  ASSUME StackInv, ScoreInv, ~tainted, ~tainted', FirstReturns
  PROVE  AllSound'
<1>1. returned /\ top > 0 /\ Top.at = "first" /\ Top.fn = "ab" /\ UNCHANGED root
  BY DepthsAre, TopIs DEF FirstReturns, At, goVars
<1>2. CASE Score >= Top.beta /\ CutOff(Score)
  BY <1>1, <1>2, WaitingIs, CutOffIsSound
<1>3. CASE Score < Top.beta /\ Continue(Better(Top, Score)) /\ UNCHANGED table
  <2>1. ScoreOK(Better(Top, Score)) /\ Better(Top, Score) \in Frames
    BY <1>1, <1>3, WaitingIs, BetterIsSound
  <2>2. /\ frame' = [frame EXCEPT ![top] = Better(Top, Score)]
        /\ top' = top /\ returned' = FALSE /\ UNCHANGED table
    BY <1>3 DEF Continue
  <2>. QED BY <2>1, <2>2, PlainStep
<1>. QED BY <1>2, <1>3 DEF FirstReturns

\* After a move that is not the first: Settle, and its counterpart in qSearch.
LEMMA MoveReturnsIsSound ==
  ASSUME StackInv, ScoreInv, ~tainted, ~tainted', NullReturns \/ FullReturns \/ CaptureReturns
  PROVE  AllSound'
<1>1. returned /\ top > 0 /\ Top.at \in {"null", "full", "capture"} /\ UNCHANGED root
  BY DepthsAre, TopIs DEF NullReturns, FullReturns, CaptureReturns, Settle, At, goVars
<1>2. Top.at = "null" => ~Inside(Score)
  BY DEF NullReturns, FullReturns, CaptureReturns, At
<1>3. CASE Score >= Top.beta /\ CutOff(Score) /\ Top.fn = "ab"
  BY <1>1, <1>3, WaitingIs, CutOffIsSound
<1>4. CASE Score < Top.beta /\ Score > Top.best /\ Continue(Better(Top, Score)) /\ UNCHANGED table
  <2>1. ScoreOK(Better(Top, Score)) /\ Better(Top, Score) \in Frames
    BY <1>1, <1>2, <1>4, WaitingIs, BetterIsSound
  <2>2. /\ frame' = [frame EXCEPT ![top] = Better(Top, Score)]
        /\ top' = top /\ returned' = FALSE /\ UNCHANGED table
    BY <1>4 DEF Continue
  <2>. QED BY <2>1, <2>2, PlainStep
<1>5. CASE Score <= Top.best /\ Continue([Top EXCEPT !.at = "loop"]) /\ UNCHANGED table
  <2>. DEFINE g == [Top EXCEPT !.at = "loop"]
  <2>1. ScoreOK(g) /\ g \in Frames
    BY <1>1, <1>5, WaitingIs, LoopIsSound
  <2>2. frame' = [frame EXCEPT ![top] = g] /\ top' = top /\ returned' = FALSE /\ UNCHANGED table
    BY <1>5 DEF Continue
  <2>. HIDE DEF g
  <2>. QED BY <2>1, <2>2, PlainStep
<1>6. CASE CaptureReturns /\ Score >= Top.beta /\ ReturnScore(Score)
  <2>1. UNCHANGED <<root, table>>
    BY <1>6 DEF CaptureReturns, goVars
  <2>2. ScoreFits(Score, Top.node, Top.depth, Top.low, Top.beta) /\ Score \in Int
    BY <1>1, <1>6, WaitingIs DEF ScoreFits, FailSoft
  <2>. QED BY <1>1, <1>6, <2>1, <2>2, PlainReturn
<1>7. CASE NullReturns \/ FullReturns
  <2>1. Settle(Score) /\ Top.fn = "ab"
    BY <1>7 DEF NullReturns, FullReturns, At
  <2>. QED BY <2>1, <1>3, <1>4, <1>5 DEF Settle
<1>8. CASE CaptureReturns
  BY <1>8, <1>4, <1>5, <1>6 DEF CaptureReturns
<1>. QED BY <1>7, <1>8


\* The end of a loop that has seen every move: no move is worth more than the best
\* score, and one move, or the stand pat score, is worth what the node is.
LEMMA LoopEndsIsSound ==
  ASSUME StackInv, ScoreInv, ~tainted, ~tainted', LoopEnds \/ CapturesEnd
  PROVE  AllSound'
<1>. DEFINE n == Top.node
            d == Top.depth
            s == Top.best
<1>1. /\ top > 0 /\ Top.at = "loop" /\ FrameOK(Top) /\ ScoreOK(Top) /\ s \in Int
      /\ n \in Nodes /\ d \in Depths /\ d \in Int /\ Top.low \in Int /\ Top.alpha \in Int
      /\ FramesSound /\ EntriesSound
  BY DepthsAre, TopIs, TopSound DEF LoopEnds, CapturesEnd, At, FrameOK
<1>2. ReturnScore(s) /\ UNCHANGED root
  BY DEF LoopEnds, CapturesEnd, goVars
<1>3. Top.left = {}
  BY Zenon DEF LoopEnds, CapturesEnd
<1>4. /\ ~IsDraw(n, d) /\ (Top.fn = "q" <=> Quiet(n, d)) /\ ~Waits(Top)
  BY <1>1 DEF FrameOK, Waits
<1>5. /\ Top.fn = "ab" => MovesOf(Top) # {}
      /\ Top.fn = "q" => StandPat(n) <= s
      /\ s <= Top.low => Top.alpha = Top.low
      /\ s > Top.low => Top.alpha = s /\ s <= Hi[n][d]
      /\ \A m \in MovesOf(Top) : d - 1 \in Depths /\ -Hi[m][d - 1] <= s
  BY <1>1, <1>3, <1>4 DEF ScoreOK
<1>6. Lo[n][d] <= s
  <2>1. Lo[n][d] \in Int /\ MovesOf(Top) \subseteq Nodes /\ StandPat(n) \in Int
    BY <1>1, ValueIs, GameTypes DEF MovesOf
  <2>2. ASSUME NEW m \in MovesOf(Top), d - 1 \in Depths => Lo[n][d] <= -Hi[m][d - 1]
        PROVE  Lo[n][d] <= s
    <3>1. Hi[m][d - 1] \in Int /\ Lo[n][d] <= -Hi[m][d - 1] /\ -Hi[m][d - 1] <= s
      BY <1>5, <2>1, <2>2, ValueIs
    <3>. QED BY <1>1, <2>1, <3>1
  <2>3. CASE Top.fn = "q"
    <3>1. \/ Lo[n][d] <= StandPat(n)
          \/ \E m \in MovesOf(Top) : d - 1 \in Depths => Lo[n][d] <= -Hi[m][d - 1]
      BY <1>1, <1>4, <2>3, ValueIs DEF MovesOf
    <3>2. StandPat(n) <= s
      BY <1>5, <2>3
    <3>. QED BY <1>1, <2>1, <2>2, <3>1, <3>2
  <2>4. CASE Top.fn # "q"
    <3>1. \E m \in MovesOf(Top) : d - 1 \in Depths => Lo[n][d] <= -Hi[m][d - 1]
      BY <1>1, <1>4, <1>5, <2>4, ValueIs DEF MovesOf, FrameOK
    <3>. QED BY <2>2, <3>1
  <2>. QED BY <2>3, <2>4
<1>7. ScoreFits(s, n, d, Top.low, Top.beta)
  BY <1>1, <1>5, <1>6 DEF ScoreFits, FailSoft
<1>8. FramesSound' /\ ReturnSound'
  BY <1>1, <1>2, <1>7, ReturnIsSound
<1>9. EntriesSound'
  <2>1. CASE LoopEnds
    <3>1. ~(d < 0) /\ StoreEntry(n, Kind(Top), s, d)
      BY <2>1, Zenon DEF LoopEnds
    <3>2. 0 <= d /\ d <= MaxIter
      BY <1>1, <3>1, BoundAssumption DEF Depths
    <3>3. ~Quiet(n, d)
      BY <1>4, <2>1 DEF LoopEnds, At
    <3>4. Kind(Top) = "upper" /\ "upper" \in Types
      BY <1>1, <1>5 DEF Kind, Types
    <3>5. TypeOK
      BY DEF StackInv
    <3>. QED BY <1>1, <1>6, <3>1, <3>2, <3>3, <3>4, <3>5, StoreIsSound
  <2>2. CASE CapturesEnd
    BY <1>1, <2>2, EntriesStay DEF CapturesEnd
  <2>. QED BY <2>1, <2>2
<1>. QED BY <1>8, <1>9 DEF AllSound

LEMMA StandPatIsSound ==
  ASSUME StackInv, ScoreInv, ~tainted, StandPatIsBest
  PROVE  AllSound'
<1>. DEFINE s == StandPat(Top.node)
            L == Tactical[Top.node]
            g == Better(Top, s)
            f == [g EXCEPT !.left = L]
<1>1. /\ top > 0 /\ FrameOK(Top) /\ Top.fn = "q" /\ Top.at = "enter"
      /\ Top.node \notin InCheck /\ ~IsDraw(Top.node, Top.depth) /\ Top.node \in Nodes
      /\ Top \in Frames /\ Top.alpha \in Int /\ Top.low \in Int /\ Top.alpha = Top.low
      /\ Top.depth \in Depths /\ Top.depth <= 0
  BY DepthsAre, TopIs DEF StandPatIsBest, Evaluates, Enters, At, FrameOK, IsDraw, Quiet
<1>2. s \in Int /\ L \in NodeSets /\ s <= Hi[Top.node][Top.depth]
  BY <1>1, GameTypes, ValueIs DEF NodeSets, Quiet
<1>3. /\ frame' = [frame EXCEPT ![top] = f] /\ top' = top /\ returned' = FALSE /\ UNCHANGED table
  BY DEF StandPatIsBest, Continue
<1>. HIDE DEF L
<1>4. /\ g \in Frames /\ g.fn = "q" /\ g.at = "loop" /\ SameCall(g, Top)
      /\ g.alpha = Max2(Top.alpha, s) /\ g.best = s
  <2>. HIDE DEF s
  <2>. QED BY <1>1, <1>2, BetterIs
<1>. HIDE DEF g
<1>5. /\ f \in Frames /\ f.fn = "q" /\ f.at = "loop" /\ SameCall(f, Top)
      /\ f.alpha = Max2(Top.alpha, s) /\ f.best = s /\ f.left = L
  <2>. HIDE DEF s
  <2>1. f \in Frames
    BY <1>2, <1>4, SMT DEF Frames
  <2>2. /\ f.fn = g.fn /\ f.at = g.at /\ f.node = g.node /\ f.depth = g.depth /\ f.low = g.low
        /\ f.beta = g.beta /\ f.alpha = g.alpha /\ f.left = L /\ f.best = g.best
    BY <1>4, SMT DEF Frames
  <2>. QED BY <1>4, <2>1, <2>2 DEF SameCall
<1>6. MovesOf(f) = L /\ f.node = Top.node /\ f.depth = Top.depth /\ f.low = Top.low
  BY <1>5 DEF MovesOf, SameCall, L
<1>. HIDE DEF f
<1>7. ScoreOK(f)
  <2>. HIDE DEF s
  <2>1. /\ f.best <= f.low => f.alpha = f.low
        /\ f.best > f.low => f.alpha = f.best /\ f.best <= Hi[f.node][f.depth]
    BY <1>1, <1>2, <1>5, <1>6 DEF Max2
  <2>2. StandPat(f.node) <= f.best
    <3>1. StandPat(f.node) = s
      BY <1>6 DEF s
    <3>. QED BY <1>2, <1>5, <3>1
  <2>3. \A m \in MovesOf(f) : m \in f.left
    BY <1>5, <1>6
  <2>. QED BY <1>5, <2>1, <2>2, <2>3 DEF ScoreOK
<1>. QED BY <1>3, <1>5, <1>7, PlainStep

LEMMA RootIsSound ==
  ASSUME StackInv, ScoreInv, ~tainted, RootSearch
  PROVE  AllSound'
<1>1. Top \in Frames /\ root \in Nodes /\ MaxScore \in Int /\ MinScore \in Int
  BY DepthsAre, TopIs, GameAssumption, BoundAssumption DEF StackInv, TypeOK, MinScore
<1>2. ASSUME NEW m \in Succ[root], NEW d \in Top.depth .. MaxIter, NEW low \in Int,
             NEW beta \in Int, NEW at \in {"null", "full"}, RootCall(m, d, low, beta, at)
      PROVE  AllSound'
  <2>. DEFINE f == AsksFor(Top, at, d, m, low, beta)
  <2>1. m \in NodeOrNone /\ at \in Places /\ d \in Int /\ ~(top > 0) /\ "ab" \in {"ab", "q"}
    BY <1>1, <1>2, DepthsAre, TopIs, GameTypes DEF NodeOrNone, Places, RootCall
  <2>2. f \in Frames
    BY <1>1, <1>2, <2>1, RootSearchesMove
  <2>3. CallFor(f, "ab", low, beta)
    BY <1>2 DEF RootCall
  <2>. HIDE DEF f
  <2>. QED BY <1>2, <2>1, <2>2, <2>3, PlainCall
<1>3. CASE \E m \in Succ[root], d \in Top.depth .. MaxIter : RootFirst(m, d)
  <2>1. "full" \in {"null", "full"}
    OBVIOUS
  <2>. QED BY <1>1, <1>2, <1>3, <2>1 DEF RootFirst
<1>4. CASE \E m \in Succ[root], d \in Top.depth .. MaxIter, s \in RootScores : RootNull(m, d, s)
  <2>1. PICK m \in Succ[root], d \in Top.depth .. MaxIter, s \in RootScores :
          RootCall(m, d, -s - 1, -s, "null")
    BY <1>4 DEF RootNull
  <2>2. -s - 1 \in Int /\ -s \in Int /\ "null" \in {"null", "full"}
    BY BoundAssumption
  <2>. QED BY <1>2, <2>1, <2>2
<1>5. CASE RootAgain
  <2>. DEFINE f == [Top EXCEPT !.at = "full", !.beta = MaxScore]
  <2>1. CallFor(f, "ab", MinScore, -Top.alpha) /\ ~(top > 0)
    BY <1>5 DEF RootAgain
  <2>2. f \in Frames
    BY <1>1, RootAsksAgain
  <2>3. -Top.alpha \in Int /\ "ab" \in {"ab", "q"}
    BY DepthsAre, TopIs
  <2>. HIDE DEF f
  <2>. QED BY <1>1, <2>1, <2>2, <2>3, PlainCall
<1>6. CASE RootTakes
  <2>. DEFINE f == RootFrame(root, Top.depth)
  <2>1. /\ frame' = [frame EXCEPT ![top] = f] /\ top' = top /\ returned' = FALSE
        /\ UNCHANGED table /\ ~(top > 0)
    BY <1>6 DEF RootTakes, Continue
  <2>2. f \in Frames
    <3>1. Top.depth \in Int
      BY DepthsAre, TopIs
    <3>. QED BY <1>1, <3>1, RootFrameIs
  <2>. HIDE DEF f
  <2>. QED BY <2>1, <2>2, PlainStep
<1>. QED BY <1>3, <1>4, <1>5, <1>6 DEF RootSearch

-----------------------------------------------------------------------------
(* The theorems about the scores.                                           *)

LEMMA ScoreInit == ASSUME Init PROVE ScoreInv
<1>1. top = 0 /\ returned = FALSE
  BY DEF Init
<1>2. FramesSound
  BY <1>1 DEF FramesSound
<1>3. \A s \in Slots : table[s] = NoEntry
  BY DEF Init
<1>. QED BY <1>1, <1>2, <1>3 DEF ScoreInv, EntriesSound, ReturnSound

LEMMA ScoreStep == ASSUME StackInv, ScoreInv, [Next]_vars PROVE ScoreInv'
<1>. SUFFICES ASSUME ~tainted' PROVE AllSound'
  BY DEF ScoreInv, AllSound
<1>1. CASE NewGo
  <2>1. ~tainted /\ UNCHANGED table /\ top' = 0 /\ returned' = FALSE
    BY <1>1 DEF NewGo
  <2>2. EntriesSound'
    BY <2>1, TopSound, EntriesStay
  <2>3. FramesSound' /\ ReturnSound'
    BY <2>1 DEF FramesSound, ReturnSound
  <2>. QED BY <2>2, <2>3 DEF AllSound
<1>2. CASE Abort \/ UNCHANGED vars
  <2>1. UNCHANGED <<frame, top, returned, ret, table, tainted>>
    BY <1>2 DEF Abort, vars
  <2>2. FramesSound /\ EntriesSound /\ ReturnSound
    BY <2>1, TopSound
  <2>. QED BY <2>1, <2>2 DEF AllSound, FramesSound, EntriesSound, ReturnSound, Top
<1>3. CASE FirstReturns
  <2>1. ~tainted
    BY <1>3, Zenon DEF FirstReturns, CutOff
  <2>. QED BY <1>3, <2>1, FirstReturnsIsSound
<1>4. CASE NullReturns \/ FullReturns \/ CaptureReturns
  <2>1. ~tainted
    BY <1>4, Zenon DEF NullReturns, FullReturns, CaptureReturns, Settle, CutOff
  <2>. QED BY <1>4, <2>1, MoveReturnsIsSound
<1>5. CASE LoopEnds \/ CapturesEnd
  <2>1. ~tainted
    BY <1>5, Zenon DEF LoopEnds, CapturesEnd
  <2>. QED BY <1>5, <2>1, LoopEndsIsSound
<1>6. CASE FirstMove \/ NextMove \/ NextCapture \/ NullReturnsInside
  <2>1. ~tainted
    BY <1>6, Zenon DEF FirstMove, NextMove, NextCapture, NullReturnsInside, CallFor
  <2>. QED BY <1>6, <2>1, StartIsSound, InsideIsSound
<1>7. CASE \/ EnterQuiet \/ EnterCheck \/ ReturnDraw \/ ReturnNoMove \/ QuietDraw
           \/ StandPatCutsOff \/ StandPatIsBest \/ ReturnEntry
  <2>1. ~tainted
    BY <1>7, Zenon DEF EnterQuiet, EnterCheck, ReturnDraw, ReturnNoMove, QuietDraw,
       StandPatCutsOff, StandPatIsBest, ReturnEntry
  <2>. QED BY <1>7, <2>1, EnterIsSound, EndIsSound, StandPatIsSound, EntryIsSound
<1>8. CASE RootSearch
  <2>1. ~tainted
    BY <1>8, Zenon DEF RootSearch, RootFirst, RootNull, RootCall, RootAgain, RootTakes, CallFor
  <2>. QED BY <1>8, <2>1, RootIsSound
<1>. QED BY <1>1, <1>2, <1>3, <1>4, <1>5, <1>6, <1>7, <1>8 DEF Next, AbSearch, QSearch

LEMMA AlwaysScoreInv == Spec => []ScoreInv
<1>1. Spec => [](StackInv /\ ScoreInv)
  BY StackInit, StackStep, ScoreInit, ScoreStep, PTL DEF Spec
<1>2. StackInv /\ ScoreInv => ScoreInv
  OBVIOUS
<1>. QED BY <1>1, <1>2, PTL

\* Whatever the table already holds for the node, a call answers its window: as long
\* as no search was cut short and no negative depth stored, the score returned
\* bounds the score of the position on the side of the window it falls.
THEOREM AlwaysReturnSound == Spec => []ReturnSound
<1>1. ScoreInv => ReturnSound
  BY DEF ScoreInv, ReturnSound
<1>. QED BY <1>1, AlwaysScoreInv, PTL

\* Under the same condition no entry of the table, in whichever search and for
\* whichever go it was stored, promises more than a search as deep would find.
THEOREM AlwaysTableSound == Spec => []TableSound
<1>1. ScoreInv => TableSound
  BY DEF ScoreInv, TableSound, EntriesSound, EntrySound
<1>. QED BY <1>1, AlwaysScoreInv, PTL

-----------------------------------------------------------------------------
(* What the root gets.                                                      *)

\* Seen from the root the window and the range are turned round.
LEMMA TurnedRound ==
  ASSUME NEW r \in Int, NEW low \in Int, NEW high \in Int,
         NEW alpha \in Int, NEW beta \in Int, FailSoft(r, low, high, -beta, -alpha)
  PROVE  FailSoft(-r, -high, -low, alpha, beta)
BY DEF FailSoft

\* A fail-soft score for a window that is open is a score if the range is of scores.
LEMMA FailSoftIsScore ==
  ASSUME NEW r \in Int, NEW low \in Int, NEW high \in Int,
         NEW alpha \in Int, NEW beta \in Int, FailSoft(r, low, high, alpha, beta),
         MinScore <= alpha, alpha < beta, beta <= MaxScore,
         MinScore <= low, high <= MaxScore
  PROVE  MinScore <= r /\ r <= MaxScore
BY BoundAssumption DEF FailSoft, MinScore

\* What RootSearch takes as the results of a search of Top.child: alpha is its
\* scores[0] or MIN_SCORE, beta one more or MAX_SCORE.
RootAnswered ==
  top = 0 /\ returned /\ ~tainted =>
    LET low == -Hi[Top.child][Top.depth - 1]
        high == -Lo[Top.child][Top.depth - 1] IN
    /\ Top.beta \in {Top.alpha + 1, MaxScore}
    /\ FailSoft(Score, low, high, Top.alpha, Top.beta)
    /\ MinScore <= low /\ high <= MaxScore => MinScore <= Score /\ Score <= MaxScore

\* A search of a root move that has not been cut short, with no negative depth
\* stored before, gives rootSearch a score of the kind RootSearch relies on, so that
\* what is proved there of the move printed holds over this search and this table.
THEOREM AlwaysRootAnswered == Spec => []RootAnswered
<1>1. StackInv /\ ScoreInv => RootAnswered
  <2>. SUFFICES ASSUME StackInv, ScoreInv, top = 0, returned, ~tainted
       PROVE  LET low == -Hi[Top.child][Top.depth - 1]
                  high == -Lo[Top.child][Top.depth - 1] IN
              /\ Top.beta \in {Top.alpha + 1, MaxScore}
              /\ FailSoft(Score, low, high, Top.alpha, Top.beta)
              /\ MinScore <= low /\ high <= MaxScore =>
                   MinScore <= Score /\ Score <= MaxScore
    BY DEF RootAnswered
  <2>. DEFINE lo == Lo[Top.child][Top.depth - 1]
              hi == Hi[Top.child][Top.depth - 1]
  <2>1. /\ RootOK(Top) /\ Waits(Top) /\ Top.depth - 1 \in Depths
        /\ Top.alpha \in Int /\ Top.beta \in Int /\ ret \in Int /\ Score \in Int
    BY DepthsAre, TopIs
  <2>2. /\ Top.at \in {"null", "full"} /\ Top.child \in Nodes /\ Window(Top)
        /\ Top.beta = IF Top.at = "null" THEN Top.alpha + 1 ELSE MaxScore
    BY <2>1 DEF RootOK, Waits
  <2>3. lo \in Int /\ hi \in Int
    BY <2>1, <2>2, ValueIs
  <2>4. MinScore <= Top.alpha /\ Top.alpha < Top.beta /\ Top.beta <= MaxScore
    BY <2>1, <2>2, BoundAssumption DEF RootOK, Window, MinScore
  <2>5. ChildLow(Top) = -Top.beta
    BY <2>1, <2>2 DEF ChildLow
  <2>6. FailSoft(ret, lo, hi, -Top.beta, -Top.alpha)
    BY <2>5 DEF ScoreInv, ReturnSound, ScoreFits
  <2>7. Score = -ret
    BY DEF Score
  <2>. HIDE DEF lo, hi
  <2>8. FailSoft(Score, -hi, -lo, Top.alpha, Top.beta)
    BY <2>1, <2>3, <2>6, <2>7, TurnedRound
  <2>9. MinScore <= -hi /\ -lo <= MaxScore => MinScore <= Score /\ Score <= MaxScore
    BY <2>1, <2>3, <2>4, <2>8, FailSoftIsScore
  <2>. QED BY <2>2, <2>8, <2>9 DEF lo, hi
<1>2. Spec => []StackInv
  BY StackInit, StackStep, PTL DEF Spec
<1>. QED BY <1>1, <1>2, AlwaysScoreInv, PTL
=============================================================================
