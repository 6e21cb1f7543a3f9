-------------------------- MODULE UciSessionProofs --------------------------
(***************************************************************************)
(* Theorems about UciSession, for any game, any number of matches and      *)
(* crashes and each of the programs.                                       *)
(*                                                                         *)
(* The lines in a pipe are used in order, so that what matters of a pipe   *)
(* is which commands are in it and which comes last: the lemmas about      *)
(* lines say how a line more or less changes that, and the rest of the     *)
(* proof does not look into the pipes.                                     *)
(***************************************************************************)
EXTENDS UciSession, SequenceTheorems, TLAPS

Has(s, c) == \E k \in 1 .. Len(s) : s[k].cmd = c
AtEnd(s, c) == \A k \in 1 .. Len(s) : s[k].cmd = c => k = Len(s)
Only(s, c) == \A k \in 1 .. Len(s) : s[k].cmd = c
First(s, c) == \A j, k \in 1 .. Len(s) : s[k].cmd = c /\ j <= k => s[j].cmd = c
Placed(s) == \A k \in 1 .. Len(s) : s[k].cmd = "position" => s[k].at \in Positions
Loads(s) == Has(s, "position") \/ Has(s, "ucinewgame")

-----------------------------------------------------------------------------
(* Lines.                                                                   *)

LEMMA LineAdded ==
  ASSUME NEW s \in Seq(Lines), NEW l \in Lines
  PROVE  /\ Append(s, l) \in Seq(Lines) /\ Append(s, l) # <<>>
         /\ \A c : Has(Append(s, l), c) <=> Has(s, c) \/ l.cmd = c
         /\ \A c : ~Has(s, c) => AtEnd(Append(s, l), c)
         /\ \A c : Only(s, c) /\ l.cmd = c => Only(Append(s, l), c)
         /\ \A c : First(s, c) /\ (l.cmd # c \/ Only(s, c)) => First(Append(s, l), c)
         /\ Placed(s) /\ (l.cmd = "position" => l.at \in Positions) => Placed(Append(s, l))
  <1> DEFINE t == Append(s, l)
             n == Len(s)
  <1>1. n \in Nat /\ t \in Seq(Lines) /\ Len(t) = n + 1
    OBVIOUS
  <1>2. t[n + 1] = l /\ \A k \in 1 .. n : t[k] = s[k]
    OBVIOUS
  <1>3. t # <<>>
    BY <1>1
  <1> HIDE DEF t
  <1>4. \A k \in 1 .. n + 1 : k \in 1 .. n \/ k = n + 1
    BY <1>1
  <1>5. \A k \in 1 .. n : k \in 1 .. n + 1 /\ k # n + 1
    BY <1>1
  <1>6. n + 1 \in 1 .. n + 1
    BY <1>1
  <1>7. ASSUME NEW c PROVE Has(t, c) <=> Has(s, c) \/ l.cmd = c
    BY <1>1, <1>2, <1>4, <1>5, <1>6 DEF Has
  <1>8. ASSUME NEW c, ~Has(s, c) PROVE AtEnd(t, c)
    BY <1>8, <1>1, <1>2, <1>4 DEF Has, AtEnd
  <1>9. ASSUME NEW c, Only(s, c), l.cmd = c PROVE Only(t, c)
    BY <1>9, <1>1, <1>2, <1>4 DEF Only
  <1>10. ASSUME NEW c, First(s, c), l.cmd # c \/ Only(s, c) PROVE First(t, c)
    <2> SUFFICES ASSUME NEW j \in 1 .. n + 1, NEW k \in 1 .. n + 1, t[k].cmd = c, j <= k
                 PROVE  t[j].cmd = c
      BY <1>1 DEF First
    <2>1. CASE k \in 1 .. n
      <3>1. j \in 1 .. n
        BY <2>1, <1>1
      <3> QED
        BY <2>1, <3>1, <1>2, <1>10 DEF First
    <2>2. CASE k = n + 1
      <3>1. l.cmd = c /\ Only(s, c)
        BY <2>2, <1>2, <1>10
      <3> QED
        BY <3>1, <1>2, <1>4 DEF Only
    <2> QED
      BY <2>1, <2>2, <1>4
  <1>11. ASSUME Placed(s), l.cmd = "position" => l.at \in Positions PROVE Placed(t)
    BY <1>11, <1>1, <1>2, <1>4 DEF Placed
  <1> QED
    BY <1>1, <1>3, <1>7, <1>8, <1>9, <1>10, <1>11 DEF t

LEMMA LineTaken ==
  ASSUME NEW s \in Seq(Lines), s # <<>>
  PROVE  /\ Head(s) \in Lines /\ Tail(s) \in Seq(Lines)
         /\ \A c : Has(s, c) <=> Head(s).cmd = c \/ Has(Tail(s), c)
         /\ \A c : AtEnd(s, c) => AtEnd(Tail(s), c) /\ (Head(s).cmd = c => Tail(s) = <<>>)
         /\ \A c : Only(s, c) => Only(Tail(s), c) /\ Head(s).cmd = c
         /\ \A c : First(s, c) => First(Tail(s), c)
                                  /\ (Head(s).cmd # c => ~Has(Tail(s), c))
         /\ Placed(s) => Placed(Tail(s)) /\ (Head(s).cmd = "position" => Head(s).at \in Positions)
  <1> DEFINE t == Tail(s)
             h == Head(s)
             n == Len(t)
  <1>1. n \in Nat /\ t \in Seq(Lines) /\ Len(s) = n + 1 /\ h \in Lines
    OBVIOUS
  <1>2. h = s[1] /\ \A k \in 1 .. n : t[k] = s[k + 1]
    OBVIOUS
  <1>3. n = 0 => t = <<>>
    BY <1>1, EmptySeq
  <1> HIDE DEF t, h
  <1>4. \A k \in 1 .. n + 1 : k = 1 \/ (k - 1 \in 1 .. n /\ s[k] = t[k - 1])
    BY <1>1, <1>2
  <1>5. \A k \in 1 .. n : k + 1 \in 1 .. n + 1
    BY <1>1
  <1>6. 1 \in 1 .. n + 1
    BY <1>1
  <1>7. ASSUME NEW c PROVE Has(s, c) <=> h.cmd = c \/ Has(t, c)
    <2>1. Has(t, c) => Has(s, c)
      BY <1>1, <1>2, <1>5 DEF Has
    <2>2. h.cmd = c => Has(s, c)
      BY <1>1, <1>2, <1>6 DEF Has
    <2>3. Has(s, c) => h.cmd = c \/ Has(t, c)
      BY <1>1, <1>2, <1>4 DEF Has
    <2> QED
      BY <2>1, <2>2, <2>3
  <1>8. ASSUME NEW c, AtEnd(s, c) PROVE AtEnd(t, c) /\ (h.cmd = c => t = <<>>)
    <2>1. ASSUME NEW k \in 1 .. n, t[k].cmd = c PROVE k = n
      <3>1. k + 1 = n + 1
        BY <2>1, <1>1, <1>2, <1>5, <1>8 DEF AtEnd
      <3> QED
        BY <3>1, <1>1
    <2>2. h.cmd = c => 1 = n + 1
      BY <1>1, <1>2, <1>6, <1>8 DEF AtEnd
    <2> QED
      BY <2>1, <2>2, <1>1, <1>3 DEF AtEnd
  <1>9. ASSUME NEW c, Only(s, c) PROVE Only(t, c) /\ h.cmd = c
    BY <1>9, <1>1, <1>2, <1>5, <1>6 DEF Only
  <1>10. ASSUME NEW c, First(s, c) PROVE First(t, c) /\ (h.cmd # c => ~Has(t, c))
    <2>1. ASSUME NEW j \in 1 .. n, NEW k \in 1 .. n, t[k].cmd = c, j <= k
          PROVE  t[j].cmd = c
      <3>1. j + 1 \in 1 .. n + 1 /\ k + 1 \in 1 .. n + 1 /\ j + 1 <= k + 1
        BY <2>1, <1>1
      <3> QED
        BY <3>1, <2>1, <1>1, <1>2, <1>10 DEF First
    <2>2. ASSUME NEW k \in 1 .. n, t[k].cmd = c PROVE h.cmd = c
      <3>1. 1 \in 1 .. n + 1 /\ k + 1 \in 1 .. n + 1 /\ 1 <= k + 1
        BY <1>1
      <3> QED
        BY <3>1, <2>2, <1>1, <1>2, <1>10 DEF First
    <2> QED
      BY <2>1, <2>2 DEF First, Has
  <1>11. ASSUME Placed(s) PROVE Placed(t) /\ (h.cmd = "position" => h.at \in Positions)
    BY <1>11, <1>1, <1>2, <1>5, <1>6 DEF Placed
  <1> QED
    BY <1>1, <1>7, <1>8, <1>9, <1>10, <1>11 DEF t, h
-----------------------------------------------------------------------------
(* The invariant.                                                           *)

\* The bot owes an answer, which a mute one will not give.
Thinking(i) == bot[i] \in {"thinking", "reporting", "mute"}

\* Nothing is asked of the bot and no answer is under way.
Quiet(i) ==
  /\ ~Thinking(i)
  /\ Alive(i) => ~Has(to[i], "go")
  /\ ~Has(from[i], "bestmove")

Starting == gui \in {"fork", "hello", "shake", "again"}

GuiOK ==
  /\ GuiUp => games < Matches
  /\ gui \in {"fork", "hello", "shake"} => cur \in Bots
  /\ gui = "fork" => \A j \in Bots : j >= cur => bot[j] = "none"
  /\ gui \in {"hello", "shake"} => \A j \in Bots : j > cur => bot[j] = "none"
  /\ gui \in {"go", "read"} => Mover \in Bots
  /\ gui = "go" => root[Mover] \in Positions \/ Loads(to[Mover])

\* Without the first conjunct a line could follow a bestmove or a go.
BotOK(i) ==
  /\ GuiUp => (gui = "read" /\ i = Mover) \/ Quiet(i)
  /\ Starting => Only(to[i], "uci") /\ root[i] = NoPosition
  /\ Thinking(i) => to[i] = <<>> /\ ~Has(from[i], "bestmove") /\ root[i] \in Positions
  /\ Has(to[i], "go") => /\ ~Has(from[i], "bestmove")
                         /\ root[i] \in Positions \/ Loads(to[i])
  /\ Has(from[i], "bestmove") => to[i] = <<>> /\ bot[i] \in {"idle", "dead", "exited"}
  /\ AtEnd(to[i], "go") /\ AtEnd(from[i], "bestmove")
  /\ First(to[i], "uci") /\ Placed(to[i])
  /\ Has(to[i], "uci") => root[i] = NoPosition

IInv == TypeOK /\ GuiOK /\ \A i \in Bots : BotOK(i)

-----------------------------------------------------------------------------
(* Facts that many steps use.                                               *)

LEMMA EmptyLine ==
  /\ <<>> \in Seq(Lines)
  /\ \A c : ~Has(<<>>, c) /\ AtEnd(<<>>, c) /\ Only(<<>>, c) /\ First(<<>>, c)
  /\ Placed(<<>>)
  BY EmptySeq DEF Has, AtEnd, Only, First, Placed

\* It is a bot's turn unless a person plays.
LEMMA MoverIs ==
  ASSUME TypeOK
  PROVE  /\ Mover \in {0, 1, 2}
         /\ Mover # 0 => Mover \in Bots
         /\ program # "chess" => Mover \in Bots
  <1>1. (games + seat) % 2 \in {0, 1}
    <2>1. games + seat \in Nat
      BY ProgramAssumption DEF TypeOK
    <2> QED
      BY <2>1
  <1>2. program \in {"botvbot", "testbot", "chess"} /\ seat \in {0, 1}
    BY ProgramAssumption DEF TypeOK
  <1> QED
    BY <1>1, <1>2 DEF Mover, Bots

LEMMA CountIs == Count \in Bots
  BY DEF Count, Bots

LEMMA CommandIs ==
  ASSUME NEW c \in {"uci", "ucinewgame", "go", "id", "uciok", "info"}
  PROVE  Command(c) \in Lines /\ Command(c).cmd = c
  BY DEF Command, Lines

LEMMA InitIsOK == Init => IInv
  <1> SUFFICES ASSUME Init PROVE IInv
    OBVIOUS
  <1>1. TypeOK
    BY EmptyLine, ProgramAssumption, GameAssumption DEF Init, TypeOK, Bots
  <1>2. GuiOK
    BY ProgramAssumption DEF Init, GuiOK, GuiUp, Bots
  <1>3. ASSUME NEW i \in Bots PROVE BotOK(i)
    BY EmptyLine DEF Init, BotOK, Quiet, Thinking, Alive, Starting
  <1> QED
    BY <1>1, <1>2, <1>3 DEF IInv

-----------------------------------------------------------------------------
(* What the operators that use a pipe do.                                   *)

\* Nothing of the bot i changes, and the GUI does not begin anything.
LEMMA OtherBotKeeps ==
  ASSUME NEW i \in Bots, BotOK(i),
         to'[i] = to[i], from'[i] = from[i], bot'[i] = bot[i], root'[i] = root[i],
         GuiUp' => (gui' = "read" /\ i = Mover') \/ Quiet(i),
         Starting' => Starting
  PROVE  BotOK(i)'
  BY DEF BotOK, Quiet, Thinking, Alive

\* The GUI sends a line: it is quiet, and stays so but for a go.
LEMMA LineSent ==
  ASSUME IInv, NEW i \in Bots, NEW l \in Lines, Alive(i), GuiUp, gui # "read",
         to' = [to EXCEPT ![i] = Append(@, l)], UNCHANGED <<from, bot, root>>,
         l.cmd = "position" => l.at \in Positions,
         l.cmd = "uci" => Starting,
         l.cmd = "go" => /\ gui' = "read" /\ i = Mover'
                         /\ root[i] \in Positions \/ Loads(to[i]),
         l.cmd # "bestmove",
         Starting' => Starting /\ l.cmd = "uci"
  PROVE  BotOK(i)'
  <1>1. to[i] \in Seq(Lines) /\ to'[i] = Append(to[i], l)
    BY DEF IInv, TypeOK
  <1>2. /\ Quiet(i) /\ BotOK(i) /\ ~Has(to[i], "go")
    BY DEF IInv, BotOK, Quiet
  <1>3. from'[i] = from[i] /\ bot'[i] = bot[i] /\ root'[i] = root[i]
    OBVIOUS
  <1>4. /\ \A c : Has(to'[i], c) <=> Has(to[i], c) \/ l.cmd = c
        /\ AtEnd(to'[i], "go") /\ First(to'[i], "uci") /\ Placed(to'[i])
        /\ Starting' => Only(to'[i], "uci")
    <2>1. l.cmd = "uci" => Only(to[i], "uci")
      BY <1>2 DEF BotOK
    <2> QED
      BY <1>1, <1>2, <2>1, LineAdded DEF BotOK
  <1>5. GuiUp' => (gui' = "read" /\ i = Mover') \/ Quiet(i)'
    BY <1>2, <1>3, <1>4 DEF Quiet, Thinking, Alive
  <1>6. /\ Thinking(i)' = Thinking(i) /\ ~Thinking(i)
        /\ ~Has(from'[i], "bestmove") /\ AtEnd(from'[i], "bestmove")
    BY <1>2, <1>3 DEF Quiet, Thinking, BotOK
  <1>7. Starting' => root'[i] = NoPosition
    BY <1>2, <1>3 DEF BotOK
  <1>8. Has(to'[i], "uci") => root'[i] = NoPosition
    BY <1>2, <1>3, <1>4 DEF BotOK
  <1>9. Has(to'[i], "go") => root'[i] \in Positions \/ Loads(to[i])'
    <2>1. Has(to'[i], "go") => l.cmd = "go"
      BY <1>2, <1>4
    <2>2. Loads(to[i]) => Loads(to[i])'
      BY <1>4 DEF Loads
    <2> QED
      BY <1>3, <2>1, <2>2
  <1> QED
    BY <1>4, <1>5, <1>6, <1>7, <1>8, <1>9 DEF BotOK

\* The GUI takes a line: what is left has no other answer.
LEMMA LineRead ==
  ASSUME IInv, NEW i \in Bots, NextLine(i), UNCHANGED <<to, bot, root>>,
         GuiUp' => (gui' = "read" /\ i = Mover') \/ Quiet(i)
                   \/ Head(from[i]).cmd = "bestmove",
         Starting' => Starting
  PROVE  BotOK(i)'
  <1>1. from[i] \in Seq(Lines) /\ from[i] # <<>> /\ from'[i] = Tail(from[i])
    BY DEF IInv, TypeOK, NextLine
  <1>2. BotOK(i) /\ to'[i] = to[i] /\ bot'[i] = bot[i] /\ root'[i] = root[i]
    BY DEF IInv
  <1>3. /\ Has(from'[i], "bestmove") => Has(from[i], "bestmove")
        /\ Head(from[i]).cmd = "bestmove" => Has(from[i], "bestmove") /\ from'[i] = <<>>
        /\ AtEnd(from'[i], "bestmove")
    BY <1>1, <1>2, LineTaken DEF BotOK
  <1>4. Head(from[i]).cmd = "bestmove" => Quiet(i)'
    <2> SUFFICES ASSUME Head(from[i]).cmd = "bestmove" PROVE Quiet(i)'
      OBVIOUS
    <2>1. to[i] = <<>> /\ ~Thinking(i) /\ from'[i] = <<>>
      BY <1>2, <1>3 DEF BotOK, Thinking
    <2> QED
      BY <2>1, <1>2, EmptyLine DEF Quiet, Thinking, Alive
  <1>5. Quiet(i) => Quiet(i)'
    BY <1>2, <1>3 DEF Quiet, Thinking, Alive
  <1> QED
    BY <1>2, <1>3, <1>4, <1>5 DEF BotOK, Thinking


LEMMA SendTypes ==
  ASSUME TypeOK, NEW i \in Bots, NEW l \in Lines, NEW next, Send(i, l, next)
  PROVE  to' \in [Bots -> Seq(Lines)] /\ gui' \in {next, "killed"}
  <1>1. to[i] \in Seq(Lines) /\ to \in [Bots -> Seq(Lines)]
    BY DEF TypeOK
  <1>2. Append(to[i], l) \in Seq(Lines)
    BY <1>1
  <1> QED
    BY <1>1, <1>2 DEF Send

LEMMA NextLineTypes ==
  ASSUME TypeOK, NEW i \in Bots, NextLine(i)
  PROVE  from' \in [Bots -> Seq(Lines)] /\ Head(from[i]) \in Lines
  <1>1. from[i] \in Seq(Lines) /\ from \in [Bots -> Seq(Lines)] /\ from[i] # <<>>
    BY DEF TypeOK, NextLine
  <1>2. Tail(from[i]) \in Seq(Lines) /\ Head(from[i]) \in Lines
    BY <1>1, LineTaken
  <1> QED
    BY <1>1, <1>2 DEF NextLine

-----------------------------------------------------------------------------
(* The steps of the program.                                                *)

LEMMA ForkKeeps ==
  ASSUME IInv, Fork PROVE IInv'
  <1>1. cur \in Bots /\ bot[cur] = "none" /\ \A j \in Bots : j > cur => bot[j] = "none"
    BY DEF IInv, GuiOK, Fork, Bots
  <1>2. bot'[cur] = "idle" /\ \A j \in Bots : j # cur => bot'[j] = bot[j]
    BY <1>1 DEF Fork, IInv, TypeOK
  <1>3. TypeOK'
    BY <1>1 DEF Fork, IInv, TypeOK, guiVars, botVars
  <1>4. GuiOK'
    BY <1>1, <1>2 DEF Fork, IInv, GuiOK, GuiUp, guiVars, botVars, Bots
  <1>5. ASSUME NEW i \in Bots PROVE BotOK(i)'
    <2>1. /\ BotOK(i) /\ to'[i] = to[i] /\ from'[i] = from[i] /\ root'[i] = root[i]
          /\ Starting /\ Starting' /\ GuiUp /\ gui' # "read" /\ gui # "read"
      BY DEF Fork, IInv, Starting, GuiUp, guiVars, botVars
    <2>2. CASE i = cur
      <3>1. bot'[i] = "idle" /\ ~Has(to[i], "go") /\ ~Has(from[i], "bestmove")
        BY <2>1, <2>2, <1>2 DEF BotOK, Only, Has, Quiet
      <3> QED
        BY <3>1, <2>1 DEF BotOK, Quiet, Thinking, Alive
    <2>3. CASE i # cur
      <3>1. bot'[i] = bot[i]
        BY <2>3, <1>2
      <3> QED
        BY <3>1, <2>1, OtherBotKeeps DEF BotOK
    <2> QED
      BY <2>2, <2>3
  <1> QED
    BY <1>3, <1>4, <1>5 DEF IInv

\* Only the line sent and the place of the GUI change, and no game begins.
LEMMA SendKeepsBots ==
  ASSUME IInv, NEW i \in Bots, NEW l \in Lines, NEW next, Send(i, l, next),
         UNCHANGED <<from, bot, root>>,
         GuiUp, gui # "read", next # "killed",
         l.cmd = "position" => l.at \in Positions,
         l.cmd = "uci" => Starting,
         (l.cmd = "go" \/ next = "read") =>
             /\ next = "read" /\ i = Mover'
             /\ root[i] \in Positions \/ Loads(to[i]),
         l.cmd # "bestmove",
         next \in {"fork", "hello", "shake", "again"} => Starting /\ l.cmd = "uci"
  PROVE  \A j \in Bots : BotOK(j)'
  <1>1. CASE ~Alive(i) /\ gui' = "killed" /\ UNCHANGED to
    <2> SUFFICES ASSUME NEW j \in Bots PROVE BotOK(j)'
      OBVIOUS
    <2>1. ~GuiUp' /\ ~Starting' /\ BotOK(j)
      BY <1>1 DEF GuiUp, Starting, IInv
    <2> QED
      BY <1>1, <2>1, OtherBotKeeps
  <1>2. CASE Alive(i) /\ to' = [to EXCEPT ![i] = Append(@, l)] /\ gui' = next
    <2>1. BotOK(i)'
      BY <1>2, LineSent DEF Starting
    <2>2. ASSUME NEW j \in Bots, j # i PROVE BotOK(j)'
      <3>1. BotOK(j) /\ Quiet(j) /\ to'[j] = to[j]
        BY <1>2, <2>2 DEF IInv, TypeOK, BotOK
      <3>2. Starting' => Starting
        BY <1>2 DEF Starting
      <3> QED
        BY <3>1, <3>2, OtherBotKeeps
    <2> QED
      BY <2>1, <2>2
  <1> QED
    BY <1>1, <1>2 DEF Send

LEMMA SendUciKeeps ==
  ASSUME IInv, SendUci PROVE IInv'
  <1>1. cur \in Bots /\ Command("uci") \in Lines /\ Command("uci").cmd = "uci"
    BY CommandIs DEF IInv, GuiOK, SendUci
  <1>2. Send(cur, Command("uci"), "shake") /\ gui = "hello"
    BY DEF SendUci
  <1>3. to' \in [Bots -> Seq(Lines)] /\ gui' \in {"shake", "killed"}
    BY <1>1, <1>2, SendTypes DEF IInv
  <1>4. TypeOK'
    BY <1>3 DEF SendUci, IInv, TypeOK, guiVars, botVars
  <1>5. GuiOK'
    BY <1>3 DEF SendUci, IInv, GuiOK, GuiUp, guiVars, botVars
  <1>6. \A j \in Bots : BotOK(j)'
    <2>1. GuiUp /\ Starting /\ UNCHANGED <<from, bot, root>>
      BY DEF SendUci, GuiUp, Starting, botVars
    <2> QED
      BY <1>1, <1>2, <2>1, SendKeepsBots
  <1> QED
    BY <1>4, <1>5, <1>6 DEF IInv

LEMMA SendUciAgainKeeps ==
  ASSUME IInv, SendUciAgain PROVE IInv'
  <1>1. 1 \in Bots /\ Command("uci") \in Lines /\ Command("uci").cmd = "uci"
    BY CommandIs DEF Bots
  <1>2. Send(1, Command("uci"), "new") /\ gui = "again"
    BY DEF SendUciAgain
  <1>3. to' \in [Bots -> Seq(Lines)] /\ gui' \in {"new", "killed"}
    BY <1>1, <1>2, SendTypes DEF IInv
  <1>4. TypeOK'
    BY <1>3 DEF SendUciAgain, IInv, TypeOK, guiVars, botVars
  <1>5. GuiOK'
    BY <1>2, <1>3 DEF SendUciAgain, IInv, GuiOK, GuiUp, guiVars, botVars
  <1>6. \A j \in Bots : BotOK(j)'
    <2>1. GuiUp /\ Starting /\ UNCHANGED <<from, bot, root>>
      BY DEF SendUciAgain, GuiUp, Starting, botVars
    <2> QED
      BY <1>1, <1>2, <2>1, SendKeepsBots
  <1> QED
    BY <1>4, <1>5, <1>6 DEF IInv

LEMMA SendNewGameKeeps ==
  ASSUME IInv, SendNewGame PROVE IInv'
  <1> DEFINE i == IF program = "botvbot" THEN 1 + ((games + cur) % 2) ELSE 1
             next == IF cur + 1 < Count THEN "new" ELSE "play"
  <1>1. i \in Bots
    <2>1. games + cur \in Nat
      BY ProgramAssumption DEF IInv, TypeOK
    <2>2. (games + cur) % 2 \in 0 .. 1
      BY <2>1
    <2> QED
      BY <2>2 DEF Bots
  <1>2. Command("ucinewgame") \in Lines /\ Command("ucinewgame").cmd = "ucinewgame"
    BY CommandIs
  <1>3. Send(i, Command("ucinewgame"), next) /\ gui = "new" /\ next \in {"new", "play"}
    BY DEF SendNewGame
  <1> HIDE DEF i, next
  <1>4. to' \in [Bots -> Seq(Lines)] /\ gui' \in {"new", "play", "killed"}
    BY <1>1, <1>2, <1>3, SendTypes DEF IInv
  <1>5. cur' \in 0 .. 2
    <2>1. Count \in {1, 2} /\ cur + 1 \in Nat
      BY CountIs DEF IInv, TypeOK, Bots
    <2>2. (cur + 1) % Count \in 0 .. 1
      BY <2>1
    <2> QED
      BY <2>2 DEF SendNewGame
  <1>6. TypeOK'
    BY <1>4, <1>5, GameAssumption DEF SendNewGame, IInv, TypeOK, botVars
  <1>7. GuiOK'
    BY <1>3, <1>4 DEF SendNewGame, IInv, GuiOK, GuiUp
  <1>8. \A j \in Bots : BotOK(j)'
    <2>1. GuiUp /\ UNCHANGED <<from, bot, root>>
      BY DEF SendNewGame, GuiUp, botVars
    <2> QED
      BY <1>1, <1>2, <1>3, <2>1, SendKeepsBots
  <1> QED
    BY <1>6, <1>7, <1>8 DEF IInv

LEMMA SendPositionKeeps ==
  ASSUME IInv, SendPosition PROVE IInv'
  <1> DEFINE l == [cmd |-> "position", at |-> match]
  <1>1. Mover \in Bots
    BY MoverIs DEF IInv, SendPosition
  <1>2. l \in Lines /\ l.cmd = "position" /\ l.at \in Positions
    BY DEF IInv, TypeOK, Lines
  <1>3. Send(Mover, l, "go") /\ gui = "play"
    BY DEF SendPosition
  <1> HIDE DEF l
  <1>4. to' \in [Bots -> Seq(Lines)] /\ gui' \in {"go", "killed"}
    BY <1>1, <1>2, <1>3, SendTypes DEF IInv
  <1>5. TypeOK'
    BY <1>4 DEF SendPosition, IInv, TypeOK, guiVars, botVars
  <1>6. Mover' = Mover
    BY DEF SendPosition, guiVars, Mover
  <1>7. gui' = "go" => Loads(to[Mover])'
    <2> SUFFICES ASSUME gui' = "go" PROVE Loads(to[Mover])'
      OBVIOUS
    <2>1. to[Mover] \in Seq(Lines) /\ to'[Mover] = Append(to[Mover], l)
      BY <1>1, <1>3 DEF Send, IInv, TypeOK
    <2>2. Has(to'[Mover], "position")
      BY <2>1, <1>2, LineAdded
    <2> QED
      BY <2>2, <1>6 DEF Loads
  <1>8. GuiOK'
    BY <1>1, <1>3, <1>4, <1>6, <1>7 DEF SendPosition, IInv, GuiOK, GuiUp, guiVars
  <1>9. \A j \in Bots : BotOK(j)'
    <2>1. GuiUp /\ UNCHANGED <<from, bot, root>>
      BY DEF SendPosition, GuiUp, botVars
    <2> QED
      BY <1>1, <1>2, <1>3, <2>1, SendKeepsBots
  <1> QED
    BY <1>5, <1>8, <1>9 DEF IInv

LEMMA SendGoKeeps ==
  ASSUME IInv, SendGo PROVE IInv'
  <1>1. Mover \in Bots /\ (root[Mover] \in Positions \/ Loads(to[Mover]))
    BY DEF IInv, GuiOK, SendGo
  <1>2. Command("go") \in Lines /\ Command("go").cmd = "go"
    BY CommandIs
  <1>3. Send(Mover, Command("go"), "read") /\ gui = "go"
    BY DEF SendGo
  <1>4. to' \in [Bots -> Seq(Lines)] /\ gui' \in {"read", "killed"}
    BY <1>1, <1>2, <1>3, SendTypes DEF IInv
  <1>5. TypeOK'
    BY <1>4 DEF SendGo, IInv, TypeOK, guiVars, botVars
  <1>6. Mover' = Mover
    BY DEF SendGo, guiVars, Mover
  <1>7. GuiOK'
    BY <1>1, <1>3, <1>4, <1>6 DEF SendGo, IInv, GuiOK, GuiUp, guiVars
  <1>8. \A j \in Bots : BotOK(j)'
    <2>1. GuiUp /\ UNCHANGED <<from, bot, root>>
      BY DEF SendGo, GuiUp, botVars
    <2> QED
      BY <1>1, <1>2, <1>3, <1>6, <2>1, SendKeepsBots
  <1> QED
    BY <1>5, <1>7, <1>8 DEF IInv

LEMMA ShakeKeeps ==
  ASSUME IInv, Shake PROVE IInv'
  <1>1. cur \in Bots /\ NextLine(cur) /\ gui = "shake" /\ Starting /\ GuiUp
    BY DEF IInv, GuiOK, Shake, Starting, GuiUp
  <1>2. from' \in [Bots -> Seq(Lines)]
    BY <1>1, NextLineTypes DEF IInv
  <1>3. /\ gui' \in {"shake", "fork", "new", "again"}
        /\ cur' \in {cur, cur + 1, 0}
        /\ gui' = "shake" => cur' = cur
        /\ gui' = "fork" => cur' = cur + 1 /\ cur < Count
    BY <1>1 DEF Shake
  <1>4. cur' \in 0 .. 2 /\ (gui' \in {"fork", "shake"} => cur' \in Bots)
    <2>1. cur \in {1, 2} /\ Count \in {1, 2}
      BY <1>1, CountIs DEF Bots
    <2> QED
      BY <1>3, <2>1 DEF Bots, Shake
  <1>5. TypeOK'
    BY <1>2, <1>3, <1>4 DEF Shake, IInv, TypeOK, botVars
  <1>6. GuiOK'
    <2>1. \A j \in Bots : j > cur => bot[j] = "none"
      BY <1>1 DEF IInv, GuiOK
    <2>2. gui' = "fork" => \A j \in Bots : j >= cur' => bot[j] = "none"
      BY <1>1, <1>3, <2>1 DEF Bots
    <2>3. gui' = "shake" => \A j \in Bots : j > cur' => bot[j] = "none"
      BY <1>3, <2>1
    <2>4. games < Matches
      BY <1>1 DEF IInv, GuiOK
    <2> QED
      BY <1>3, <1>4, <2>2, <2>3, <2>4 DEF Shake, GuiOK
  <1>7. ASSUME NEW i \in Bots PROVE BotOK(i)'
    <2>1. Quiet(i) /\ UNCHANGED <<to, bot, root>> /\ BotOK(i)
      BY <1>1 DEF IInv, BotOK, Shake, botVars
    <2>2. CASE i = cur
      BY <1>1, <2>1, <2>2, LineRead
    <2>3. CASE i # cur
      <3>1. from'[i] = from[i]
        BY <1>1, <2>3 DEF NextLine, IInv, TypeOK
      <3> QED
        BY <1>1, <2>1, <3>1, OtherBotKeeps
    <2> QED
      BY <2>2, <2>3
  <1> QED
    BY <1>5, <1>6, <1>7 DEF IInv

\* A step of the program that leaves the pipes alone and waits for no answer.
LEMMA QuietStepKeeps ==
  ASSUME IInv, UNCHANGED <<to, from, bot, root>>, ~Starting',
         \A i \in Bots : BotOK(i) /\ GuiUp' => Quiet(i)
  PROVE  \A i \in Bots : BotOK(i)'
  BY OtherBotKeeps DEF IInv

LEMMA GameOverKeeps ==
  ASSUME IInv, GameOver PROVE IInv'
  <1>1. gui = "play" /\ GuiUp /\ gui' \in {"new", "exited"}
    BY DEF GameOver, GuiUp
  <1>2. /\ games \in 0 .. Matches /\ games < Matches /\ Matches \in Nat
        /\ program \in {"testbot", "botvbot", "chess"}
    BY <1>1, ProgramAssumption DEF IInv, TypeOK, GuiOK
  <1>3. games' \in 0 .. Matches /\ (gui' = "new" => games' < Matches)
    BY <1>2 DEF GameOver
  <1>4. TypeOK'
    BY <1>1, <1>3 DEF GameOver, IInv, TypeOK, botVars
  <1>5. GuiOK'
    BY <1>1, <1>3 DEF GuiOK, GuiUp
  <1>6. \A i \in Bots : BotOK(i)'
    <2>1. UNCHANGED <<to, from, bot, root>> /\ ~Starting'
      BY <1>1 DEF GameOver, botVars, Starting
    <2>2. \A i \in Bots : BotOK(i) => Quiet(i)
      BY <1>1 DEF BotOK
    <2> QED
      BY <2>1, <2>2, QuietStepKeeps
  <1> QED
    BY <1>4, <1>5, <1>6 DEF IInv

LEMMA PlayerMovesKeeps ==
  ASSUME IInv, PlayerMoves PROVE IInv'
  <1>1. gui = "play" /\ GuiUp /\ gui' \in {"play", "exited"}
    BY DEF PlayerMoves, GuiUp
  <1>2. match' \in Positions /\ seat' \in {0, 1}
    BY GameAssumption DEF PlayerMoves, IInv, TypeOK
  <1>3. TypeOK'
    BY <1>1, <1>2 DEF PlayerMoves, IInv, TypeOK, botVars
  <1>4. GuiOK'
    BY <1>1 DEF PlayerMoves, IInv, GuiOK, GuiUp
  <1>5. \A i \in Bots : BotOK(i)'
    <2>1. UNCHANGED <<to, from, bot, root>> /\ ~Starting'
      BY <1>1 DEF PlayerMoves, botVars, Starting
    <2>2. \A i \in Bots : BotOK(i) => Quiet(i)
      BY <1>1 DEF BotOK
    <2> QED
      BY <2>1, <2>2, QuietStepKeeps
  <1> QED
    BY <1>3, <1>4, <1>5 DEF IInv

LEMMA ReadLineKeeps ==
  ASSUME IInv, ReadLine PROVE IInv'
  <1>1. gui = "read" /\ GuiUp /\ Mover \in Bots /\ NextLine(Mover) /\ gui' \in {"read", "play"}
    BY DEF IInv, GuiOK, ReadLine, GuiUp
  <1>2. from' \in [Bots -> Seq(Lines)]
    BY <1>1, NextLineTypes DEF IInv
  <1>3. match' \in Positions /\ seat' \in {0, 1}
    BY GameAssumption DEF ReadLine, IInv, TypeOK
  <1>4. /\ gui' = "read" => UNCHANGED <<seat, program, games>>
        /\ gui' = "play" => Head(from[Mover]).cmd = "bestmove"
    BY <1>1 DEF ReadLine
  <1>5. gui' = "read" => Mover' = Mover
    BY <1>4 DEF Mover
  <1>6. TypeOK'
    BY <1>1, <1>2, <1>3 DEF ReadLine, IInv, TypeOK, botVars
  <1>7. GuiOK'
    BY <1>1, <1>5 DEF ReadLine, IInv, GuiOK, GuiUp
  <1>8. ASSUME NEW i \in Bots PROVE BotOK(i)'
    <2>1. UNCHANGED <<to, bot, root>> /\ BotOK(i) /\ ~Starting'
      BY <1>1 DEF IInv, ReadLine, botVars, Starting
    <2>2. CASE i = Mover
      <3>1. /\ GuiUp' => (gui' = "read" /\ i = Mover') \/ Head(from[i]).cmd = "bestmove"
        BY <1>1, <1>4, <1>5, <2>2
      <3> QED
        BY <1>1, <2>1, <2>2, <3>1, LineRead
    <2>3. CASE i # Mover
      <3>1. from'[i] = from[i] /\ Quiet(i)
        BY <1>1, <2>1, <2>3 DEF NextLine, IInv, TypeOK, BotOK
      <3> QED
        BY <2>1, <3>1, OtherBotKeeps
    <2> QED
      BY <2>2, <2>3
  <1> QED
    BY <1>6, <1>7, <1>8 DEF IInv

LEMMA ReadEndKeeps ==
  ASSUME IInv, ReadEnd PROVE IInv'
  <1>1. /\ gui = "read" /\ GuiUp /\ Mover \in Bots /\ gui' \in {"play", "killed"}
        /\ from[Mover] = <<>> /\ ~Alive(Mover)
    BY DEF IInv, GuiOK, ReadEnd, GuiUp
  <1>2. match' \in Positions /\ seat' \in {0, 1}
    BY DEF ReadEnd, IInv, TypeOK
  <1>3. TypeOK'
    BY <1>1, <1>2 DEF ReadEnd, IInv, TypeOK, botVars
  <1>4. GuiOK'
    BY <1>1 DEF ReadEnd, IInv, GuiOK, GuiUp
  <1>5. \A i \in Bots : BotOK(i)'
    <2>1. UNCHANGED <<to, from, bot, root>> /\ ~Starting'
      BY <1>1 DEF ReadEnd, botVars, Starting
    <2>2. Quiet(Mover)
      BY <1>1, EmptyLine DEF Quiet, Thinking, Alive
    <2>3. \A i \in Bots : BotOK(i) => Quiet(i)
      BY <1>1, <2>2 DEF BotOK
    <2> QED
      BY <2>1, <2>3, QuietStepKeeps
  <1> QED
    BY <1>3, <1>4, <1>5 DEF IInv

-----------------------------------------------------------------------------
(* The steps of a bot.                                                      *)

\* What a step of a bot has to keep is what is said of that bot.
LEMMA BotStepKeeps ==
  ASSUME IInv, NEW i \in Bots, bot[i] # "none", UNCHANGED <<guiVars, gui>>, TypeOK',
         \A j \in Bots : j # i => /\ to'[j] = to[j] /\ from'[j] = from[j]
                                  /\ bot'[j] = bot[j] /\ root'[j] = root[j],
         gui = "go" /\ (root[i] \in Positions \/ Loads(to[i])) =>
           root'[i] \in Positions \/ Loads(to'[i]),
         BotOK(i)'
  PROVE  IInv'
  <1>1. GuiUp' = GuiUp /\ Starting' = Starting /\ Mover' = Mover
    BY DEF GuiUp, Starting, Mover, guiVars
  <1>2. GuiOK'
    <2>1. \A j \in Bots : bot[j] = "none" => bot'[j] = "none"
      OBVIOUS
    <2>2. gui = "go" => root'[Mover] \in Positions \/ Loads(to'[Mover])
      <3>1. gui = "go" => Mover \in Bots /\ (root[Mover] \in Positions \/ Loads(to[Mover]))
        BY DEF IInv, GuiOK
      <3> QED
        BY <3>1
    <2>3. Loads(to[Mover])' <=> Loads(to'[Mover])
      BY <1>1
    <2> QED
      BY <1>1, <2>1, <2>2, <2>3 DEF IInv, GuiOK, guiVars
  <1>3. ASSUME NEW j \in Bots, j # i PROVE BotOK(j)'
    <2>1. BotOK(j) /\ (GuiUp => (gui = "read" /\ j = Mover) \/ Quiet(j))
      BY DEF IInv, BotOK
    <2> QED
      BY <1>1, <1>3, <2>1, OtherBotKeeps
  <1> QED
    BY <1>2, <1>3 DEF IInv

\* A line is printed, or the bot dies of it.
LEMMA LinePrinted ==
  ASSUME TypeOK, NEW i \in Bots, NEW l \in Lines,
         NEW next \in {"idle", "greeting", "reporting"}, Prints(i, l, next)
  PROVE  /\ from' \in [Bots -> Seq(Lines)]
         /\ bot' \in [Bots -> {"none", "idle", "greeting", "thinking", "reporting", "mute",
                         "dead", "exited"}]
         /\ \A j \in Bots : j # i => from'[j] = from[j] /\ bot'[j] = bot[j]
         /\ \/ Held(i) /\ from'[i] = Append(from[i], l) /\ bot'[i] = next
            \/ ~Held(i) /\ from'[i] = from[i] /\ bot'[i] = "dead"
         /\ \A c : Has(from'[i], c) => Has(from[i], c) \/ l.cmd = c
         /\ \A c : ~Has(from[i], c) => AtEnd(from'[i], c)
  <1>1. from[i] \in Seq(Lines) /\ from \in [Bots -> Seq(Lines)]
    BY DEF TypeOK
  <1>2. Append(from[i], l) \in Seq(Lines)
    BY <1>1
  <1>3. /\ from' \in [Bots -> Seq(Lines)]
        /\ \A j \in Bots : j # i => from'[j] = from[j] /\ bot'[j] = bot[j]
        /\ \/ Held(i) /\ from'[i] = Append(from[i], l) /\ bot'[i] = next
           \/ ~Held(i) /\ from'[i] = from[i] /\ bot'[i] = "dead"
    BY <1>1, <1>2 DEF Prints, TypeOK
  <1>4. bot' \in [Bots -> {"none", "idle", "greeting", "thinking", "reporting", "mute",
                         "dead", "exited"}]
    BY DEF Prints, TypeOK
  <1>5. ASSUME NEW c
        PROVE  /\ Has(from'[i], c) => Has(from[i], c) \/ l.cmd = c
               /\ ~Has(from[i], c) => AtEnd(from'[i], c)
    <2>1. ~Has(from[i], c) => AtEnd(from[i], c)
      BY DEF Has, AtEnd
    <2>2. /\ Has(Append(from[i], l), c) => Has(from[i], c) \/ l.cmd = c
          /\ ~Has(from[i], c) => AtEnd(Append(from[i], l), c)
      BY <1>1, LineAdded
    <2>3. from'[i] = Append(from[i], l) \/ from'[i] = from[i]
      BY <1>3
    <2> QED
      BY <2>1, <2>2, <2>3
  <1> QED
    BY <1>3, <1>4, <1>5

\* A bot that reads a command is idle, and no answer of it is under way.
LEMMA CommandRead ==
  ASSUME IInv, NEW i \in Bots, NEW c, Reads(i, c)
  PROVE  /\ to' \in [Bots -> Seq(Lines)] /\ to'[i] = Tail(to[i])
         /\ \A j \in Bots : j # i => to'[j] = to[j]
         /\ to[i] \in Seq(Lines) /\ to[i] # <<>>
         /\ Head(to[i]) \in Lines /\ Head(to[i]).cmd = c
         /\ bot[i] = "idle" /\ ~Has(from[i], "bestmove")
         /\ \A d : Has(to[i], d) <=> c = d \/ Has(to'[i], d)
         /\ AtEnd(to'[i], "go") /\ First(to'[i], "uci") /\ Placed(to'[i])
         /\ Only(to[i], "uci") => Only(to'[i], "uci")
  <1>1. to \in [Bots -> Seq(Lines)] /\ to[i] \in Seq(Lines) /\ to[i] # <<>> /\ BotOK(i)
    BY DEF IInv, TypeOK, Reads
  <1>2. Tail(to[i]) \in Seq(Lines) /\ Head(to[i]) \in Lines /\ Head(to[i]).cmd = c
    BY <1>1, LineTaken DEF Reads
  <1>3. /\ to' \in [Bots -> Seq(Lines)] /\ to'[i] = Tail(to[i])
        /\ \A j \in Bots : j # i => to'[j] = to[j]
    BY <1>1, <1>2 DEF Reads
  <1>4. bot[i] = "idle" /\ ~Has(from[i], "bestmove")
    BY <1>1 DEF BotOK, Thinking, Reads
  <1>5. /\ \A d : Has(to[i], d) <=> c = d \/ Has(to'[i], d)
        /\ AtEnd(to'[i], "go") /\ First(to'[i], "uci") /\ Placed(to'[i])
        /\ Only(to[i], "uci") => Only(to'[i], "uci")
    BY <1>1, <1>2, <1>3, LineTaken DEF BotOK
  <1> QED
    BY <1>1, <1>2, <1>3, <1>4, <1>5

LEMMA HandleUciKeeps ==
  ASSUME IInv, NEW i \in Bots, HandleUci(i) PROVE IInv'
  <1>1. Reads(i, "uci") /\ Prints(i, Command("id"), "greeting") /\ UNCHANGED <<guiVars, gui>>
    BY DEF HandleUci
  <1>2. Command("id") \in Lines /\ Command("id").cmd = "id"
    BY CommandIs
  <1>3. BotOK(i) /\ TypeOK
    BY DEF IInv
  <1>4. /\ from' \in [Bots -> Seq(Lines)]
        /\ bot' \in [Bots -> {"none", "idle", "greeting", "thinking", "reporting", "mute",
                         "dead", "exited"}]
        /\ \A j \in Bots : j # i => from'[j] = from[j] /\ bot'[j] = bot[j]
        /\ bot'[i] \in {"greeting", "dead"}
        /\ Has(from'[i], "bestmove") => Has(from[i], "bestmove")
        /\ ~Has(from[i], "bestmove") => AtEnd(from'[i], "bestmove")
    BY <1>1, <1>2, <1>3, LinePrinted
  <1>5. /\ to' \in [Bots -> Seq(Lines)]
        /\ \A j \in Bots : j # i => to'[j] = to[j]
        /\ bot[i] = "idle" /\ ~Has(from[i], "bestmove")
        /\ \A d : Has(to[i], d) <=> "uci" = d \/ Has(to'[i], d)
        /\ AtEnd(to'[i], "go") /\ First(to'[i], "uci") /\ Placed(to'[i])
        /\ Only(to[i], "uci") => Only(to'[i], "uci")
    BY <1>1, CommandRead
  <1>6. root[i] = NoPosition /\ root' = root
    BY <1>3, <1>5 DEF BotOK, HandleUci, TypeOK
  <1>7. TypeOK'
    BY <1>1, <1>3, <1>4, <1>5, <1>6 DEF HandleUci, TypeOK, guiVars
  <1>8. Loads(to[i]) => Loads(to'[i])
    BY <1>5 DEF Loads
  <1>9. BotOK(i)'
    <2>1. GuiUp' = GuiUp /\ Starting' = Starting /\ Mover' = Mover
      BY <1>1 DEF GuiUp, Starting, Mover, guiVars
    <2>2. Quiet(i) => Quiet(i)'
      BY <1>4, <1>5 DEF Quiet, Thinking, Alive
    <2>3. Loads(to[i])' <=> Loads(to'[i])
      OBVIOUS
    <2> QED
      BY <1>1, <1>3, <1>4, <1>5, <1>6, <1>8, <2>1, <2>2, <2>3 DEF BotOK, Thinking
  <1> QED
    BY <1>1, <1>4, <1>5, <1>6, <1>7, <1>8, <1>9, BotStepKeeps

LEMMA PrintUciOkKeeps ==
  ASSUME IInv, NEW i \in Bots, PrintUciOk(i) PROVE IInv'
  <1>1. /\ Prints(i, Command("uciok"), "idle") /\ UNCHANGED <<guiVars, gui, to, botVars>>
        /\ bot[i] = "greeting"
    BY DEF PrintUciOk
  <1>2. Command("uciok") \in Lines /\ Command("uciok").cmd = "uciok"
    BY CommandIs
  <1>3. BotOK(i) /\ TypeOK
    BY DEF IInv
  <1>4. /\ from' \in [Bots -> Seq(Lines)]
        /\ bot' \in [Bots -> {"none", "idle", "greeting", "thinking", "reporting", "mute",
                         "dead", "exited"}]
        /\ \A j \in Bots : j # i => from'[j] = from[j] /\ bot'[j] = bot[j]
        /\ bot'[i] \in {"idle", "dead"}
        /\ Has(from'[i], "bestmove") => Has(from[i], "bestmove")
        /\ ~Has(from[i], "bestmove") => AtEnd(from'[i], "bestmove")
    BY <1>1, <1>2, <1>3, LinePrinted
  <1>5. TypeOK'
    BY <1>1, <1>3, <1>4 DEF TypeOK, guiVars, botVars
  <1>6. ~Has(from[i], "bestmove")
    BY <1>1, <1>3 DEF BotOK
  <1>7. to' = to /\ root' = root
    BY <1>1 DEF botVars
  <1>8. BotOK(i)'
    <2>1. GuiUp' = GuiUp /\ Starting' = Starting /\ Mover' = Mover
      BY <1>1 DEF GuiUp, Starting, Mover, guiVars
    <2>2. Quiet(i) => Quiet(i)'
      BY <1>1, <1>4, <1>7 DEF Quiet, Thinking, Alive
    <2>3. Loads(to[i])' <=> Loads(to[i])
      BY <1>7
    <2> QED
      BY <1>1, <1>3, <1>4, <1>6, <1>7, <2>1, <2>2, <2>3 DEF BotOK, Thinking
  <1> QED
    BY <1>1, <1>4, <1>5, <1>7, <1>8, BotStepKeeps

LEMMA HandlePositionKeeps ==
  ASSUME IInv, NEW i \in Bots, HandlePosition(i) PROVE IInv'
  <1> DEFINE c == Head(to[i]).cmd
  <1>1. /\ Reads(i, c) /\ c \in {"position", "ucinewgame"}
        /\ UNCHANGED <<guiVars, gui, from, bot, searches, answer, crashes>>
    BY DEF HandlePosition, Reads
  <1>2. BotOK(i) /\ TypeOK
    BY DEF IInv
  <1> HIDE DEF c
  <1>3. /\ to' \in [Bots -> Seq(Lines)]
        /\ \A j \in Bots : j # i => to'[j] = to[j]
        /\ to[i] \in Seq(Lines) /\ to[i] # <<>> /\ Head(to[i]).cmd = c
        /\ bot[i] = "idle" /\ ~Has(from[i], "bestmove")
        /\ \A d : Has(to[i], d) <=> c = d \/ Has(to'[i], d)
        /\ AtEnd(to'[i], "go") /\ First(to'[i], "uci") /\ Placed(to'[i])
        /\ to'[i] = Tail(to[i])
        /\ Only(to[i], "uci") => Only(to'[i], "uci")
    BY <1>1, CommandRead
  <1>4. root'[i] \in Positions /\ \A j \in Bots : j # i => root'[j] = root[j]
    <2>1. c = "position" => Head(to[i]).at \in Positions
      BY <1>2, <1>3, LineTaken DEF BotOK
    <2> QED
      BY <1>1, <1>2, <1>3, <2>1, GameAssumption DEF HandlePosition, Reads, TypeOK
  <1>5. root' \in [Bots -> Positions \union {NoPosition}]
    <2>1. \E e : root' = [root EXCEPT ![i] = e]
      BY DEF HandlePosition
    <2> QED
      BY <1>2, <1>4, <2>1 DEF TypeOK
  <1>6. TypeOK'
    BY <1>1, <1>2, <1>3, <1>5 DEF TypeOK, guiVars
  <1>7. ~Has(to'[i], "uci") /\ ~Starting
    <2>1. ~Has(to'[i], "uci")
      BY <1>1, <1>2, <1>3, LineTaken DEF BotOK
    <2>2. ~Only(to[i], "uci")
      BY <1>1, <1>3, LineTaken
    <2> QED
      BY <1>2, <2>1, <2>2 DEF BotOK
  <1>8. BotOK(i)'
    <2>1. GuiUp' = GuiUp /\ Starting' = Starting /\ Mover' = Mover
      BY <1>1 DEF GuiUp, Starting, Mover, guiVars
    <2>2. Quiet(i) => Quiet(i)'
      BY <1>1, <1>3 DEF Quiet, Thinking, Alive
    <2> QED
      BY <1>1, <1>2, <1>3, <1>4, <1>7, <2>1, <2>2 DEF BotOK, Thinking
  <1> QED
    BY <1>1, <1>3, <1>4, <1>6, <1>8, BotStepKeeps

LEMMA HandleGoKeeps ==
  ASSUME IInv, NEW i \in Bots, HandleGo(i) PROVE IInv'
  <1>1. /\ Reads(i, "go") /\ UNCHANGED <<guiVars, gui, from, root, answer, crashes>>
        /\ searches' = [searches EXCEPT ![i] = @ + 1]
    BY DEF HandleGo
  <1>b. PICK next \in {"thinking", "mute", "dead"} : bot' = [bot EXCEPT ![i] = next]
    BY DEF HandleGo
  <1>2. BotOK(i) /\ TypeOK
    BY DEF IInv
  <1>3. /\ to' \in [Bots -> Seq(Lines)]
        /\ \A j \in Bots : j # i => to'[j] = to[j]
        /\ to[i] \in Seq(Lines) /\ to[i] # <<>> /\ Head(to[i]).cmd = "go"
        /\ bot[i] = "idle" /\ ~Has(from[i], "bestmove")
        /\ to'[i] = Tail(to[i])
        /\ \A d : Has(to[i], d) <=> "go" = d \/ Has(to'[i], d)
    BY <1>1, CommandRead
  <1>4. to'[i] = <<>>
    BY <1>2, <1>3, LineTaken DEF BotOK
  <1>5. root[i] \in Positions
    <2>1. Has(to[i], "go") /\ ~Loads(to[i])
      BY <1>3, <1>4, EmptyLine DEF Loads
    <2> QED
      BY <1>2, <2>1 DEF BotOK
  <1>6. /\ bot'[i] \in {"thinking", "mute", "dead"} /\ root' = root
        /\ \A j \in Bots : j # i => bot'[j] = bot[j]
    BY <1>1, <1>2, <1>b DEF TypeOK
  <1>7. TypeOK'
    <2>1. searches' \in [Bots -> Nat]
      BY <1>1, <1>2 DEF TypeOK
    <2>2. bot' \in [Bots -> {"none", "idle", "greeting", "thinking", "reporting", "mute",
                            "dead", "exited"}]
      BY <1>b, <1>2 DEF TypeOK
    <2> QED
      BY <1>1, <1>2, <1>3, <2>1, <2>2 DEF TypeOK, guiVars
  <1>8. GuiUp => gui = "read" /\ i = Mover
    <2>1. Has(to[i], "go") /\ Alive(i)
      BY <1>3 DEF Alive
    <2> QED
      BY <1>2, <2>1 DEF BotOK, Quiet
  <1>9. ~Starting
    BY <1>8 DEF Starting, GuiUp
  <1>10. BotOK(i)'
    <2>1. GuiUp' = GuiUp /\ Starting' = Starting /\ Mover' = Mover
      BY <1>1 DEF GuiUp, Starting, Mover, guiVars
    <2> QED
      BY <1>1, <1>2, <1>3, <1>4, <1>5, <1>6, <1>8, <1>9, <2>1, EmptyLine DEF BotOK, Thinking
  <1> QED
    BY <1>1, <1>3, <1>5, <1>6, <1>7, <1>10, BotStepKeeps

LEMMA PrintInfoKeeps ==
  ASSUME IInv, NEW i \in Bots, PrintInfo(i) PROVE IInv'
  <1>1. /\ Prints(i, Command("info"), "reporting") /\ UNCHANGED <<guiVars, gui, to, botVars>>
        /\ bot[i] = "thinking"
    BY DEF PrintInfo
  <1>2. Command("info") \in Lines /\ Command("info").cmd = "info"
    BY CommandIs
  <1>3. BotOK(i) /\ TypeOK
    BY DEF IInv
  <1>4. /\ from' \in [Bots -> Seq(Lines)]
        /\ bot' \in [Bots -> {"none", "idle", "greeting", "thinking", "reporting", "mute",
                         "dead", "exited"}]
        /\ \A j \in Bots : j # i => from'[j] = from[j] /\ bot'[j] = bot[j]
        /\ bot'[i] \in {"reporting", "dead"}
        /\ Has(from'[i], "bestmove") => Has(from[i], "bestmove")
        /\ ~Has(from[i], "bestmove") => AtEnd(from'[i], "bestmove")
    BY <1>1, <1>2, <1>3, LinePrinted
  <1>5. TypeOK'
    BY <1>1, <1>3, <1>4 DEF TypeOK, guiVars, botVars
  <1>6. ~Has(from[i], "bestmove") /\ Thinking(i) /\ ~Quiet(i)
    BY <1>1, <1>3 DEF BotOK, Thinking, Quiet
  <1>7. to' = to /\ root' = root
    BY <1>1 DEF botVars
  <1>8. BotOK(i)'
    <2>1. GuiUp' = GuiUp /\ Starting' = Starting /\ Mover' = Mover
      BY <1>1 DEF GuiUp, Starting, Mover, guiVars
    <2>2. Loads(to[i])' <=> Loads(to[i])
      BY <1>7
    <2> QED
      BY <1>1, <1>3, <1>4, <1>6, <1>7, <2>1, <2>2 DEF BotOK, Thinking
  <1> QED
    BY <1>1, <1>4, <1>5, <1>7, <1>8, BotStepKeeps

LEMMA PrintBestMoveKeeps ==
  ASSUME IInv, NEW i \in Bots, PrintBestMove(i) PROVE IInv'
  <1>1. /\ UNCHANGED <<guiVars, gui, to, searches, root, crashes>> /\ bot[i] = "reporting"
        /\ answer' = IF Held(i) THEN [answer EXCEPT ![i] = root[i]] ELSE answer
    BY DEF PrintBestMove
  <1>2. BotOK(i) /\ TypeOK
    BY DEF IInv
  <1>3. root[i] \in Positions /\ to[i] = <<>> /\ ~Has(from[i], "bestmove") /\ ~Quiet(i)
    BY <1>1, <1>2 DEF BotOK, Thinking, Quiet
  <1>4. PICK m \in Succ[root[i]] : Prints(i, [cmd |-> "bestmove", at |-> m], "idle")
    BY <1>3 DEF PrintBestMove
  <1> DEFINE l == [cmd |-> "bestmove", at |-> m]
  <1>5. l \in Lines /\ l.cmd = "bestmove"
    <2>1. m \in Positions
      BY <1>3, GameAssumption
    <2> QED
      BY <2>1 DEF Lines
  <1>6. Prints(i, l, "idle")
    BY <1>4
  <1> HIDE DEF l
  <1>7. /\ from' \in [Bots -> Seq(Lines)]
        /\ bot' \in [Bots -> {"none", "idle", "greeting", "thinking", "reporting", "mute",
                         "dead", "exited"}]
        /\ \A j \in Bots : j # i => from'[j] = from[j] /\ bot'[j] = bot[j]
        /\ bot'[i] \in {"idle", "dead"}
        /\ ~Has(from[i], "bestmove") => AtEnd(from'[i], "bestmove")
    BY <1>2, <1>5, <1>6, LinePrinted
  <1>8. answer' \in [Bots -> Positions \union {NoPosition}]
    BY <1>1, <1>2, <1>3 DEF TypeOK
  <1>9. TypeOK'
    BY <1>1, <1>2, <1>7, <1>8 DEF TypeOK, guiVars
  <1>10. BotOK(i)'
    <2>1. GuiUp' = GuiUp /\ Starting' = Starting /\ Mover' = Mover
      BY <1>1 DEF GuiUp, Starting, Mover, guiVars
    <2> QED
      BY <1>1, <1>2, <1>3, <1>7, <2>1, EmptyLine DEF BotOK, Thinking
  <1> QED
    BY <1>1, <1>7, <1>9, <1>10, BotStepKeeps

\* A bot that exits or crashes asks and answers nothing any more.
LEMMA BotEndsKeeps ==
  ASSUME IInv, NEW i \in Bots, NEW end \in {"dead", "exited"}, bot[i] # "none",
         bot' = [bot EXCEPT ![i] = end], crashes' \in 0 .. MaxCrashes,
         UNCHANGED <<guiVars, gui, to, from, searches, root, answer>>
  PROVE  IInv'
  <1>1. BotOK(i) /\ TypeOK
    BY DEF IInv
  <1>2. bot'[i] = end /\ \A j \in Bots : j # i => bot'[j] = bot[j]
    BY <1>1 DEF TypeOK
  <1>3. TypeOK'
    BY <1>1 DEF TypeOK, guiVars
  <1>4. BotOK(i)'
    <2>1. GuiUp' = GuiUp /\ Starting' = Starting /\ Mover' = Mover
      BY DEF GuiUp, Starting, Mover, guiVars
    <2>2. Quiet(i) => Quiet(i)'
      BY <1>2 DEF Quiet, Thinking, Alive
    <2>3. Loads(to[i])' <=> Loads(to[i])
      OBVIOUS
    <2> QED
      BY <1>1, <1>2, <2>1, <2>2, <2>3 DEF BotOK, Thinking
  <1> QED
    BY <1>2, <1>3, <1>4, BotStepKeeps

LEMMA EndOfInputKeeps ==
  ASSUME IInv, NEW i \in Bots, EndOfInput(i) PROVE IInv'
  <1>1. PICK end \in {"exited", "dead"} : bot' = [bot EXCEPT ![i] = end]
    BY DEF EndOfInput
  <1>2. bot[i] # "none" /\ UNCHANGED <<guiVars, gui, to, from, searches, root, answer, crashes>>
    BY DEF EndOfInput, botVars
  <1>3. crashes' \in 0 .. MaxCrashes
    BY <1>2 DEF IInv, TypeOK
  <1> QED
    BY <1>1, <1>2, <1>3, BotEndsKeeps

LEMMA CrashKeeps ==
  ASSUME IInv, NEW i \in Bots, Crash(i) PROVE IInv'
  <1>1. bot[i] # "none" /\ bot' = [bot EXCEPT ![i] = "dead"]
    BY DEF Crash, Alive
  <1>2. crashes' \in 0 .. MaxCrashes
    BY ProgramAssumption DEF Crash, IInv, TypeOK
  <1> QED
    BY <1>1, <1>2, BotEndsKeeps DEF Crash

-----------------------------------------------------------------------------
LEMMA StepKeeps == IInv /\ [Next]_vars => IInv'
  <1> SUFFICES ASSUME IInv, [Next]_vars PROVE IInv'
    OBVIOUS
  <1>1. CASE GuiStep
    BY <1>1, ForkKeeps, SendUciKeeps, ShakeKeeps, SendUciAgainKeeps, SendNewGameKeeps,
       GameOverKeeps, SendPositionKeeps, SendGoKeeps, ReadLineKeeps, ReadEndKeeps DEF GuiStep
  <1>2. CASE PlayerMoves
    BY <1>2, PlayerMovesKeeps
  <1>3. ASSUME NEW i \in Bots, BotStep(i) PROVE IInv'
    BY <1>3, HandleUciKeeps, PrintUciOkKeeps, HandlePositionKeeps, HandleGoKeeps,
       PrintInfoKeeps, PrintBestMoveKeeps, EndOfInputKeeps DEF BotStep
  <1>4. ASSUME NEW i \in Bots, Crash(i) PROVE IInv'
    BY <1>4, CrashKeeps
  <1>5. CASE UNCHANGED vars
    <2>1. /\ UNCHANGED <<guiVars, gui, to, from, bot, searches, root, answer, crashes>>
      BY <1>5 DEF vars, botVars
    <2>2. GuiUp' = GuiUp /\ Starting' = Starting /\ Mover' = Mover
      BY <2>1 DEF GuiUp, Starting, Mover, guiVars
    <2>3. TypeOK'
      BY <2>1 DEF IInv, TypeOK, guiVars
    <2>4. GuiOK'
      BY <2>1, <2>2 DEF IInv, GuiOK, guiVars, Loads
    <2>5. ASSUME NEW i \in Bots PROVE BotOK(i)'
      BY <2>1, <2>2, OtherBotKeeps DEF IInv, BotOK
    <2> QED
      BY <2>3, <2>4, <2>5 DEF IInv
  <1> QED
    BY <1>1, <1>2, <1>3, <1>4, <1>5 DEF Next

\* The invariant the theorems below rest on.
THEOREM InvariantHolds == Spec => []IInv
  BY InitIsOK, StepKeeps, PTL DEF Spec

\* The variables keep their types; no line in a pipe and no count leaves its bounds.
THEOREM TypeCorrect == Spec => []TypeOK
  <1>1. IInv => TypeOK
    BY DEF IInv
  <1> QED
    BY <1>1, InvariantHolds, PTL

\* No answer is under way but to the bot that is asked, and nothing follows it, whatever
\* the program, the games and the crashes (uci-api.c, uci_read_bestmove).
THEOREM NoAnswerStrays == Spec => []NoStrayAnswer
  <1>1. IInv => NoStrayAnswer
    <2> SUFFICES ASSUME IInv, NEW i \in Bots, GuiUp, Asked(i) \/ Answers(i) # {}
                 PROVE  /\ gui = "read" /\ i = Mover
                        /\ Asked(i) => Answers(i) = {}
                        /\ \A k \in Answers(i) : k = Len(from[i])
      BY DEF NoStrayAnswer
    <2>1. /\ DOMAIN from[i] = 1 .. Len(from[i]) /\ DOMAIN to[i] = 1 .. Len(to[i])
          /\ BotOK(i)
      BY DEF IInv, TypeOK
    <2>2. /\ Answers(i) = {} <=> ~Has(from[i], "bestmove")
          /\ Asked(i) => Thinking(i) \/ (Alive(i) /\ Has(to[i], "go"))
      BY <2>1 DEF Answers, Asked, Has, Thinking
    <2>3. ~Quiet(i)
      BY <2>2 DEF Quiet
    <2>4. Asked(i) => Answers(i) = {}
      BY <2>1, <2>2 DEF BotOK
    <2>5. \A k \in Answers(i) : k = Len(from[i])
      BY <2>1 DEF BotOK, Answers, AtEnd
    <2> QED
      BY <2>1, <2>3, <2>4, <2>5 DEF BotOK
  <1> QED
    BY <1>1, InvariantHolds, PTL

-----------------------------------------------------------------------------
(* The program does not wait in vain.                                       *)

AnswerComing(i) ==
  ~Alive(i) \/ Thinking(i) \/ Has(to[i], "go") \/ Has(from[i], "bestmove")
GreetingComing(i) ==
  ~Alive(i) \/ bot[i] = "greeting" \/ Has(to[i], "uci") \/ Has(from[i], "uciok")

WaitOK ==
  /\ gui = "read" => AnswerComing(Mover)
  /\ gui = "shake" => GreetingComing(cur)

\* A bot that prints says what it was to say, as long as the program is there to read.
LEMMA PrintedStays ==
  ASSUME TypeOK, GuiUp, NEW i \in Bots, NEW l \in Lines,
         NEW next \in {"idle", "greeting", "reporting"}, Prints(i, l, next)
  PROVE  /\ bot'[i] = next
         /\ \A c : Has(from'[i], c) <=> Has(from[i], c) \/ l.cmd = c
  <1>1. from'[i] = Append(from[i], l) /\ bot'[i] = next
    BY LinePrinted DEF Held
  <1> QED
    BY <1>1, LineAdded DEF TypeOK

LEMMA BotStepWaits ==
  ASSUME IInv, GuiUp, NEW i \in Bots, BotStep(i) \/ Crash(i)
  PROVE  /\ AnswerComing(i) => AnswerComing(i)'
         /\ GreetingComing(i) => GreetingComing(i)'
  <1>t. TypeOK /\ Held(i)
    BY DEF IInv, Held
  <1>1. CASE HandleUci(i)
    <2>0. Reads(i, "uci")
      BY <1>1 DEF HandleUci
    <2>1. /\ bot[i] = "idle" /\ \A d : Has(to[i], d) <=> "uci" = d \/ Has(to'[i], d)
      BY <2>0, CommandRead
    <2>2. bot'[i] = "greeting" /\ \A c : Has(from[i], c) => Has(from'[i], c)
      BY <1>1, <1>t, PrintedStays, CommandIs DEF HandleUci
    <2> QED
      BY <2>1, <2>2 DEF AnswerComing, GreetingComing, Thinking, Alive
  <1>2. CASE PrintUciOk(i)
    <2>1. /\ bot[i] = "greeting" /\ bot'[i] = "idle" /\ to' = to
          /\ \A c : Has(from'[i], c) <=> Has(from[i], c) \/ c = "uciok"
      BY <1>2, <1>t, PrintedStays, CommandIs DEF PrintUciOk
    <2> QED
      BY <2>1 DEF AnswerComing, GreetingComing, Thinking, Alive
  <1>3. CASE HandlePosition(i)
    <2>1. \A d : d \notin {"position", "ucinewgame"} => (Has(to[i], d) <=> Has(to'[i], d))
      BY <1>3, CommandRead DEF HandlePosition
    <2>2. UNCHANGED <<from, bot>>
      BY <1>3 DEF HandlePosition
    <2> QED
      BY <2>1, <2>2 DEF AnswerComing, GreetingComing, Thinking, Alive
  <1>4. CASE HandleGo(i)
    <2>0. Reads(i, "go")
      BY <1>4 DEF HandleGo
    <2>1. /\ bot[i] = "idle" /\ \A d : Has(to[i], d) <=> "go" = d \/ Has(to'[i], d)
      BY <2>0, CommandRead
    <2>2. bot'[i] \in {"thinking", "mute", "dead"} /\ from' = from
      BY <1>4, <1>t DEF HandleGo, TypeOK
    <2> QED
      BY <2>1, <2>2 DEF AnswerComing, GreetingComing, Thinking, Alive
  <1>5. CASE PrintInfo(i)
    <2>1. /\ bot[i] = "thinking" /\ bot'[i] = "reporting" /\ to' = to
          /\ \A c : Has(from[i], c) => Has(from'[i], c)
      BY <1>5, <1>t, PrintedStays, CommandIs DEF PrintInfo
    <2> QED
      BY <2>1 DEF AnswerComing, GreetingComing, Thinking, Alive
  <1>6. CASE PrintBestMove(i)
    <2>1. PICK m \in IF root[i] \in Positions THEN Succ[root[i]] ELSE Positions :
            Prints(i, [cmd |-> "bestmove", at |-> m], "idle")
      BY <1>6 DEF PrintBestMove
    <2>2. [cmd |-> "bestmove", at |-> m] \in Lines
      BY <2>1, GameAssumption DEF Lines
    <2>3. /\ bot[i] = "reporting" /\ bot'[i] = "idle" /\ to' = to
          /\ \A c : Has(from'[i], c) <=> Has(from[i], c) \/ c = "bestmove"
      BY <1>6, <1>t, <2>1, <2>2, PrintedStays DEF PrintBestMove
    <2> QED
      BY <2>3 DEF AnswerComing, GreetingComing, Thinking, Alive
  <1>7. CASE EndOfInput(i) \/ Crash(i)
    <2>1. ~Alive(i)'
      BY <1>7, <1>t DEF EndOfInput, Crash, TypeOK, Alive
    <2> QED
      BY <2>1 DEF AnswerComing, GreetingComing
  <1> QED
    BY <1>1, <1>2, <1>3, <1>4, <1>5, <1>6, <1>7 DEF BotStep

\* A bot's step takes nothing from what the program waits for, of itself or of the other.
LEMMA BotStepKeepsWait ==
  ASSUME IInv, IInv', WaitOK, NEW i \in Bots, BotStep(i) \/ Crash(i)
  PROVE  WaitOK'
  <1>1. UNCHANGED <<guiVars, gui>>
    BY DEF BotStep, HandleUci, PrintUciOk, HandlePosition, HandleGo, PrintInfo,
           PrintBestMove, EndOfInput, Crash
  <1>2. Mover' = Mover /\ cur' = cur /\ gui' = gui
    BY <1>1 DEF Mover, guiVars
  <1>3. ASSUME NEW j \in Bots, j # i
        PROVE  to'[j] = to[j] /\ from'[j] = from[j] /\ bot'[j] = bot[j]
    BY <1>3
    DEF BotStep, HandleUci, PrintUciOk, HandlePosition, HandleGo, PrintInfo,
        PrintBestMove, EndOfInput, Crash, Reads, Prints, IInv, TypeOK
  <1>4. ASSUME GuiUp, NEW j \in Bots
        PROVE  /\ AnswerComing(j) => AnswerComing(j)'
               /\ GreetingComing(j) => GreetingComing(j)'
    <2>1. CASE j = i
      BY <1>4, <2>1, BotStepWaits
    <2>2. CASE j # i
      BY <2>2, <1>3 DEF AnswerComing, GreetingComing, Thinking, Alive
    <2> QED
      BY <2>1, <2>2
  <1>5. CASE gui = "read"
    <2>1. Mover \in Bots /\ GuiUp
      BY <1>5 DEF IInv, GuiOK, GuiUp
    <2> QED
      BY <1>2, <1>4, <1>5, <2>1 DEF WaitOK
  <1>6. CASE gui = "shake"
    <2>1. cur \in Bots /\ GuiUp
      BY <1>6 DEF IInv, GuiOK, GuiUp
    <2> QED
      BY <1>2, <1>4, <1>6, <2>1 DEF WaitOK
  <1> QED
    BY <1>2, <1>5, <1>6 DEF WaitOK

\* The program begins to wait when it has asked, and goes on only with a line that is
\* not the one it waits for.
LEMMA GuiStepKeepsWait ==
  ASSUME IInv, WaitOK, GuiStep \/ PlayerMoves
  PROVE  WaitOK'
  <1>1. CASE SendUci
    <2>1. CASE gui' = "killed"
      BY <2>1 DEF WaitOK
    <2>2. CASE gui' = "shake" /\ to' = [to EXCEPT ![cur] = Append(@, Command("uci"))]
      <3>1. cur \in Bots /\ to[cur] \in Seq(Lines)
        BY <1>1 DEF SendUci, IInv, GuiOK, TypeOK
      <3>2. cur' = cur /\ to'[cur] = Append(to[cur], Command("uci"))
        BY <1>1, <2>2, <3>1 DEF SendUci, guiVars, IInv, TypeOK
      <3>3. Has(to'[cur], "uci")
        BY <3>1, <3>2, CommandIs, LineAdded
      <3> QED
        BY <2>2, <3>2, <3>3 DEF WaitOK, GreetingComing
    <2> QED
      BY <1>1, <2>1, <2>2 DEF SendUci, Send
  <1>2. CASE Shake
    <2>1. CASE gui' # "shake"
      <3>1. gui' # "read"
        BY <1>2, <2>1 DEF Shake
      <3> QED
        BY <2>1, <3>1 DEF WaitOK
    <2>2. CASE gui' = "shake"
      <3>1. /\ cur \in Bots /\ gui = "shake" /\ NextLine(cur) /\ cur' = cur
            /\ Head(from[cur]).cmd # "uciok" /\ UNCHANGED <<to, bot>>
        BY <1>2, <2>2 DEF Shake, IInv, GuiOK
      <3>2. /\ from[cur] \in Seq(Lines) /\ from[cur] # <<>>
            /\ from'[cur] = Tail(from[cur])
        BY <3>1 DEF NextLine, IInv, TypeOK
      <3>3. Has(from[cur], "uciok") => Has(from'[cur], "uciok")
        BY <3>1, <3>2, LineTaken
      <3>4. GreetingComing(cur)
        BY <3>1 DEF WaitOK
      <3> QED
        BY <2>2, <3>1, <3>3, <3>4 DEF WaitOK, GreetingComing, Alive
    <2> QED
      BY <2>1, <2>2
  <1>3. CASE SendGo
    <2>1. CASE gui' = "killed"
      BY <2>1 DEF WaitOK
    <2>2. CASE gui' = "read" /\ to' = [to EXCEPT ![Mover] = Append(@, Command("go"))]
      <3>1. Mover \in Bots /\ to[Mover] \in Seq(Lines)
        BY <1>3 DEF SendGo, IInv, GuiOK, TypeOK
      <3>2. Mover' = Mover /\ to'[Mover] = Append(to[Mover], Command("go"))
        BY <1>3, <2>2, <3>1 DEF SendGo, guiVars, Mover, IInv, TypeOK
      <3>3. Has(to'[Mover], "go")
        BY <3>1, <3>2, CommandIs, LineAdded
      <3> QED
        BY <2>2, <3>2, <3>3 DEF WaitOK, AnswerComing
    <2> QED
      BY <1>3, <2>1, <2>2 DEF SendGo, Send
  <1>4. CASE ReadLine
    <2>1. CASE gui' = "play"
      BY <2>1 DEF WaitOK
    <2>2. CASE gui' # "play"
      <3>1. /\ gui = "read" /\ gui' = "read" /\ NextLine(Mover) /\ Mover \in Bots
            /\ Head(from[Mover]).cmd # "bestmove" /\ UNCHANGED <<to, bot>>
            /\ UNCHANGED <<seat, program, games>>
        BY <1>4, <2>2 DEF ReadLine, IInv, GuiOK
      <3>2. /\ from[Mover] \in Seq(Lines) /\ from[Mover] # <<>>
            /\ from'[Mover] = Tail(from[Mover]) /\ Mover' = Mover
        BY <3>1 DEF NextLine, IInv, TypeOK, Mover
      <3>3. Has(from[Mover], "bestmove") => Has(from'[Mover], "bestmove")
        BY <3>1, <3>2, LineTaken
      <3>4. AnswerComing(Mover)
        BY <3>1 DEF WaitOK
      <3> QED
        BY <3>1, <3>2, <3>3, <3>4 DEF WaitOK, AnswerComing, Thinking, Alive
    <2> QED
      BY <2>1, <2>2
  <1>5. CASE Fork \/ SendUciAgain \/ SendNewGame \/ GameOver \/ SendPosition \/ ReadEnd
             \/ PlayerMoves
    <2>1. gui' \notin {"read", "shake"}
      BY <1>5 DEF Fork, SendUciAgain, SendNewGame, GameOver, SendPosition, ReadEnd,
                  PlayerMoves, Send
    <2> QED
      BY <2>1 DEF WaitOK
  <1> QED
    BY <1>1, <1>2, <1>3, <1>4, <1>5 DEF GuiStep

LEMMA StepKeepsWait == IInv /\ IInv' /\ WaitOK /\ [Next]_vars => WaitOK'
  <1> SUFFICES ASSUME IInv, IInv', WaitOK, [Next]_vars PROVE WaitOK'
    OBVIOUS
  <1>1. CASE UNCHANGED vars
    BY <1>1 DEF vars, botVars, guiVars, WaitOK, AnswerComing, GreetingComing, Thinking,
                Alive, Mover
  <1> QED
    BY <1>1, GuiStepKeepsWait, BotStepKeepsWait DEF Next

\* Only a bot that could not create the thread of its search is mute.
MuteOK == \A i \in Bots : bot[i] = "mute" => searches[i] > Threads

LEMMA StepKeepsMute == IInv /\ MuteOK /\ [Next]_vars => MuteOK'
  <1> SUFFICES ASSUME IInv, MuteOK, [Next]_vars, NEW i \in Bots, bot'[i] = "mute"
               PROVE  searches'[i] > Threads
    BY DEF MuteOK
  <1>1. CASE HandleGo(i)
    <2>1. searches[i] >= Threads /\ searches'[i] = searches[i] + 1 /\ searches[i] \in Nat
      BY <1>1 DEF HandleGo, IInv, TypeOK
    <2> QED
      BY <2>1, ProgramAssumption
  <1>2. CASE ~HandleGo(i)
    <2>1. searches'[i] = searches[i]
      <3>1. CASE \E j \in Bots : HandleGo(j)
        BY <1>2, <3>1 DEF HandleGo, IInv, TypeOK
      <3>2. CASE ~\E j \in Bots : HandleGo(j)
        BY <3>2 DEF Next, GuiStep, PlayerMoves, Fork, SendUci, Shake, SendUciAgain, SendNewGame,
           GameOver, SendPosition, SendGo, ReadLine, ReadEnd, BotStep, HandleUci, PrintUciOk,
           HandlePosition, PrintInfo, PrintBestMove, EndOfInput, Crash, botVars, vars
      <3> QED
        BY <3>1, <3>2
    <2>2. bot[i] = "mute"
      <3>1. CASE UNCHANGED bot
        BY <3>1
      <3>2. CASE Fork
        BY <3>2 DEF Fork, IInv, TypeOK
      <3>3. CASE \E j \in Bots : BotStep(j) \/ Crash(j)
        BY <1>2, <3>3 DEF BotStep, HandleUci, PrintUciOk, HandlePosition, HandleGo, PrintInfo,
           PrintBestMove, EndOfInput, Crash, Prints, IInv, TypeOK
      <3> QED
        BY <3>1, <3>2, <3>3 DEF Next, GuiStep, PlayerMoves, SendUci, Shake, SendUciAgain,
           SendNewGame, GameOver, SendPosition, SendGo, ReadLine, ReadEnd, vars
    <2> QED
      BY <2>1, <2>2 DEF MuteOK
  <1> QED
    BY <1>1, <1>2

\* Whenever the program reads, the line it waits for is there, or will be printed, or
\* the bot is gone, or lives and was asked for more searches than it has threads: no other
\* chain of commands and answers leaves both sides waiting (uci-api.c, create_bot and
\* uci_read_bestmove; bot.c, bot_start).
THEOREM NeverWaitsInVain == Spec => []WaitsForALine
  <1>1. Init => WaitOK /\ MuteOK
    BY DEF Init, WaitOK, MuteOK
  <1>2. ASSUME IInv, WaitOK, MuteOK PROVE WaitsForALine
    <2>1. ASSUME NEW i \in Bots
          PROVE  /\ DOMAIN from[i] = 1 .. Len(from[i])
                 /\ DOMAIN to[i] = 1 .. Len(to[i])
      BY <1>2 DEF IInv, TypeOK
    <2>2. ASSUME gui = "read"
          PROVE  \/ ~Alive(Mover) \/ Asked(Mover) \/ Answers(Mover) # {}
                 \/ OutOfThreads(Mover)
      <3>1. Mover \in Bots /\ AnswerComing(Mover)
        BY <1>2, <2>2 DEF IInv, GuiOK, WaitOK
      <3>2. bot[Mover] = "mute" => OutOfThreads(Mover)
        BY <1>2, <3>1 DEF MuteOK, OutOfThreads, Alive
      <3> QED
        BY <2>1, <3>1, <3>2 DEF AnswerComing, Asked, Answers, Has, Thinking
    <2>3. ASSUME gui = "shake"
          PROVE  \/ ~Alive(cur) \/ bot[cur] = "greeting"
                 \/ \E k \in DOMAIN to[cur] : to[cur][k].cmd = "uci"
                 \/ \E k \in DOMAIN from[cur] : from[cur][k].cmd = "uciok"
      <3>1. cur \in Bots /\ GreetingComing(cur)
        BY <1>2, <2>3 DEF IInv, GuiOK, WaitOK
      <3> QED
        BY <2>1, <3>1 DEF GreetingComing, Has
    <2> QED
      BY <2>2, <2>3 DEF WaitsForALine
  <1>3. IInv /\ WaitOK /\ MuteOK => WaitsForALine
    BY <1>2
  <1> QED
    BY <1>1, <1>3, StepKeepsWait, StepKeepsMute, InvariantHolds, PTL DEF Spec

-----------------------------------------------------------------------------
(* Each bot is used as UciEngine wants.                                     *)

\* A step as the engine i sees it.
EngineStep(i) ==
  \/ Phase(i)' = Phase(i) /\ root'[i] = root[i] /\ answer'[i] = answer[i]
  \/ /\ Phase(i) = "idle" /\ root'[i] \in Positions \union {NoPosition}
     /\ Phase(i)' = Phase(i) /\ answer'[i] = answer[i]
  \/ /\ Phase(i) = "idle" /\ root[i] \in Positions
     /\ Phase(i)' = "thinking" /\ root'[i] = root[i] /\ answer'[i] = answer[i]
  \/ /\ Phase(i) = "thinking" /\ Phase(i)' = "idle"
     /\ answer'[i] = root[i] /\ root'[i] = root[i]
  \/ /\ Phase(i) # "closed" /\ Phase(i)' = "closed"
     /\ root'[i] = root[i] /\ answer'[i] = answer[i]

LEMMA StepIsEngineStep ==
  ASSUME IInv, IInv', [Next]_vars, NEW i \in Bots PROVE EngineStep(i)
  <1>1. ASSUME bot'[i] = bot[i], root'[i] = root[i], answer'[i] = answer[i]
        PROVE  EngineStep(i)
    BY <1>1 DEF EngineStep, Phase
  <1>2. CASE GuiStep
    <2>1. CASE Fork
      <3>1. root' = root /\ answer' = answer /\ cur \in Bots /\ bot[cur] = "none"
        BY <2>1 DEF Fork, botVars, IInv, GuiOK, Bots
      <3>2. bot'[i] = bot[i] \/ (bot[i] = "none" /\ bot'[i] = "idle")
        BY <2>1, <3>1 DEF Fork, IInv, TypeOK
      <3> QED
        BY <3>1, <3>2 DEF EngineStep, Phase
    <2>2. CASE ~Fork
      <3>1. UNCHANGED <<bot, root, answer>>
        BY <1>2, <2>2 DEF GuiStep, SendUci, Shake, SendUciAgain, SendNewGame, GameOver,
           SendPosition, SendGo, ReadLine, ReadEnd, botVars
      <3> QED
        BY <3>1, <1>1
    <2> QED
      BY <2>1, <2>2
  <1>3. CASE PlayerMoves
    BY <1>1, <1>3 DEF PlayerMoves, botVars
  <1>4. ASSUME NEW j \in Bots, j # i, BotStep(j) \/ Crash(j) PROVE EngineStep(i)
    <2>1. bot'[i] = bot[i]
      BY <1>4 DEF BotStep, HandleUci, PrintUciOk, HandlePosition, HandleGo, PrintInfo,
         PrintBestMove, EndOfInput, Crash, Prints, IInv, TypeOK
    <2>2. root'[i] = root[i]
      BY <1>4 DEF BotStep, HandleUci, PrintUciOk, HandlePosition, HandleGo, PrintInfo,
         PrintBestMove, EndOfInput, Crash, botVars, IInv, TypeOK
    <2>3. answer'[i] = answer[i]
      BY <1>4 DEF BotStep, HandleUci, PrintUciOk, HandlePosition, HandleGo, PrintInfo,
         PrintBestMove, EndOfInput, Crash, botVars, IInv, TypeOK
    <2> QED
      BY <2>1, <2>2, <2>3, <1>1
  <1>5. ASSUME BotStep(i) PROVE EngineStep(i)
    <2>1. CASE HandleUci(i)
      <3>1. Command("id") \in Lines /\ Prints(i, Command("id"), "greeting")
            /\ Reads(i, "uci") /\ answer' = answer
        BY <2>1, CommandIs DEF HandleUci
      <3>2. bot[i] = "idle" /\ Has(to[i], "uci")
        BY <3>1, CommandRead
      <3>3. bot'[i] \in {"greeting", "dead"}
        BY <3>1, LinePrinted DEF IInv
      <3>4. root' = root
        BY <2>1, <3>2 DEF HandleUci, IInv, BotOK, TypeOK
      <3> QED
        BY <3>1, <3>2, <3>3, <3>4 DEF EngineStep, Phase
    <2>2. CASE PrintUciOk(i)
      <3>1. Command("uciok") \in Lines /\ Prints(i, Command("uciok"), "idle")
            /\ bot[i] = "greeting" /\ root' = root /\ answer' = answer
        BY <2>2, CommandIs DEF PrintUciOk, botVars
      <3>2. bot'[i] \in {"idle", "dead"}
        BY <3>1, LinePrinted DEF IInv
      <3> QED
        BY <3>1, <3>2 DEF EngineStep, Phase
    <2>3. CASE HandlePosition(i)
      <3>1. Reads(i, Head(to[i]).cmd) /\ bot' = bot /\ answer' = answer
        BY <2>3 DEF HandlePosition, Reads
      <3>2. bot[i] = "idle"
        BY <3>1, CommandRead
      <3>3. root'[i] \in Positions \union {NoPosition}
        BY DEF IInv, TypeOK
      <3> QED
        BY <3>1, <3>2, <3>3 DEF EngineStep, Phase
    <2>4. CASE HandleGo(i)
      <3>1. /\ Reads(i, "go") /\ bot'[i] \in {"thinking", "mute", "dead"}
            /\ root' = root /\ answer' = answer
        BY <2>4 DEF HandleGo, IInv, TypeOK
      <3>2. bot[i] = "idle"
        BY <3>1, CommandRead
      <3>3. bot'[i] # "dead" => root'[i] \in Positions
        BY <3>1 DEF IInv, BotOK, Thinking
      <3> QED
        BY <3>1, <3>2, <3>3 DEF EngineStep, Phase
    <2>5. CASE PrintInfo(i)
      <3>1. Command("info") \in Lines /\ Prints(i, Command("info"), "reporting")
            /\ bot[i] = "thinking" /\ root' = root /\ answer' = answer
        BY <2>5, CommandIs DEF PrintInfo, botVars
      <3>2. bot'[i] \in {"reporting", "dead"}
        BY <3>1, LinePrinted DEF IInv
      <3> QED
        BY <3>1, <3>2 DEF EngineStep, Phase
    <2>6. CASE PrintBestMove(i)
      <3>1. bot[i] = "reporting" /\ root' = root
        BY <2>6 DEF PrintBestMove
      <3>2. \/ Held(i) /\ bot'[i] = "idle" /\ answer'[i] = root[i]
            \/ ~Held(i) /\ bot'[i] = "dead" /\ answer'[i] = answer[i]
        BY <2>6 DEF PrintBestMove, Prints, IInv, TypeOK
      <3> QED
        BY <3>1, <3>2 DEF EngineStep, Phase
    <2>7. CASE EndOfInput(i)
      <3>1. /\ bot[i] \in {"idle", "thinking", "reporting", "mute"}
            /\ bot'[i] \in {"dead", "exited"}
            /\ root' = root /\ answer' = answer
        BY <2>7 DEF EndOfInput, botVars, IInv, TypeOK
      <3> QED
        BY <3>1 DEF EngineStep, Phase
    <2> QED
      BY <1>5, <2>1, <2>2, <2>3, <2>4, <2>5, <2>6, <2>7 DEF BotStep
  <1>6. ASSUME Crash(i) PROVE EngineStep(i)
    <2>1. Alive(i) /\ bot'[i] = "dead" /\ root' = root /\ answer' = answer
      BY <1>6 DEF Crash, IInv, TypeOK
    <2> QED
      BY <2>1 DEF EngineStep, Phase, Alive
  <1>7. CASE UNCHANGED vars
    BY <1>1, <1>7 DEF vars, botVars
  <1> QED
    BY <1>2, <1>3, <1>4, <1>5, <1>6, <1>7 DEF Next

\* Whatever the program and whichever bot crashes, each bot gets a position only when it is
\* idle, a go only with a position, and its answer is for that position.
THEOREM BotsAreWellUsed == Spec => BotsWellUsed
  <1>1. Init => Engine1!EngineInit /\ Engine2!EngineInit
    BY DEF Init, Engine1!EngineInit, Engine2!EngineInit, Phase, Bots
  <1>2. IInv /\ IInv' /\ [Next]_vars => [Engine1!EngineNext]_(Engine1!engineVars)
    <2> SUFFICES ASSUME IInv, IInv', [Next]_vars
                 PROVE  [Engine1!EngineNext]_(Engine1!engineVars)
      OBVIOUS
    <2>1. EngineStep(1)
      BY StepIsEngineStep DEF Bots
    <2> QED
      BY <2>1 DEF EngineStep, Engine1!EngineNext, Engine1!SetPosition, Engine1!Ask,
         Engine1!Answer, Engine1!Close, Engine1!engineVars
  <1>3. IInv /\ IInv' /\ [Next]_vars => [Engine2!EngineNext]_(Engine2!engineVars)
    <2> SUFFICES ASSUME IInv, IInv', [Next]_vars
                 PROVE  [Engine2!EngineNext]_(Engine2!engineVars)
      OBVIOUS
    <2>1. EngineStep(2)
      BY StepIsEngineStep DEF Bots
    <2> QED
      BY <2>1 DEF EngineStep, Engine2!EngineNext, Engine2!SetPosition, Engine2!Ask,
         Engine2!Answer, Engine2!Close, Engine2!engineVars
  <1> QED
    BY <1>1, <1>2, <1>3, InvariantHolds, PTL
       DEF Spec, BotsWellUsed, Engine1!EngineSpec, Engine2!EngineSpec

-----------------------------------------------------------------------------
(* The two sides agree on the position.                                     *)

Position(m) == [cmd |-> "position", at |-> m]

\* The bot with these lines to read and this root will search m.
Loaded(s, r, m) == IF s = <<>> THEN r = m ELSE s[Len(s)] = Position(m)

\* A go among these lines will be about m.
GoesFor(s, r, m) ==
  \A k \in 1 .. Len(s) :
    s[k].cmd = "go" => IF k = 1 THEN r = m ELSE s[k - 1] = Position(m)

\* The answers are moves of m.
Answering(s, m) == \A k \in 1 .. Len(s) : s[k].cmd = "bestmove" => s[k].at \in Succ[m]

LEMMA GoAdded ==
  ASSUME NEW s \in Seq(Lines), NEW r, NEW m, Loaded(s, r, m), ~Has(s, "go")
  PROVE  GoesFor(Append(s, Command("go")), r, m)
  <1> DEFINE t == Append(s, Command("go"))
             n == Len(s)
  <1>1. n \in Nat /\ Len(t) = n + 1 /\ (n = 0 => s = <<>>) /\ (s = <<>> => n = 0)
    BY EmptySeq, CommandIs
  <1>2. \A k \in 1 .. n : t[k] = s[k]
    BY CommandIs
  <1> HIDE DEF t
  <1> SUFFICES ASSUME NEW k \in 1 .. n + 1, t[k].cmd = "go"
               PROVE  IF k = 1 THEN r = m ELSE t[k - 1] = Position(m)
    BY <1>1 DEF GoesFor, t
  <1>3. k = n + 1
    <2>1. k \in 1 .. n => FALSE
      BY <1>2 DEF Has
    <2> QED
      BY <2>1, <1>1
  <1>4. CASE n = 0
    BY <1>1, <1>3, <1>4 DEF Loaded
  <1>5. CASE n # 0
    <2>1. k # 1 /\ k - 1 = n /\ n \in 1 .. n
      BY <1>1, <1>3, <1>5
    <2> QED
      BY <2>1, <1>1, <1>2, <1>5 DEF Loaded
  <1> QED
    BY <1>4, <1>5

LEMMA PositionAdded ==
  ASSUME NEW s \in Seq(Lines), NEW r, NEW m \in Positions
  PROVE  Loaded(Append(s, Position(m)), r, m)
  <1>1. Position(m) \in Lines
    BY DEF Position, Lines
  <1>2. /\ Append(s, Position(m)) # <<>>
        /\ Append(s, Position(m))[Len(Append(s, Position(m)))] = Position(m)
    <2>1. Append(s, Position(m)) # <<>>
      BY <1>1, LineAdded
    <2>2. /\ Len(s) \in Nat /\ Len(Append(s, Position(m))) = Len(s) + 1
          /\ Append(s, Position(m))[Len(s) + 1] = Position(m)
      BY <1>1
    <2> QED
      BY <2>1, <2>2
  <1> QED
    BY <1>2 DEF Loaded

\* The bot has read its first line; a position has become its root.
LEMMA FirstLineRead ==
  ASSUME NEW s \in Seq(Lines), s # <<>>, NEW r, NEW q, NEW m,
         Head(s).cmd = "position" => q = Head(s).at
  PROVE  /\ Loaded(s, r, m) => Loaded(Tail(s), q, m)
         /\ GoesFor(s, r, m) => GoesFor(Tail(s), q, m)
         /\ GoesFor(s, r, m) /\ Head(s).cmd = "go" => r = m
  <1> DEFINE t == Tail(s)
             h == Head(s)
             n == Len(t)
  <1>1. n \in Nat /\ Len(s) = n + 1 /\ t \in Seq(Lines)
    OBVIOUS
  <1>2. h = s[1] /\ \A k \in 1 .. n : t[k] = s[k + 1]
    OBVIOUS
  <1>3. (n = 0 => t = <<>>) /\ (t = <<>> => n = 0)
    BY <1>1, EmptySeq
  <1>4. h = Position(m) => q = m
    BY DEF Position
  <1> HIDE DEF t, h
  <1>5. ASSUME Loaded(s, r, m) PROVE Loaded(t, q, m)
    <2>1. s[n + 1] = Position(m)
      BY <1>1, <1>5 DEF Loaded
    <2>2. CASE n = 0
      BY <2>1, <2>2, <1>2, <1>3, <1>4 DEF Loaded
    <2>3. CASE n # 0
      <3>1. n \in 1 .. n
        BY <1>1, <2>3
      <3> QED
        BY <3>1, <2>1, <2>3, <1>2, <1>3 DEF Loaded
    <2> QED
      BY <2>2, <2>3
  <1>6. ASSUME GoesFor(s, r, m) PROVE GoesFor(t, q, m)
    <2> SUFFICES ASSUME NEW k \in 1 .. n, t[k].cmd = "go"
                 PROVE  IF k = 1 THEN q = m ELSE t[k - 1] = Position(m)
      BY DEF GoesFor
    <2>1. k + 1 \in 1 .. n + 1 /\ k + 1 # 1 /\ (k + 1) - 1 = k
      BY <1>1
    <2>2. s[k] = Position(m)
      BY <2>1, <1>1, <1>2, <1>6 DEF GoesFor
    <2>3. CASE k = 1
      BY <2>2, <2>3, <1>2, <1>4
    <2>4. CASE k # 1
      <3>1. k - 1 \in 1 .. n /\ (k - 1) + 1 = k
        BY <2>4, <1>1
      <3> QED
        BY <3>1, <2>2, <2>4, <1>2
    <2> QED
      BY <2>3, <2>4
  <1>7. GoesFor(s, r, m) /\ h.cmd = "go" => r = m
    <2>1. 1 \in 1 .. n + 1
      BY <1>1
    <2> QED
      BY <2>1, <1>1, <1>2 DEF GoesFor
  <1> QED
    BY <1>5, <1>6, <1>7 DEF t, h

LEMMA AnswerAdded ==
  ASSUME NEW s \in Seq(Lines), NEW l \in Lines, NEW m, Answering(s, m),
         l.cmd = "bestmove" => l.at \in Succ[m]
  PROVE  Answering(Append(s, l), m)
  <1> DEFINE t == Append(s, l)
             n == Len(s)
  <1>1. n \in Nat /\ Len(t) = n + 1 /\ t[n + 1] = l /\ \A k \in 1 .. n : t[k] = s[k]
    OBVIOUS
  <1> HIDE DEF t
  <1>2. \A k \in 1 .. n + 1 : k \in 1 .. n \/ k = n + 1
    BY <1>1
  <1>3. Answering(t, m)
    BY <1>1, <1>2 DEF Answering
  <1> QED
    BY <1>3 DEF t

LEMMA AnswerTaken ==
  ASSUME NEW s \in Seq(Lines), s # <<>>, NEW m, Answering(s, m)
  PROVE  /\ Answering(Tail(s), m)
         /\ Head(s).cmd = "bestmove" => Head(s).at \in Succ[m]
  <1> DEFINE t == Tail(s)
             h == Head(s)
             n == Len(t)
  <1>1. n \in Nat /\ Len(s) = n + 1 /\ h = s[1] /\ \A k \in 1 .. n : t[k] = s[k + 1]
    OBVIOUS
  <1> HIDE DEF t, h
  <1>2. 1 \in 1 .. n + 1 /\ \A k \in 1 .. n : k + 1 \in 1 .. n + 1
    BY <1>1
  <1>3. Answering(t, m) /\ (h.cmd = "bestmove" => h.at \in Succ[m])
    BY <1>1, <1>2 DEF Answering
  <1> QED
    BY <1>3 DEF t, h

\* The bot that is asked searches the position of the GUI.
Agrees(i) ==
  /\ GoesFor(to[i], root[i], match)
  /\ Thinking(i) => root[i] = match
  /\ Answering(from[i], match)

\* No bot exits while the GUI is there, and those it plays with were created.
Lives(j) ==
  /\ bot[j] # "exited"
  /\ gui = "fork" /\ j < cur => bot[j] # "none"
  /\ gui \in {"hello", "shake"} /\ j <= cur => bot[j] # "none"
  /\ gui \in {"again", "new", "play", "go", "read"} /\ j <= Count => bot[j] # "none"

GameOK ==
  /\ Starting => match = Start
  /\ gui = "new" => match = Start \/ Succ[match] = {}
  /\ gui = "go" => Loaded(to[Mover], root[Mover], match)
  /\ gui = "read" => Agrees(Mover)
  /\ GuiUp => \A j \in Bots : Lives(j)

LEMMA InitGame == Init => GameOK
  BY DEF Init, GameOK, Starting, GuiUp, Lives, Bots

LEMMA MoverExists == TypeOK /\ Mover \in Bots => Mover <= Count
  BY ProgramAssumption DEF TypeOK, Mover, Count, Bots

\* A step that changes neither bots nor pipes.
LEMMA GuiStepGame ==
  ASSUME IInv, IInv', GameOK, GuiStep \/ PlayerMoves PROVE GameOK'
  <1>1. /\ GuiUp /\ root' = root /\ program' = program
        /\ Count' = Count /\ (~Fork => bot' = bot)
    BY DEF GuiStep, PlayerMoves, Fork, SendUci, Shake, SendUciAgain, SendNewGame, GameOver,
       SendPosition, SendGo, ReadLine, ReadEnd, guiVars, botVars, GuiUp, Count
  <1>2. CASE Fork
    <2>1. gui = "fork" /\ gui' = "hello" /\ match' = match /\ cur' = cur /\ cur \in Bots
      BY <1>2 DEF Fork, guiVars, IInv, GuiOK
    <2>2. \A j \in Bots : bot'[j] = IF j = cur THEN "idle" ELSE bot[j]
      BY <1>2, <2>1 DEF Fork, IInv, TypeOK
    <2>3. \A j \in Bots : Lives(j) => Lives(j)'
      BY <2>1, <2>2 DEF Lives, Bots
    <2> QED
      BY <1>1, <2>1, <2>3 DEF GameOK, Starting, GuiUp
  <1>3. CASE SendUci \/ SendUciAgain
    <2>1. /\ bot' = bot /\ match' = match /\ cur' = cur
          /\ \/ gui = "hello" /\ gui' = "shake"
             \/ gui = "again" /\ gui' = "new"
             \/ gui' = "killed"
          /\ Starting
      BY <1>3 DEF SendUci, SendUciAgain, Send, guiVars, Starting
    <2>2. \A j \in Bots : ~(gui' = "killed") /\ Lives(j) => Lives(j)'
      BY <1>1, <2>1 DEF Lives
    <2> QED
      BY <1>1, <2>1, <2>2 DEF GameOK, Starting, GuiUp
  <1>4. CASE Shake
    <2>1. /\ bot' = bot /\ match' = match /\ Starting /\ gui = "shake" /\ cur \in Bots
          /\ \/ gui' = "shake" /\ cur' = cur
             \/ gui' = "fork" /\ cur' = cur + 1
             \/ gui' \in {"new", "again"} /\ cur = Count
      BY <1>4 DEF Shake, Starting, IInv, GuiOK
    <2>2. \A j \in Bots : Lives(j) => Lives(j)'
      BY <1>1, <2>1 DEF Lives, Bots
    <2> QED
      BY <1>1, <2>1, <2>2 DEF GameOK, Starting, GuiUp
  <1>5. CASE SendNewGame
    <2>1. /\ bot' = bot /\ match' = Start /\ gui = "new"
          /\ gui' \in {"new", "play", "killed"}
      BY <1>5 DEF SendNewGame, Send
    <2>2. \A j \in Bots : ~(gui' = "killed") /\ Lives(j) => Lives(j)'
      BY <1>1, <2>1 DEF Lives
    <2> QED
      BY <1>1, <2>1, <2>2 DEF GameOK, Starting, GuiUp
  <1>6. CASE GameOver \/ PlayerMoves \/ ReadEnd
    <2>1. /\ bot' = bot /\ gui \in {"play", "read"}
          /\ \/ gui' \in {"play", "killed", "exited"}
             \/ gui' = "new" /\ match' = match /\ Succ[match] = {}
      BY <1>6 DEF GameOver, PlayerMoves, ReadEnd
    <2>2. \A j \in Bots : gui' \notin {"killed", "exited"} /\ Lives(j) => Lives(j)'
      BY <1>1, <2>1 DEF Lives
    <2> QED
      BY <1>1, <2>1, <2>2 DEF GameOK, Starting, GuiUp
  <1>7. CASE SendPosition
    <2>1. /\ bot' = bot /\ match' = match /\ gui = "play" /\ gui' \in {"go", "killed"}
          /\ Mover' = Mover /\ Mover # 0
      BY <1>7 DEF SendPosition, Send, guiVars, Mover
    <2>2. Mover \in Bots
      BY <2>1, MoverIs DEF IInv
    <2>3. gui' = "go" => Loaded(to'[Mover], root[Mover], match)
      <3> SUFFICES ASSUME gui' = "go" PROVE Loaded(to'[Mover], root[Mover], match)
        OBVIOUS
      <3>1. to[Mover] \in Seq(Lines) /\ to'[Mover] = Append(to[Mover], Position(match))
        BY <1>7, <2>2 DEF SendPosition, Send, Position, IInv, TypeOK
      <3> QED
        BY <3>1, PositionAdded DEF IInv, TypeOK
    <2>4. \A j \in Bots : gui' # "killed" /\ Lives(j) => Lives(j)'
      BY <1>1, <2>1 DEF Lives
    <2> QED
      BY <1>1, <2>1, <2>3, <2>4 DEF GameOK, Starting, GuiUp
  <1>8. CASE SendGo
    <2>1. /\ bot' = bot /\ from' = from /\ match' = match /\ gui = "go"
          /\ gui' \in {"read", "killed"} /\ Mover' = Mover /\ Mover \in Bots
      BY <1>8 DEF SendGo, Send, guiVars, Mover, IInv, GuiOK
    <2>2. Quiet(Mover)
      BY <1>1, <2>1 DEF IInv, BotOK
    <2>3. gui' = "read" => GoesFor(to'[Mover], root[Mover], match)
      <3> SUFFICES ASSUME gui' = "read" PROVE GoesFor(to'[Mover], root[Mover], match)
        OBVIOUS
      <3>1. /\ to[Mover] \in Seq(Lines) /\ Alive(Mover)
            /\ to'[Mover] = Append(to[Mover], Command("go"))
        BY <1>8, <2>1 DEF SendGo, Send, IInv, TypeOK
      <3>2. Loaded(to[Mover], root[Mover], match) /\ ~Has(to[Mover], "go")
        BY <2>1, <2>2, <3>1 DEF GameOK, Quiet
      <3> QED
        BY <3>1, <3>2, GoAdded
    <2>4. gui' = "read" => Agrees(Mover)'
      <3>1. ~Thinking(Mover)' /\ Answering(from[Mover], match)
        BY <2>1, <2>2 DEF Quiet, Thinking, Has, Answering
      <3> QED
        BY <1>1, <2>1, <2>3, <3>1 DEF Agrees
    <2>5. \A j \in Bots : gui' # "killed" /\ Lives(j) => Lives(j)'
      BY <1>1, <2>1 DEF Lives
    <2> QED
      BY <1>1, <2>1, <2>4, <2>5 DEF GameOK, Starting, GuiUp
  <1>9. CASE ReadLine
    <2>1. /\ bot' = bot /\ to' = to /\ gui = "read" /\ gui' \in {"read", "play"}
          /\ gui' = "read" => UNCHANGED <<match, Mover>>
          /\ Mover \in Bots
      BY <1>9 DEF ReadLine, Mover, IInv, GuiOK
    <2>2. gui' = "read" => Agrees(Mover)'
      <3>1. from[Mover] \in Seq(Lines) /\ from[Mover] # <<>> /\ from'[Mover] = Tail(from[Mover])
        BY <1>9, <2>1 DEF ReadLine, NextLine, IInv, TypeOK
      <3>2. Agrees(Mover) /\ Answering(from'[Mover], match)
        BY <2>1, <3>1, AnswerTaken DEF GameOK, Agrees
      <3> QED
        BY <1>1, <2>1, <3>2 DEF Agrees, Thinking
    <2>3. \A j \in Bots : Lives(j) => Lives(j)'
      BY <1>1, <2>1 DEF Lives
    <2> QED
      BY <1>1, <2>1, <2>2, <2>3 DEF GameOK, Starting, GuiUp
  <1> QED
    BY <1>2, <1>3, <1>4, <1>5, <1>6, <1>7, <1>8, <1>9 DEF GuiStep

\* A step of a bot concerns the game when the GUI asks that bot.
LEMMA BotStepGame ==
  ASSUME IInv, GameOK, NEW i \in Bots, UNCHANGED <<guiVars, gui>>,
         \A j \in Bots : j # i => /\ to'[j] = to[j] /\ from'[j] = from[j]
                                  /\ bot'[j] = bot[j] /\ root'[j] = root[j],
         gui = "go" /\ Loaded(to[i], root[i], match) => Loaded(to'[i], root'[i], match),
         gui = "read" /\ i = Mover /\ Agrees(i) => Agrees(i)',
         GuiUp => bot'[i] \notin {"exited", "none"}
  PROVE  GameOK'
  <1>1. /\ GuiUp' = GuiUp /\ Starting' = Starting /\ Mover' = Mover /\ Count' = Count
        /\ match' = match /\ cur' = cur
    BY DEF GuiUp, Starting, Mover, Count, guiVars
  <1>2. gui \in {"go", "read"} => Mover \in Bots
    BY DEF IInv, GuiOK
  <1>3. gui = "go" => Loaded(to'[Mover], root'[Mover], match)
    BY <1>2 DEF GameOK
  <1>4. gui = "read" => Agrees(Mover)'
    <2> SUFFICES ASSUME gui = "read" PROVE Agrees(Mover)'
      OBVIOUS
    <2>1. Agrees(Mover) /\ Mover \in Bots
      BY <1>2 DEF GameOK
    <2>2. CASE i = Mover
      <3>1. Agrees(i)'
        BY <2>1, <2>2
      <3> QED
        BY <3>1, <2>2, <1>1 DEF Agrees, Thinking
    <2>3. CASE i # Mover
      BY <1>1, <2>1, <2>3 DEF Agrees, Thinking
    <2> QED
      BY <2>2, <2>3
  <1>5. ASSUME NEW j \in Bots, GuiUp PROVE Lives(j)'
    <2>1. Lives(j) /\ bot'[i] \notin {"exited", "none"}
      BY <1>5 DEF GameOK
    <2>2. CASE j = i
      BY <2>1, <2>2 DEF Lives
    <2>3. CASE j # i
      BY <1>1, <2>1, <2>3 DEF Lives
    <2> QED
      BY <2>2, <2>3
  <1> QED
    BY <1>1, <1>3, <1>4, <1>5 DEF GameOK

LEMMA ReadStepGame ==
  ASSUME IInv, GameOK, NEW i \in Bots, HandleUci(i) \/ HandlePosition(i) \/ HandleGo(i)
  PROVE  GameOK'
  <1> DEFINE c == Head(to[i]).cmd
  <1>1. Reads(i, c) /\ UNCHANGED <<guiVars, gui>>
    BY DEF HandleUci, HandlePosition, HandleGo, Reads
  <1>2. /\ to[i] \in Seq(Lines) /\ to[i] # <<>> /\ to'[i] = Tail(to[i]) /\ bot[i] = "idle"
        /\ \A j \in Bots : j # i => to'[j] = to[j]
    BY <1>1, CommandRead
  <1>3. (Held(i) \/ ~GuiUp) /\ match' = match
    BY <1>1 DEF Held, guiVars
  <1>4. /\ c = "position" => root'[i] = Head(to[i]).at
        /\ \A j \in Bots : j # i => root'[j] = root[j]
    BY DEF HandleUci, HandlePosition, HandleGo, Reads, botVars, IInv, TypeOK
  <1>5. /\ \A j \in Bots : j # i => from'[j] = from[j] /\ bot'[j] = bot[j]
        /\ bot'[i] \in {"idle", "greeting", "thinking", "mute", "dead"}
        /\ bot'[i] \in {"thinking", "mute"} => c = "go" /\ root'[i] = root[i]
        /\ Answering(from[i], match) => Answering(from'[i], match)
    <2>1. CASE HandleUci(i)
      <3>1. Command("id") \in Lines /\ Command("id").cmd = "id"
        BY CommandIs
      <3>2. /\ \A j \in Bots : j # i => from'[j] = from[j] /\ bot'[j] = bot[j]
            /\ \/ Held(i) /\ from'[i] = Append(from[i], Command("id")) /\ bot'[i] = "greeting"
               \/ ~Held(i) /\ from'[i] = from[i] /\ bot'[i] = "dead"
        BY <2>1, <3>1, LinePrinted DEF HandleUci, IInv
      <3>3. from[i] \in Seq(Lines)
        BY DEF IInv, TypeOK
      <3>4. Answering(from[i], match) => Answering(Append(from[i], Command("id")), match)
        BY <3>1, <3>3, AnswerAdded
      <3> QED
        BY <1>3, <3>2, <3>4
    <2>2. CASE HandlePosition(i)
      BY <2>2, <1>2 DEF HandlePosition
    <2>3. CASE HandleGo(i)
      BY <2>3 DEF HandleGo, Reads, IInv, TypeOK
    <2> QED
      BY <2>1, <2>2, <2>3
  <1>6. /\ Loaded(to[i], root[i], match) => Loaded(to'[i], root'[i], match)
        /\ GoesFor(to[i], root[i], match) => GoesFor(to'[i], root'[i], match)
        /\ GoesFor(to[i], root[i], match) /\ c = "go" => root[i] = match
    <2> DEFINE s == to[i]
               r == root[i]
               q == root'[i]
    <2>1. s \in Seq(Lines) /\ s # <<>> /\ (Head(s).cmd = "position" => q = Head(s).at)
      BY <1>2, <1>4
    <2>2. to'[i] = Tail(s) /\ c = Head(s).cmd
      BY <1>2
    <2> HIDE DEF s, r, q, c
    <2>3. /\ Loaded(s, r, match) => Loaded(Tail(s), q, match)
          /\ GoesFor(s, r, match) => GoesFor(Tail(s), q, match)
          /\ GoesFor(s, r, match) /\ Head(s).cmd = "go" => r = match
      BY <2>1, FirstLineRead
    <2> QED
      BY <2>2, <2>3 DEF s, r, q
  <1>7. Agrees(i) => Agrees(i)'
    BY <1>3, <1>5, <1>6 DEF Agrees, Thinking
  <1>8. bot'[i] \notin {"exited", "none"}
    BY <1>5
  <1> QED
    BY <1>1, <1>2, <1>3, <1>4, <1>5, <1>6, <1>7, <1>8, BotStepGame

LEMMA PrintStepGame ==
  ASSUME IInv, GameOK, NEW i \in Bots, PrintUciOk(i) \/ PrintInfo(i) \/ PrintBestMove(i)
  PROVE  GameOK'
  <1>1. PICK l \in Lines, next \in {"idle", "greeting", "reporting"} :
          /\ Prints(i, l, next)
          /\ next = "reporting" => Thinking(i)
          /\ l.cmd = "bestmove" => Thinking(i) /\ (root[i] \in Positions => l.at \in Succ[root[i]])
    <2>1. CASE PrintUciOk(i)
      <3>1. Command("uciok") \in Lines /\ Command("uciok").cmd = "uciok"
        BY CommandIs
      <3> QED
        BY <2>1, <3>1 DEF PrintUciOk
    <2>2. CASE PrintInfo(i)
      <3>1. Command("info") \in Lines /\ Command("info").cmd = "info"
        BY CommandIs
      <3> QED
        BY <2>2, <3>1 DEF PrintInfo, Thinking
    <2>3. CASE PrintBestMove(i)
      <3>1. PICK m \in IF root[i] \in Positions THEN Succ[root[i]] ELSE Positions :
              Prints(i, [cmd |-> "bestmove", at |-> m], "idle")
        BY <2>3 DEF PrintBestMove
      <3>2. m \in Positions /\ [cmd |-> "bestmove", at |-> m] \in Lines
        BY GameAssumption DEF Lines
      <3> QED
        BY <2>3, <3>1, <3>2 DEF PrintBestMove, Thinking
    <2> QED
      BY <2>1, <2>2, <2>3
  <1>2. UNCHANGED <<guiVars, gui, to, root>>
    BY DEF PrintUciOk, PrintInfo, PrintBestMove, botVars
  <1>3. (Held(i) \/ ~GuiUp) /\ match' = match
    BY <1>2 DEF Held, guiVars
  <1>4. /\ \A j \in Bots : j # i => from'[j] = from[j] /\ bot'[j] = bot[j]
        /\ \/ Held(i) /\ from'[i] = Append(from[i], l) /\ bot'[i] = next
           \/ ~Held(i) /\ from'[i] = from[i] /\ bot'[i] = "dead"
    BY <1>1, LinePrinted DEF IInv
  <1>5. ASSUME Agrees(i) PROVE Agrees(i)'
    <2>1. Thinking(i) => root[i] = match /\ match \in Positions
      BY <1>5 DEF Agrees, IInv, TypeOK
    <2>2. from[i] \in Seq(Lines) /\ Answering(from[i], match)
      BY <1>5 DEF Agrees, IInv, TypeOK
    <2>3. Answering(from'[i], match)
      BY <1>1, <1>4, <2>1, <2>2, AnswerAdded
    <2>4. Thinking(i)' => Thinking(i)
      BY <1>1, <1>4 DEF Thinking
    <2> QED
      BY <1>2, <1>3, <1>5, <2>1, <2>3, <2>4 DEF Agrees
  <1>6. bot'[i] \notin {"exited", "none"}
    BY <1>4
  <1> QED
    BY <1>2, <1>3, <1>4, <1>5, <1>6, BotStepGame

LEMMA EndStepGame ==
  ASSUME IInv, GameOK, NEW i \in Bots, EndOfInput(i) \/ Crash(i) PROVE GameOK'
  <1>1. UNCHANGED <<guiVars, gui, to, from, root>>
    BY DEF EndOfInput, Crash, botVars
  <1>2. \A j \in Bots : j # i => bot'[j] = bot[j]
    BY DEF EndOfInput, Crash, IInv, TypeOK
  <1>3. bot'[i] \in {"dead", "exited"}
    BY DEF EndOfInput, Crash, IInv, TypeOK
  <1>4. ~GuiUp \/ bot'[i] = "dead"
    <2>1. CASE EndOfInput(i)
      BY <2>1 DEF EndOfInput, Held
    <2>2. CASE Crash(i)
      BY <2>2 DEF Crash, IInv, TypeOK
    <2> QED
      BY <2>1, <2>2
  <1>5. Agrees(i) => Agrees(i)'
    BY <1>1, <1>3 DEF Agrees, Thinking, guiVars
  <1> QED
    BY <1>1, <1>2, <1>4, <1>5, BotStepGame DEF guiVars

LEMMA StepKeepsGame == IInv /\ IInv' /\ GameOK /\ [Next]_vars => GameOK'
  <1> SUFFICES ASSUME IInv, IInv', GameOK, [Next]_vars PROVE GameOK'
    OBVIOUS
  <1>1. CASE GuiStep \/ PlayerMoves
    BY <1>1, GuiStepGame
  <1>2. ASSUME NEW i \in Bots, BotStep(i) \/ Crash(i) PROVE GameOK'
    BY <1>2, ReadStepGame, PrintStepGame, EndStepGame DEF BotStep
  <1>3. CASE UNCHANGED vars
    <2>1. UNCHANGED <<program, cur, match, seat, games, gui, to, from, bot, root>>
      BY <1>3 DEF vars, botVars, guiVars
    <2>2. GuiUp' = GuiUp /\ Starting' = Starting /\ Mover' = Mover /\ Count' = Count
      BY <2>1 DEF GuiUp, Starting, Mover, Count
    <2>3. /\ Agrees(Mover)' <=> Agrees(Mover)
          /\ \A j \in Bots : Lives(j)' <=> Lives(j)
      BY <2>1, <2>2 DEF Agrees, Lives, Thinking
    <2> QED
      BY <2>1, <2>2, <2>3 DEF GameOK
  <1> QED
    BY <1>1, <1>2, <1>3 DEF Next

\* As long as every bot lives, the program makes only moves that are legal in its
\* position (uci_read_bestmove and make_move in botvbot, testbot and chess), and a new game
\* begins only when there is no legal move: the last position sent is the one searched.
THEOREM GamesAreLegal == Spec => LegalPlay
  <1>1. IInv /\ GameOK /\ [Next]_vars =>
          [match' # match /\ (\A i \in Bots : bot[i] # "dead") =>
             match' \in Succ[match] \/ (match' = Start /\ Succ[match] = {})]_vars
    <2> SUFFICES ASSUME IInv, GameOK, Next, match' # match, \A i \in Bots : bot[i] # "dead"
                 PROVE  match' \in Succ[match] \/ (match' = Start /\ Succ[match] = {})
      OBVIOUS
    <2>1. CASE SendNewGame
      BY <2>1 DEF SendNewGame, GameOK
    <2>2. CASE PlayerMoves
      BY <2>2 DEF PlayerMoves
    <2>3. CASE ReadLine
      <3>1. gui = "read" /\ Mover \in Bots /\ NextLine(Mover) /\ Agrees(Mover)
        BY <2>3 DEF ReadLine, GameOK, IInv, GuiOK
      <3>2. from[Mover] \in Seq(Lines) /\ from[Mover] # <<>>
        BY <3>1 DEF NextLine, IInv, TypeOK
      <3>3. Head(from[Mover]).cmd = "bestmove" => Head(from[Mover]).at \in Succ[match]
        BY <3>1, <3>2, AnswerTaken DEF Agrees
      <3> QED
        BY <2>3, <3>3 DEF ReadLine
    <2>4. CASE ReadEnd
      <3>1. gui = "read" /\ ~Alive(Mover) /\ Mover \in Bots /\ Mover <= Count
        BY <2>4, MoverExists DEF ReadEnd, IInv, GuiOK
      <3>2. Lives(Mover)
        BY <3>1 DEF GameOK, GuiUp
      <3>3. bot[Mover] \in {"idle", "greeting", "thinking", "reporting", "mute"}
        BY <3>1, <3>2 DEF Lives, IInv, TypeOK
      <3> QED
        BY <3>1, <3>3 DEF Alive
    <2>5. CASE ~(SendNewGame \/ PlayerMoves \/ ReadLine \/ ReadEnd)
      BY <2>5 DEF Next, GuiStep, BotStep, Fork, SendUci, Shake, SendUciAgain, GameOver,
         SendPosition, SendGo, HandleUci, PrintUciOk, HandlePosition, HandleGo, PrintInfo,
         PrintBestMove, EndOfInput, Crash, guiVars
    <2> QED
      BY <2>1, <2>2, <2>3, <2>4, <2>5
  <1> QED
    BY <1>1, InitGame, StepKeepsGame, InvariantHolds, PTL DEF Spec, LegalPlay

=============================================================================
