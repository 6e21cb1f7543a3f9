----------------------------- MODULE UciSession -----------------------------
(***************************************************************************)
(* The programs that play with the bot over pipes: chess-gui/src/uci-api.c *)
(* as botvbot, testbot and chess use it (src/tests).  botvbot plays two    *)
(* bots against each other for a number of matches, testbot has one bot    *)
(* play both sides for ever, chess lets a person begin against one bot.    *)
(*                                                                         *)
(* A bot is a process that does what UciEngine promises (Bot shows that    *)
(* the code does), seen line by line: what it reads from stdin and prints. *)
(* It may crash at any moment, and it answers no go for which no thread    *)
(* can be created: no program sends stop, so each search leaves a thread   *)
(* behind that nobody joins (run leak of Bot).  Each pipe is a queue of lines.  A process  *)
(* keeps the ends of the pipes it inherits from fork(): a bot holds the    *)
(* GUI's ends of the pipes of every bot created before it.                 *)
(*                                                                         *)
(* A position is a node of the game's graph and a move is the position it  *)
(* leads to.                                                               *)
(***************************************************************************)
EXTENDS Integers, Sequences

CONSTANTS
  Programs,    \* those of "botvbot", "testbot" and "chess" that are run
  Positions,   \* the positions of a game
  NoPosition,  \* no position loaded, or no move read
  Start,       \* load_start_position
  Succ,        \* the legal moves of a position
  Matches,     \* botvbot's nmatches, an even number
  Threads,     \* how many threads a bot's process can create and not join (Bot's Tids)
  MaxCrashes   \* bound: how many bots crash

ASSUME GameAssumption ==
  /\ Start \in Positions /\ NoPosition \notin Positions
  /\ Succ \in [Positions -> SUBSET Positions]

ASSUME ProgramAssumption ==
  /\ Programs \subseteq {"botvbot", "testbot", "chess"}
  /\ Matches \in Nat \ {0} /\ Threads \in Nat /\ MaxCrashes \in Nat

Bots == {1, 2}

VARIABLES
  program,  \* which program runs
  gui,      \* where it is
  cur,      \* the bot it creates, or how many bots know of the new game
  match,    \* its position
  seat,     \* 0 when the side that began is to move
  games,    \* the matches that are over, not counted in testbot
  to,       \* the lines in the pipe to each bot
  from,     \* the lines in the pipe from each bot
  bot,      \* what each bot does
  searches, \* how many searches each bot was asked for, a thread each
  root,     \* the root position of each bot
  answer,   \* history: the position each bot's last bestmove is for
  crashes   \* how many bots have crashed

guiVars == <<program, cur, match, seat, games>>
botVars == <<searches, root, answer, crashes>>
vars == <<guiVars, gui, to, from, bot, botVars>>

Count == IF program = "botvbot" THEN 2 ELSE 1

\* The bot that is to move, 0 for the person: in botvbot the bots change sides
\* from one match to the next.
Mover == CASE program = "botvbot" -> 1 + ((games + seat) % 2)
           [] program = "testbot" -> 1
           [] program = "chess"   -> seat

GuiUp == gui \notin {"exited", "killed"}
\* A mute bot could not create the thread of a search: it reads on and never answers.
Alive(i) == bot[i] \in {"idle", "greeting", "thinking", "reporting", "mute"}

\* Who holds an end of the pipes of bot i besides the bot itself.
Held(i) == GuiUp \/ \E j \in Bots : j > i /\ Alive(j)

-----------------------------------------------------------------------------
(* The program, through chess-gui/src/uci-api.c.                            *)

\* uci_send: a line into the pipe; with nobody left to read it, SIGPIPE ends the GUI.
Send(i, line, next) ==
  \/ /\ Alive(i)
     /\ to' = [to EXCEPT ![i] = Append(@, line)]
     /\ gui' = next
  \/ /\ ~Alive(i)
     /\ gui' = "killed"
     /\ UNCHANGED to

Command(c) == [cmd |-> c, at |-> NoPosition]

\* create_bot: pipe, fork, execvp, fdopen.
Fork ==
  /\ gui = "fork" /\ gui' = "hello"
  /\ bot' = [bot EXCEPT ![cur] = "idle"]
  /\ UNCHANGED <<guiVars, to, from, botVars>>

SendUci ==
  /\ gui = "hello" /\ Send(cur, Command("uci"), "shake")
  /\ UNCHANGED <<guiVars, from, bot, botVars>>

NextLine(i) ==
  /\ from[i] # <<>>
  /\ from' = [from EXCEPT ![i] = Tail(@)]

\* create_bot reads up to uciok.  At the end of a pipe it would read the same
\* buffer for ever.
Shake ==
  /\ gui = "shake" /\ NextLine(cur)
  /\ \/ Head(from[cur]).cmd # "uciok" /\ UNCHANGED <<gui, cur>>
     \/ /\ Head(from[cur]).cmd = "uciok" /\ cur < Count
        /\ gui' = "fork" /\ cur' = cur + 1
     \/ /\ Head(from[cur]).cmd = "uciok" /\ cur = Count
        /\ gui' = (IF program = "botvbot" THEN "new" ELSE "again") /\ cur' = 0
  /\ UNCHANGED <<program, match, seat, games, to, bot, botVars>>

\* testbot and chess send uci once more and do not wait for the answer.
SendUciAgain ==
  /\ gui = "again" /\ Send(1, Command("uci"), "new")
  /\ UNCHANGED <<guiVars, from, bot, botVars>>

\* ucinewgame to each bot, white first; then the start position.
SendNewGame ==
  /\ gui = "new"
  /\ Send(IF program = "botvbot" THEN 1 + ((games + cur) % 2) ELSE 1,
          Command("ucinewgame"), IF cur + 1 < Count THEN "new" ELSE "play")
  /\ cur' = (cur + 1) % Count
  /\ match' = Start /\ seat' = 0
  /\ UNCHANGED <<program, games, from, bot, botVars>>

\* Mutant: one match too many.
GameOverOneMore ==
  /\ gui = "play" /\ Succ[match] = {}
  /\ games' = IF program = "testbot" THEN games ELSE games + 1
  /\ gui' = IF program = "testbot" \/ (program = "botvbot" /\ games' <= Matches)
            THEN "new" ELSE "exited"
  /\ UNCHANGED <<program, cur, match, seat, to, from, bot, botVars>>

\* is_gameover.
GameOver ==
  /\ gui = "play" /\ Succ[match] = {}
  /\ games' = IF program = "testbot" THEN games ELSE games + 1
  /\ gui' = IF program = "testbot" \/ (program = "botvbot" /\ games' < Matches)
            THEN "new" ELSE "exited"
  /\ UNCHANGED <<program, cur, match, seat, to, from, bot, botVars>>

\* player_move: a move, or the end of the person's input.
PlayerMoves ==
  /\ gui = "play" /\ Mover = 0
  /\ \/ match' \in Succ[match] /\ seat' = 1 - seat /\ UNCHANGED gui
     \/ gui' = "exited" /\ UNCHANGED <<match, seat>>
  /\ UNCHANGED <<program, cur, games, to, from, bot, botVars>>

SendPosition ==
  /\ gui = "play" /\ Mover # 0 /\ Succ[match] # {}
  /\ Send(Mover, [cmd |-> "position", at |-> match], "go")
  /\ UNCHANGED <<guiVars, from, bot, botVars>>

\* Mutant: the other bot is told to go.
SendGoToOther ==
  /\ gui = "go"
  /\ Send(IF program = "botvbot" THEN 3 - Mover ELSE Mover, Command("go"), "read")
  /\ UNCHANGED <<guiVars, from, bot, botVars>>

SendGo ==
  /\ gui = "go" /\ Send(Mover, Command("go"), "read")
  /\ UNCHANGED <<guiVars, from, bot, botVars>>

\* Mutant: whatever is read counts as the answer.
ReadAny ==
  /\ gui = "read" /\ NextLine(Mover)
  /\ gui' = "play" /\ seat' = 1 - seat
  /\ \/ Head(from[Mover]).at \in Succ[match] /\ match' = Head(from[Mover]).at
     \/ Head(from[Mover]).at \notin Succ[match] /\ match' \in Positions
  /\ UNCHANGED <<program, cur, games, to, bot, botVars>>

\* uci_read_bestmove skips the other lines; make_move.  A move it cannot read leaves
\* bestmove uninitialised.
ReadLine ==
  /\ gui = "read" /\ NextLine(Mover)
  /\ LET line == Head(from[Mover]) IN
       \/ line.cmd # "bestmove" /\ UNCHANGED <<gui, match, seat>>
       \/ /\ line.cmd = "bestmove"
          /\ gui' = "play" /\ seat' = 1 - seat
          /\ IF line.at \in Succ[match] THEN match' = line.at ELSE match' \in Positions
  /\ UNCHANGED <<program, cur, games, to, bot, botVars>>

\* The end of the pipe: uci_read_bestmove returns 0 and bestmove is uninitialised.
\* make_move makes whatever it holds, if it survives that.
ReadEnd ==
  /\ gui = "read" /\ from[Mover] = <<>> /\ ~Alive(Mover)
  /\ \/ gui' = "play" /\ seat' = 1 - seat /\ match' \in Positions
     \/ gui' = "killed" /\ UNCHANGED <<match, seat>>
  /\ UNCHANGED <<program, cur, games, to, from, bot, botVars>>

-----------------------------------------------------------------------------
(* The bots.                                                                *)

\* A line is printed and flushed; with nobody left to read it, SIGPIPE.
Prints(i, line, next) ==
  \/ /\ Held(i)
     /\ from' = [from EXCEPT ![i] = Append(@, line)]
     /\ bot' = [bot EXCEPT ![i] = next]
  \/ /\ ~Held(i)
     /\ bot' = [bot EXCEPT ![i] = "dead"]
     /\ UNCHANGED from

\* fetch_command: while a worker thinks the UCI thread goes on reading.
Reads(i, c) ==
  /\ bot[i] \in {"idle", "thinking", "reporting", "mute"}
  /\ to[i] # <<>> /\ Head(to[i]).cmd = c
  /\ to' = [to EXCEPT ![i] = Tail(@)]

\* uci_handler: bot_init forgets the position; the lines up to uciok.
HandleUci(i) ==
  /\ Reads(i, "uci") /\ Prints(i, Command("id"), "greeting")
  /\ root' = [root EXCEPT ![i] = NoPosition]
  /\ UNCHANGED <<guiVars, gui, searches, answer, crashes>>

PrintUciOk(i) ==
  /\ bot[i] = "greeting" /\ Prints(i, Command("uciok"), "idle")
  /\ UNCHANGED <<guiVars, gui, to, botVars>>

\* Mutant: the moves of the position command are not made.
HandlePositionStart(i) ==
  /\ Reads(i, "position") \/ Reads(i, "ucinewgame")
  /\ root' = [root EXCEPT ![i] = Start]
  /\ UNCHANGED <<guiVars, gui, from, bot, searches, answer, crashes>>

HandlePosition(i) ==
  /\ \/ Reads(i, "position") /\ root' = [root EXCEPT ![i] = Head(to[i]).at]
     \/ Reads(i, "ucinewgame") /\ root' = [root EXCEPT ![i] = Start]
  /\ UNCHANGED <<guiVars, gui, from, bot, searches, answer, crashes>>

\* go_handler: bot_start.  Without a thread bot_stop joins the handle of an earlier
\* search, or none, which the process may not survive; go_handler ignores the -1.
HandleGo(i) ==
  /\ Reads(i, "go")
  /\ searches' = [searches EXCEPT ![i] = @ + 1]
  /\ \/ searches[i] < Threads /\ bot' = [bot EXCEPT ![i] = "thinking"]
     \/ /\ searches[i] >= Threads
        /\ \E next \in {"mute", "dead"} : bot' = [bot EXCEPT ![i] = next]
  /\ UNCHANGED <<guiVars, gui, from, root, answer, crashes>>

\* bot_on_stop: log_info, then bestmove.
PrintInfo(i) ==
  /\ bot[i] = "thinking" /\ Prints(i, Command("info"), "reporting")
  /\ UNCHANGED <<guiVars, gui, to, botVars>>

PrintBestMove(i) ==
  /\ bot[i] = "reporting"
  /\ \E m \in IF root[i] \in Positions THEN Succ[root[i]] ELSE Positions :
       Prints(i, [cmd |-> "bestmove", at |-> m], "idle")
  /\ answer' = IF Held(i) THEN [answer EXCEPT ![i] = root[i]] ELSE answer
  /\ UNCHANGED <<guiVars, gui, to, searches, root, crashes>>

\* Mutant: the bot waits for quit, and does not look for the end of its input.
NoEndOfInput(i) == FALSE /\ UNCHANGED vars

\* fetch_command at the end of stdin: quit_handler.  A worker still prints its
\* bestmove, into a pipe that nobody reads; after a failed bot_start bot_wait joins the
\* same handle once more.
EndOfInput(i) ==
  /\ bot[i] \in {"idle", "thinking", "reporting", "mute"} /\ to[i] = <<>> /\ ~Held(i)
  /\ \E end \in {"exited", "dead"} :
       /\ bot[i] = "idle" => end = "exited"
       /\ bot[i] \in {"thinking", "reporting"} => end = "dead"
       /\ bot' = [bot EXCEPT ![i] = end]
  /\ UNCHANGED <<guiVars, gui, to, from, botVars>>

Crash(i) ==
  /\ Alive(i) /\ crashes < MaxCrashes
  /\ bot' = [bot EXCEPT ![i] = "dead"]
  /\ crashes' = crashes + 1
  /\ UNCHANGED <<guiVars, gui, to, from, searches, root, answer>>

-----------------------------------------------------------------------------
Init ==
  /\ program \in Programs
  /\ gui = "fork" /\ cur = 1
  /\ match = Start /\ seat = 0 /\ games = 0
  /\ to = [i \in Bots |-> <<>>] /\ from = [i \in Bots |-> <<>>]
  /\ bot = [i \in Bots |-> "none"]
  /\ searches = [i \in Bots |-> 0]
  /\ root = [i \in Bots |-> NoPosition] /\ answer = [i \in Bots |-> NoPosition]
  /\ crashes = 0

GuiStep ==
  \/ Fork \/ SendUci \/ Shake \/ SendUciAgain \/ SendNewGame
  \/ GameOver \/ SendPosition \/ SendGo \/ ReadLine \/ ReadEnd

BotStep(i) ==
  \/ HandleUci(i) \/ PrintUciOk(i) \/ HandlePosition(i) \/ HandleGo(i)
  \/ PrintInfo(i) \/ PrintBestMove(i) \/ EndOfInput(i)

Next == GuiStep \/ PlayerMoves \/ \E i \in Bots : BotStep(i) \/ Crash(i)

Spec == Init /\ [][Next]_vars

\* Every process is scheduled, and a bot that thinks, with a movetime, answers: in Bot
\* LimitedGoAnswered, which holds while there are threads (run engine) and fails when
\* there are none (run leak, here mute).  The person need not move, nothing has to crash.
FairSpec == Spec /\ WF_vars(GuiStep) /\ \A i \in Bots : WF_vars(BotStep(i))

-----------------------------------------------------------------------------
(* Properties.                                                              *)

Lines == [cmd : {"uci", "ucinewgame", "position", "go", "id", "uciok", "info", "bestmove"},
          at : Positions \union {NoPosition}]

TypeOK ==
  /\ program \in Programs
  /\ gui \in {"fork", "hello", "shake", "again", "new", "play", "go", "read", "exited", "killed"}
  /\ cur \in 0 .. 2
  /\ match \in Positions
  /\ seat \in {0, 1}
  /\ games \in 0 .. Matches
  /\ to \in [Bots -> Seq(Lines)] /\ from \in [Bots -> Seq(Lines)]
  /\ bot \in [Bots -> {"none", "idle", "greeting", "thinking", "reporting", "mute",
                       "dead", "exited"}]
  /\ searches \in [Bots -> Nat]
  /\ root \in [Bots -> Positions \union {NoPosition}]
  /\ answer \in [Bots -> Positions \union {NoPosition}]
  /\ crashes \in 0 .. MaxCrashes

Answers(i) == {k \in DOMAIN from[i] : from[i][k].cmd = "bestmove"}
Asked(i) ==
  \/ bot[i] \in {"thinking", "reporting"}
  \/ Alive(i) /\ \E k \in DOMAIN to[i] : to[i][k].cmd = "go"

\* A bestmove is under way only from the bot the GUI waits for, and is the last line it
\* will get from it, whatever a second uci has left in the pipe: no game begins with
\* an answer of the last one.
NoStrayAnswer ==
  \A i \in Bots : GuiUp /\ (Asked(i) \/ Answers(i) # {}) =>
    /\ gui = "read" /\ i = Mover
    /\ Asked(i) => Answers(i) = {}
    /\ \A k \in Answers(i) : k = Len(from[i])

\* A bot that lives and was asked for more searches than it has threads.
OutOfThreads(i) == Alive(i) /\ searches[i] > Threads

\* The program waits for a line that nothing will print in one case only, a bot that has
\* no thread left to search with.  Otherwise the bot it reads from is gone, or the line is
\* in the pipe, or it is being printed, or the command it answers is still to be read.
WaitsForALine ==
  /\ gui = "read" =>
       ~Alive(Mover) \/ Asked(Mover) \/ Answers(Mover) # {} \/ OutOfThreads(Mover)
  /\ gui = "shake" =>
       \/ ~Alive(cur) \/ bot[cur] = "greeting"
       \/ \E k \in DOMAIN to[cur] : to[cur][k].cmd = "uci"
       \/ \E k \in DOMAIN from[cur] : from[cur][k].cmd = "uciok"

\* As long as every bot lives the two sides agree: the program plays only moves that
\* are legal in its position, and begins a new game only when the last one is over.
LegalPlay ==
  [][match' # match /\ (\A i \in Bots : bot[i] # "dead") =>
       match' \in Succ[match] \/ (match' = Start /\ Succ[match] = {})]_vars

\* Each bot is used the way UciEngine wants it: a position only when it is idle, a go only
\* with a position; whatever the program, and whether or not another bot has crashed.
Phase(i) == CASE bot[i] \in {"thinking", "reporting", "mute"} -> "thinking"
              [] bot[i] \in {"dead", "exited"} -> "closed"
              [] OTHER -> "idle"

Engine1 == INSTANCE UciEngine WITH phase <- Phase(1), position <- root[1], answer <- answer[1]
Engine2 == INSTANCE UciEngine WITH phase <- Phase(2), position <- root[2], answer <- answer[2]

BotsWellUsed == Engine1!EngineSpec /\ Engine2!EngineSpec

\* A match that has begun ends, even when a bot crashes in it, or else a bot runs out of
\* threads: the GUI waits for ever for no other answer.  A person may take for ever.
MatchEnds ==
  gui = "play" /\ program # "chess" ~>
    gui = "new" \/ ~GuiUp \/ \E i \in Bots : OutOfThreads(i)

\* When the program is gone, each bot finds the end of its input and exits: a bot cannot
\* before the bots created after it have, since they hold its pipe open.
BotsExit == ~GuiUp ~> \A i \in Bots : ~Alive(i)
=============================================================================
