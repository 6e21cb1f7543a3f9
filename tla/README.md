# A verification of ABBOT, the chess bot

This directory holds TLA+ models of the program under `src/`, configurations
that check them with TLC, and proofs checked by TLAPS. `PROJECT.json` lists the
runs, the theorems, the hazards the properties are for, and for every definition
the lines of source it models.

## 1. The system

ABBOT is a UCI engine: one process that reads commands from stdin and writes
answers to stdout, with a second thread that searches.

| part | source | state | operations |
|---|---|---|---|
| command loop | `src/src/interface.c` | the line buffer, the global `bot` | `main`, `fetch_command`, `handle_command`, a handler per command |
| bot | `src/src/bot.c`, `src/include/bot.h` | `bot_t`: `running`, `abort`, counters, `stop_cond`, root position, workers, table | `bot_init`, `bot_load_fen`, `bot_load_moves`, `bot_start`, `bot_ponder_hit`, `bot_stop`, `bot_wait`, `bot_release` |
| worker | `src/src/worker.c` | `worker_t`: thread handle, position, root moves and scores, killers, butterfly boards | `worker_start`, `stop`, `bot_on_stop` |
| search | `src/src/search.c` | the worker's lists, the table | `rootSearch`, `abSearch`, `qSearch` |
| transposition table | `src/src/transposition_table.c` | `table_t`: pairs of a key word and an entry word | `tt_init`, `tt_get`, `tt_store`, `tt_store_pv`, `tt_store_depth_prefered` |
| move ordering | `src/src/move_order.c` | `move_list_t`, killer moves, butterfly boards | `init_move_list`, `next_move`, `next_capture`, `add_killer_move` |
| exchange evaluation | `src/src/see.c` | local lists of attackers | `static_exchange_evaluation` |
| evaluation | `src/src/eval.c` | none | `eval`, `is_repetition` |
| packing of moves | `src/include/chess.h` | none | `compress_move`, `uncompress_move`, priorities |
| GUI side | `src/chess-gui/src/uci-api.c` | two pipes and a child process for each bot | `create_bot`, `uci_send_*`, `uci_read_*` |
| programs that play | `src/tests/` | position, match number, whose turn it is | `botvbot`, `testbot`, `chess` |
| generators | `src/scripts/` | none | print constant tables |
| chess library | declared in `src/include/chess.h`, not in the repository | `chess_state_t` | move generation, legality, make and unmake |

How they interact. The UCI thread writes `bot_t` and creates the worker thread
(`bot_start`); the worker copies the root position, polls `stop()` between and
inside searches, and when it ends prints `bestmove` and clears `running`
(`bot_on_stop`). `bot_stop` sets `abort` and joins the worker if `running` is
still set. The searches share the table without a lock. The GUI is a third actor:
it reacts to `bestmove`, which is printed *before* `running` is cleared.

What is hard: the order of `bestmove`, `running` and the next command; threads
that are never joined; a search that is aborted at any point and leaves partial
results in lists and in the table; the two words of a table slot; depths and
priorities cut to 8 and 12 bits; lists that are rearranged while they are used; lines that
stay in a pipe, bots that crash, pipes inherited by the wrong process.
The full list is under `hazards` in `PROJECT.json`.

What makes each part correct:

* bot, worker, command loop: one answer to each `go`, for the position asked;
  every limit and every `stop` ends the search; the worker is never used by two
  threads; nothing is freed or joined that should not be.
* root search: the list stays a permutation of the legal moves; the first move is
  the best of those really searched, wherever the search was stopped.
* table: a look-up never returns what was stored for another key; the
  depth-preferred policy keeps the deeper result.
* move ordering: each legal move once, captures and promotions before quiets.
* search: every `make_move` is unmade on every way out; windows are never empty; what
  is returned is a bound for the window, and what is stored in the table is a bound for
  the position.
* exchange evaluation, repetition, evaluation, packing: equal to, or bounded by, a plain
  definition.
* GUI side: an answer is taken for the question asked and not for an earlier one, the two
  sides agree on the position, the program does not wait for ever, and the bots end with it.

## 2. The modules

| module | models | kind |
|---|---|---|
| `UciEngine` | what the GUI relies on: question, thinking, answer, close | abstract |
| `Bot` | interface.c, bot.c, worker.c: the UCI thread, the worker threads, the GUI's discipline, the clock | detailed, implements `UciEngine` |
| `SharedCache` | a lossy cache shared by workers | abstract |
| `SlotTable` | slots that hold one whole entry each, used by one worker | abstract |
| `TransTable` | transposition_table.c, one memory access at a time | detailed, implements `SharedCache`, and `SlotTable` for one worker |
| `Windows` | what a search with a window promises its caller | shared by `RootSearch` and `Search` |
| `RootSearch` | `worker_start`'s loop with `rootSearch` | detailed |
| `MovePicker` | each wanted move once, then the null move | abstract |
| `MoveOrder` | `next_move` and `next_capture`, one iteration of their loops at a time | detailed, implements `MovePicker` |
| `Search` | `abSearch` and `qSearch` call by call, over a table | detailed |
| `UciSession` | uci-api.c as botvbot, testbot and chess use it, with the bots' pipes and crashes | composition: each bot is used as `UciEngine` says |
| `Geometry` | the two numberings of squares, the packing of moves, vector_attack.c | algorithms |
| `Exchange` | see.c, one capture at a time | detailed |
| `Repetition` | `is_repetition` of eval.c, over the moves of a game and its searches | detailed |
| `Evaluation` | the rest of eval.c | algorithms |
| `MC*` | constants of the instances TLC checks; `MCAlgorithms` also joins the four modules above, with their inputs, in one run | |
| `*Proofs` | theorems about the module they extend | |

How they fit together. What one module assumes of another is what that one is shown to
do: `UciSession` lets a bot do what `UciEngine` promises, which `Bot` implements, and in
turn shows that the programs use a bot as `UciEngine` wants, which `Bot` assumes of its GUI.
`Search` has the table as slots of whole entries, as in `SlotTable`, which `TransTable`
implements for the one worker there is, and the moves of a node once each in any order,
which `MoveOrder` implements. `RootSearch` lets
`abSearch` return what `FailSoft` of `Windows` allows, and `AlwaysRootAnswered` proves of
`Search` that this is what the root gets, with the range `-Hi..-Lo` of the position the
move leads to, as long as nothing is `tainted`; a search that met a tainted entry has in
`RootSearch` the range of all scores, `Widest`, of which nothing is known.

Operators whose comment begins with "Mutant:" are plausible bugs. They are not
part of a specification; replacing the definition they stand for by one of them
must break the property `PROJECT.json` pairs it with.

### Bot

The variables are the fields of `bot_t` and `worker_t` that steer the search, a
program counter for each thread (`pc` for workers, `upc` for the UCI thread), the
life of the process, and three history variables (`pending`, `answer`, `hits`).
A command is one action up to the point where it calls `pthread_create` or waits
in `bot_wait`; from there the UCI thread takes steps of its own (`Create`, `Wait`,
`Join`, `Free`, `Exit`). The worker's steps are those of `worker_start`: `Copy`,
`PollStop` and `PollGoOn` (the loop condition), `EnterRootSearch`, `VisitNode`,
`UnwindSearch` and `FinishSearch` (a search seen only through its node counter and
its polls), `Bump`, `Release`, `Report` (info and bestmove) and `ClearRunning`.

Abstractions. A position is a value. `movetime` is a flag and the clock a single
event. Counters saturate at `MaxDepth` and `MaxNodes`. Threads come from a finite
set, and only `pthread_join` gives one back. The GUI is assumed to send `uci`
first, a loadable `position` before `go`, and `position`, `ucinewgame`, `uci` and
`go` only when no answer is outstanding; `stop`, `ponderhit`, `quit` and end of
input come at any time. Two constants choose the sessions: `GuiLingers` says that
the GUI's next command finds the last worker gone (its thread over, though perhaps
not joined), and `ThreadsRunOut` includes sessions in which `pthread_create` fails.

### TransTable

A slot is two words, and a look-up or a store accesses them one at a time in
either order: the items are `volatile` but not atomic, so the order in the code
does not bind another core. A word is the set of values XORed into it and `^` is
the symmetric difference, so `{k, e}` is a key word that matches the entry word
`{e}` for the key `k` only. This leaves out coincidences between 64-bit values,
which the XOR scheme accepts too. The depth of an entry is cut to `Byte`. `bot_init`
starts one worker today; the comments of the header argue for several, and the
model has any number. `TableSpec` maps the words of a
slot to the entry `SlotTable` has there (`Held`): what is being written, from the moment the store
was let in, and otherwise the entry whose two words match.

### RootSearch

`order` and `scores` are `worker_t.moves` and `worker_t.scores`, `i` and `j` the two
loop variables. In each iteration every move has a range of scores, chosen anew at will
from `Ranges`, which contains the range of all scores (`Widest`) for a move whose search meets an
entry that a cut-short search or a negative depth has left; `abSearch` may return what a fail-soft search with a score in that range can
return for its window, and anything once `abort` is set. Two searches of the same move
may answer differently inside its range, as they do when the table has learnt
something in between. `BestOfSearched` says that no searched move is known to be better
than the first; where the ranges are single scores the first is the best. The root is assumed
to have a legal move.

### MoveOrder

`pseudo` is the order in which the library generates moves and `legal` what
`is_legal` accepts, both arbitrary; `is_pseudo_legal` is taken to accept exactly
the moves that are generated. Each action is one case of the switch or the test at
the end of the do loop. A capture's priority is computed from the difference of the
piece values and cut to 12 bits as in the code. The history quotients are inputs.

Things the code does that the model keeps although they look unintended: the
first two quiet moves get the killer priority because moves are compared with the
list itself and not with `killer_moves` (move_order.c:142), and `next_move`
computes a priority for promotions but does not store it (move_order.c:110-112),
so they come after all captures.

### Search

The C stack is `frame[0 .. top]`, a record of the locals of each call: the function, where
it is, node, depth, the argument alpha (`low`), `alpha`, `beta`, `best`, the moves still to
come (`left`) and the move under search (`child`). `frame[0]` is `rootSearch` reduced to the
searches it asks for. Each action is the code from one call or return to the next:
`EnterQuiet`, `ReturnDraw`, `ReturnEntry` and `ReturnNoMove` are the early returns,
`FirstMove`, `NextMove`, `FirstReturns`, `NullReturnsInside`, `NullReturns`, `FullReturns` and
`LoopEnds` the first move, the null windows, the second search and the end of the loop; the
actions of `qSearch` likewise. `worker->position` is a variable of its own (`line`, `made`)
that only `MakeMove` and `UnmakeMove` change, so that it stays in step with the stack only
if the code makes it so. `Abort` raises the stop flag anywhere, and as in the code it is
looked at in the loops only: a call entered after it still searches its first move.

A game is any finite graph of positions, and equal positions have equal keys. Draws are
a property of the position and of the routine that asks: `abSearch` puts `is_repetition` and two
other questions (`Drawn`), `qSearch` the library's `is_draw` (`DrawnQuiet`), and the two need not agree.
That a draw by repetition depends on the line that leads to it is left out; the scores the code
stores for positions above such a draw are therefore outside this model. What a score may be is given by `Lo` and `Hi`, for each position and depth
a range about which only the assumption `ValuationAssumption` is made: it follows from the
ranges of the moves one ply deeper, and a deeper search stays inside it. Ranges and not
values, since a table hit at a greater depth than asked may return a different score.

The history variable `tainted` becomes true when the result of a search that was cut short,
or one of a negative depth, is stored or returned. Both happen in the program: `abSearch`
stores the best score it has when `stop()` ends its loop, as an upper bound of the full
depth (search.c:147), and the first iteration has depth 0, so that a check below it stores
depth -1, read back as 255. From then on, and for the rest of the game, since the table is
not emptied between two `go`, nothing is claimed about scores.

### UciSession

`gui` is the place of the program (fork, handshake, `ucinewgame`, the loop of the game),
`to` and `from` are the pipes as sequences of lines, `bot` the phase of each bot. The three
programs differ in the number of bots, in whose turn it is, in the second `uci` of `testbot`
and `chess`, whose answer nobody waits for, and in how they end. `ReadLine` skips the lines
that are not a `bestmove`; `ReadEnd` is the end of the pipe, where `bestmove` is
uninitialised and anything may be played or the program dies of it. A bot may crash at any
moment (`Crash`). Every program gives a movetime, so every search ends by itself and is never
joined: it costs the bot's process one of `Threads` (`searches`). Without a thread `bot_start` fails and
`go_handler` ignores it (the second case of `HandleGo`): `bot_stop` joins the handle of an earlier
search, or of none, of which the process may die, and otherwise the bot is *mute*: it reads on and
never answers. A write to a pipe without a reader ends the writer (SIGPIPE). `Held`
says who keeps a pipe open: `create_bot` does not close the GUI's ends in the child, so a bot
inherits the pipes of the bots before it and these see no end of their input while it lives.

### Exchange

A behaviour is one call of `static_exchange_evaluation`: `Call` computes the lists of attackers
and defenders as `generate_attackers` does, with rays, pieces behind pieces and the piece
that moved; `FriendTook` and `EnemyTook` are the two halves of the loop's body, each from one
capture to the next with its returns and breaks. The reference says which pieces can reach the
target, and that an exchange is worth at most what it captures first and at least that
without the piece that moved. `ExchangeAssumption` says which calls there are: captures by a piece
that attacks its target, on a board with one king a side.

### Repetition

`zobrists` and `ply_of_last_irreversible_move` are the position's fields and what `ply_stack`
saved of them. `Move` and `Unmake` stand for the library's `make_move` and `unmake_move`, called by
the game and by the search, and `Start` is the line of `worker_start` that sets `root_ply`. Of
chess there is only what binds a history: turns alternate, a player's own pieces are
never where they were before their last move, and what an irreversible move changes does not
come back (`Progress`). The reference looks at the whole history.

### Geometry, Evaluation

Functions, with the widths of their types; the variables `asked` and `scored` are only the
squares and positions the properties are asked about. `Evaluation` has `eval`, with the square tables as
a constant. Its sums are folds of the community modules over the sets of squares. `EvaluationAssumption`
bounds the tables as eval.h does (-100 to 200, for a king -200 to 200) and says of a position that
each side has one king and no more pieces than its first ones and eight pawns, promoted or not.
`Geometry` compares the tables of `vector_attack.c`, with the cells its loops write beyond
the board, to the increments of moving pieces, and the round trip through `compress_move` and
`uncompress_move` to the identity.

## 3. The runs

| run | instance | shows |
|---|---|---|
| `engine` | 2 threads, 2 positions, depth and nodes to 3, any GUI timing, fairness | every question is being answered, exclusive use of the worker, the depth limit, valid joins, the implementation of `UciEngine`; limited searches and `stop` are answered, the UCI thread reads on |
| `exhaust` | 3 threads, `GuiLingers`, `ThreadsRunOut`, fairness | `stop` waits, nothing is freed in use, the UCI thread reads on although threads run out |
| `stop` | 3 threads, any GUI timing | violation: `stop` can return while the search goes on |
| `leak` | 3 threads, `ThreadsRunOut`, fairness | violation: the go after the last thread is never answered |
| `table_shared` | 2 workers, 2 keys in 1 slot, all stores | implementation of `SharedCache`, the depth policy |
| `table_single` | 1 worker, 3 keys in 2 slots, depths 0, 1, 3 in a byte of 4 values | settled slots are readable, deeper entries stay, implementation of `SlotTable` |
| `table_signed` | depths -1 and 1 | violation: a negative depth blocks the slot |
| `root` | 3 moves, scores -2..2, exact, open by one or unknown, abort anywhere | the list, its order, the first move |
| `order` | a capture, a promotion, 3 quiet moves, every order, legality and hash move, both routines | implementation of `MovePicker`, noisy moves first, the loops end |
| `search` | games of 9 positions with 6 choices of scores and of draws, 3 slots, iterations to 3, 4 plies, 2 root searches, a new go or a stop anywhere | types, every make unmade, windows open, returned and stored scores sound |
| `session` | 3 programs, a game of one to three plies, 4 matches, 5 threads a bot, 2 crashes, fairness | no answer out of place, no wait for a line that nobody will print and no match without end but from a bot without a thread, legal play, the use of each bot as `UciEngine` says, bots exit |
| `algorithms` | 33,000 exchanges step by step, games of nine plies with searches, armies, squares | exchange lists but for pawns, exchange bounds, symmetric evaluation, repetitions, increments, packed moves |

The bounds. Two threads are one that lingers after `bestmove` and one that searches, and a
third is one to come; the proofs hold for any number. Two positions tell an old root from
a new one; depth and node bounds one above the largest limit let every limit be met and
overrun. Two workers and two keys on a slot are the least that can mix words of different
stores; three keys on two slots let keys collide and not collide. Three moves are the least
with a first, a middle and a last place, and five scores hold every pattern of null
windows around the best one. Three quiet moves are one more than the two that pass
for killers. The games of `search` have a transposition, a check that is a capture, a draw
in check, a mate behind a quiet position and slots on which three positions collide; two
root searches let the second find what the first one stored, in the same go or the next.
Four matches let the bots change sides and change back, and two crashes let both bots die. Five
threads are enough for some sessions of botvbot and chess, where each match and the session must then
end, and too few for the longer ones and for testbot, which runs out of any number.
The inputs of `algorithms` are all captures on one square with pieces of every kind before and
behind the capturing ones in 7,020 arrangements, small armies anywhere on part of the board
and the most material a side can have, games of up to nine plies among five positions, or fewer
after each of two irreversible moves, with a search begun anywhere, and every square and move.
Symmetry is used only in runs without liveness, over sets whose members no definition tells
apart.

Every `CHECK_DEADLOCK FALSE` is for a system that may stop: the process exits, the
search or the game is over, or the null move has been returned.

Fairness. `FairSpec` of `Bot`: weak fairness of the UCI thread's own steps, of each
worker's steps and of the clock. The operating system schedules runnable threads,
and a search of one iteration is finite, which the bound on `VisitNode` stands
for. No fairness is assumed of the GUI's commands. `FairSpec` of `UciSession`: weak fairness of
the program and of each bot, as processes that are scheduled; that a thinking bot answers is
`LimitedGoAnswered` of the run `engine`, since every program gives a movetime and a bot thinks only once
it has a thread. The `go` that `leak` shows unanswered is the second case of `HandleGo`, and a mute bot
need not do anything. Nothing makes a person move or a
bot crash.

## 4. What the code does otherwise than it says

* `stop`: `bot_on_stop` prints `bestmove` before it clears `running`. If the GUI
  answers at once, `bot_start` sets the flag first and the old worker then clears it
  for the new search. A later `bot_stop` returns without joining, although its
  comment says "Wait for each thread to finish" (bot.c:105), and `bot_release`
  then frees the worker and the table under a running search.
* `leak`: a search that ends by its limit clears `running`, so nobody joins it. When
  no thread is left, `pthread_create` fails and the `go` is never answered;
  `src/tests/testbot.c` plays games in an endless loop, and so comes to a match that never ends:
  the one exception `MatchEnds` and `WaitsForALine` make (`OutOfThreads`).
* `table_signed`: a negative depth is stored as one of 249 to 255 and from then on
  keeps every result of a real depth out of the slot ("depth prefered policy",
  transposition_table.h:58).

Also seen while modelling, and not the subject of a run:

* `mate_in_ply` is among the "termination conditions" (bot.h:72) and set by `go mate`, but
  worker.c:55 does not read it, nor the clock times of `go`: such a search ends by `stop` only.
* `generate_attackers` tests the same pawn square twice and never the other one, and puts an
  enemy pawn it finds among the attackers (see.c:31-48), although it "finds all direct
  attackers and defenders" (see.c:20). `AttackersExact` therefore leaves pawns out, and
  `ExchangesBounded` holds with whatever the lists contain.
* `static_exchange_evaluation` gives an unsupported capture the full value of what it takes even
  if the target is defended (see.c:179), a capture by a king always `MIN_SCORE`, and its
  test in line 197 never holds.
* `abSearch` never stores an exact score: alpha has been raised with the best score when the
  two are compared (the mutant `KindExact` shows what would depend on it).
* A search cut short is stored as a bound of full depth and a check below the first iteration
  with a depth of 255; see `tainted` above.
* `killer_moves` has 64 rows, taken at the depth and at the ply without a test; the first
  iteration forms a pointer to row -1.
* A hash move is not recognised if its target is on an odd file or its lowest flag is set,
  since `uncompress_move` does not mask the square numbers; `HashMovesExact` says that such a
  move becomes one that is not on the board, never another legal one.
* The first two quiet moves pass for killers (move_order.c:142) and promotions are never given
  their priority (move_order.c:110); see `MoveOrder` above.
* `uci_send` spells `matein` and `quite` (uci-api.c:228, 250); the engine knows `mate` and `quit`.
* `create_bot` reads the same buffer for ever when the bot dies before `uciok` (uci-api.c:97), which
  is why `MatchEnds` begins with a match that has begun; `uci_read_bestmove` returns an
  uninitialised move when it dies later, which is why `LegalPlay` is about sessions in which
  no bot has died.
* With no defender, `next_attacker` copies `pieces[-1]` into the list and leaves a count of -1
  (see.c:155). Nothing comes of it: what is popped is an unused cell, worth 0 and on a1, and the exchange
  ends; the model leaves the empty list empty.
* `vector_attack.c` writes the numbers 247 and -9 of arrays of 240 bytes, for the square 64. What they
  hit is up to the build (padding, with gcc on x86-64) and left out.
* The comments on the layout of an entry have age and depth the wrong way round, and readme.md
  describes a table with chaining and nodes by index that the code no longer has.

## 5. What is proved

| module | theorems |
|---|---|
| `BotProofs` | `TypeCorrect`, `WorkerIsExclusive`, `JoinsAreValid`, `FreeIsSafe`, `StopDoesWait`, `DepthIsLimited`, `AnswersAreOwed`, `BotIsAnEngine` |
| `TransTableProofs` | `TypeCorrect`, `TableIsCache`, `DepthIsPrefered`, `SlotsSettle`, `DeeperEntriesStay`, `TableIsExact` |
| `RootSearchProofs` | `TypeCorrect`, `NoMoveLost`, `PrefixIsSorted`, `FirstMoveIsBest`, `AnswerIsKept` |
| `MoveOrderProofs` | `TypeCorrect`, `MovesGivenOnce`, `CallsEnd`, `NoisyMovesFirst` |
| `SearchProofs` | `TypeCorrect`, `AlwaysBalanced`, `AlwaysWindowsOpen`, `AlwaysReturnSound`, `AlwaysTableSound`, `AlwaysRootAnswered` |
| `UciSessionProofs` | `TypeCorrect`, `NoAnswerStrays`, `BotsAreWellUsed`, `GamesAreLegal`, `NeverWaitsInVain` |
| `ExchangeProofs` | `ListsAreExact`, `ExchangesAreBounded`, `TablesAreExact`, `HashMovesAreExact` |
| `EvaluationProofs` | `RepetitionsAreExact`, `ScoresAreSymmetric` |

They hold for every number of threads (none included, for `UciSession`), positions, workers, keys, slots, moves, scores,
matches and crashes, for every game, board and history, under the named assumptions of the modules.
`JoinsAreValid` and `AnswersAreOwed` need `ThreadsRunOut = FALSE`, `FreeIsSafe` and `StopDoesWait` need
`GuiLingers = TRUE` (the runs `stop`, `leak` and `exhaust` show why), `DepthIsPrefered` and `DeeperEntriesStay` need
depths that fit in a byte (the run `table_signed` shows why), `SlotsSettle` and `TableIsExact` are about one
worker, and the theorems about next_capture rest on
`GainAssumption`: cut to 12 bits, no exchange of the piece values of `chess.h` gives a
capture or a promotion the priority 0 of a quiet move (1536 + captured - capturing and
2048 + captured + promoted are never multiples of 4096). The theorems about scores rest on
`ValuationAssumption`, and on `MaxIter < Byte`: iterations whose depth fits an entry.

The arguments.

*Bot*: a `go` is outstanding exactly while one thread is between
`Create` and `Report` or is about to be created; that gives exclusive use of the
worker, and with it the worker's root position is the bot's, which is the
refinement. `AnswerOwed` also needs that this thread is the one whose handle is in the worker, and
that the UCI thread waits for a search only after it has set `abort` (`OwedByHandle`,
`StopIsSaid`): neither the last worker's late `ClearRunning` nor a `ponderhit` undoes that; an
`abort` is lowered only by a `go`, which no other question precedes. While the GUI lingers, `running` is true whenever a thread is live and its handle
is the worker's, so `bot_wait` joins the right thread.

*TransTable*: every word in
memory, and every word a look-up has read, belongs to a store that has begun; XOR
cancels only for the pair of one store, so an answer was stored for its key. With one worker a
slot is empty or settled unless the worker is between the two writes of a store to it, the words
it then adds are those its arguments say, and what a look-up has read is still there
(`SingleInv`); so each store is one step of `SlotTable`, its first write, and each look-up
one step, its end. An entry that gives way is read in the same store that replaces it, which is
why it only gives way to a deeper one.

*RootSearch*:
the first score is in the range of its move, the prefix but for the move being inserted is
sorted, no score is below the range of its move, and that of the move being inserted is in its
range if it is above the first; so a mere bound is never moved to the front.

*MoveOrder*: a legal move has been returned, is being
tested, or is among the moves the cases still to come will find, and is in only one of
these places; priorities change no move, and `moves[k] = moves[--move_count]` removes one. In
`next_capture` a priority is positive exactly for captures and promotions, so a quiet
best move means that none is left.

*Search*: `Balanced` is not inductive without the shape of the stack. `StackOK` says what
each frame looks like and how it is linked to its caller's: its node is the move the caller
searches, its depth is one less, its window the caller's turned round. A step is a call, a
step inside a call, or a return, and one lemma for each keeps the stack, so that each
action is only shown to be one of the three. For scores, `ScoreInv` adds, while nothing is
tainted: in each frame `best` is a lower bound for the moves already searched and, once it is
above the argument alpha, an upper bound of the node; every entry is a bound for its depth
and the deeper ones; and what was returned is fail-soft for the window it was asked for,
which the link between frames carries from the child's window to the caller's. At the root,
turned round, it is what `RootSearch` takes as a result (`RootAnswered`), and a score between
`MIN_SCORE` and `MAX_SCORE` if the range is.

*UciSession*: a bot is *quiet*, not thinking, with no `go` to read and no answer under way,
unless the GUI is waiting for it; a `go` is the last line in its pipe and a `bestmove` the last in
the other, and the lines of `uci` come before all others. That is enough for
`NoStrayAnswer` and for the refinement. For `LegalPlay` it must be known what the bot thinks
about: once `position` has been sent, the last line in the pipe, or the root when the pipe is
empty, is the position of the GUI (`Loaded`); a `go` stands behind it (`GoesFor`); so the
search and its answer are about that position (`Agrees`). While every bot lives no pipe ends. `WaitsForALine` follows the line the program waits
for through its stages: the command in the bot's pipe, the bot thinking or greeting, the answer in
the other pipe (`WaitOK`); a step that ends one stage begins the next or is the bot's death. The one stage that
leads nowhere is that of the mute bot, and it is entered only with every thread used (`MuteOK`).

*Exchange, the lists*: with 0x88 numbers a difference of two squares fixes the differences of
their ranks and files (`OneCell`), so all pairs that write a cell of an increment table write the
same (`OneIncrement`) and what is read for two squares of the board is their own
increment, whatever the square 64 has left. A number eight or fewer steps along a line is on the board
or off it for good, cut to a byte or not (`RaySquares`), so a ray ends on the first piece or beyond the
border (`RayEnds`). Seen from the target, the first piece along a line is the one that reaches it by the
rules, and behind the moving piece the ray may begin there because the way of the capture itself is
clear (`WayIsClear`, `RayAtSees`). A square is on one line with the target (`OneLine`), so the eight rays,
the knights and the king list different squares (`ListsConcat`), together those that attack
it (`KindsAreAttackers`).

*Exchange, the bounds*: `beta` is always the value of the piece captured first. The first half of
the loop either returns or leaves `alpha` between what is left when the side to move stops at once
and 0 (`Settled`), with `value` at most `alpha`; the second half goes on only with `value` above
`alpha` again. Whatever is popped is worth a piece on the board or 0, so `value` never lies further
out than a king and a queen. That is enough for any number of rounds, without knowing what the
lists hold. Only for a king's capture, which returns `MIN_SCORE`, must the list of attackers be
known not to be empty: the king is in it itself (`KingIsListed`).

*Repetition*: equal keys have the same turn, so they lie an even number of plies apart (`Turns`); not
two, since nothing is where it was after a move of each side (`NoReturn`), which justifies the early
return; and not across an irreversible move, since progress only grows (`Progresses`, `Cut`). So
the plies `is_repetition` looks at are all plies at which the position has occurred.

*The tables of increments*: what a table holds for two squares is their own increment, if it is
one of its pairs, and 0 otherwise (`TableHolds`); two squares are on a line or a diagonal exactly when they
are one to seven steps apart (`OnSomeLine`, `WhichLine`), the increment is the byte of that step
(`LineIncrement`), and the squares between them are on the board (`ReachesOnLine`).

*Packed moves*: in 16 bits the two numbers of six bits and the flags do not overlap, so each is read back with
the lowest two bits of the next one above it; the upper of these is lost when the square becomes an
0x88 number, and the lower puts it beyond the board (`ReadBack`).

*Evaluation*: a sum is a fold that takes an element chosen from the set, then the rest. `SubsetInduction` is
induction over the subsets of a finite set, stated for the set of those for which a claim holds, since the
provers cannot instantiate a predicate; with it the fold exists, is unique, and takes its
elements in any order (`SomeTotal`, `OneTotal`, `TotalTakes`). So a sum over mirrored squares is the sum over the squares
themselves (`TotalImage`; `flipped_square` undoes the mirror, `MirrorFacts`), and a sum of n
entries lies between -100n and 200n (`TotalBounds`). Then `eval` is what the player to move has less what the other
has (`EvalIs`), from which its symmetry follows; and no side has more than 13,600 or less than -200
(`SideBounds`), so that 16,384 is out of reach.

Checked by TLC only: liveness (`LimitedGoAnswered`, `StopAnswered`, `UciReturns`, `MatchEnds`,
`BotsExit`), which needs fairness. Every safety property the runs check is also a theorem.

## 6. Not modelled

* The chess library. `chess.h` declares it and the repository does not contain it; move
  generation, legality and draws are constants or arbitrary choices wherever they are used.
* How a line is split into words, the wording of messages, `isready`, `debug`, `setoption`. The
  buffers differ (4096 in the engine, 1024 in the programs), so no line of these is split.
* `kill_bot` and the `uci_send` functions no program calls; the drawing and the input of a person in
  gui.c.
* The other generators print constants: random numbers, a start board, square tables.
* The contents of the killer and butterfly tables: they only choose an order, and every order
  is checked.
* A mated or stalemated root: the programs stop before it, and what making a move of another
  position does is up to the library.
* Wall-clock time, memory exhaustion in `tt_init`, and coincidences of 64-bit keys.
