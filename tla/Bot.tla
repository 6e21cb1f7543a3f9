-------------------------------- MODULE Bot --------------------------------
(***************************************************************************)
(* The life of a search: the UCI thread that reads commands from stdin     *)
(* (src/interface.c), the bot_t it shares with its worker (src/bot.c) and  *)
(* the worker thread that searches, prints bestmove and clears "running"   *)
(* (src/worker.c).                                                         *)
(*                                                                         *)
(* bot_init fixes n_threads at BOT_THREAD_COUNT_DEFAULT = 1 and nothing    *)
(* changes it, so the loops over the workers are over worker 0 only, the   *)
(* worker is always the main worker, and bot_on_stop's own join loop has   *)
(* no iteration.  Before the first uci command bot is a zeroed global and  *)
(* n_threads is 0.                                                         *)
(*                                                                         *)
(* The chess library is not part of the repository: a position is a value. *)
(* Threads are resources of the process: pthread_create takes a free one   *)
(* and fails when there is none, and only pthread_join frees it again.     *)
(***************************************************************************)
EXTENDS Integers

CONSTANTS
  Tids,            \* the threads the process can hold besides the UCI thread
  NoTid,           \* worker_t.handle before the first pthread_create
  Positions,       \* the root positions
  NoPosition,      \* no position loaded, or one that has been released
  Conditions,      \* the termination conditions go can set
  MaxDepth,        \* bound: depth_searched is not counted further
  MaxNodes,        \* bound: nodes_searched is not counted further
  MaxPonderHits,   \* bound: ponderhit commands per search
  GuiLingers,      \* the GUI's next go or position finds the worker gone
  ThreadsRunOut    \* sessions that use up Tids are included

Limits == [time : BOOLEAN, nodes : 0 .. MaxNodes - 1,
           depth : 0 .. MaxDepth - 1, mate : BOOLEAN]

ASSUME NoTidAssumption == NoTid \notin Tids
ASSUME PositionAssumption == NoPosition \notin Positions
ASSUME BoundAssumption ==
  /\ MaxDepth \in Nat \ {0}
  /\ MaxNodes \in Nat \ {0}
  /\ MaxPonderHits \in Nat
ASSUME ConditionAssumption == Conditions \subseteq Limits
ASSUME ModeAssumption == GuiLingers \in BOOLEAN /\ ThreadsRunOut \in BOOLEAN

VARIABLES
  nThreads,  \* bot_t.n_threads: 0 until uci has been handled, then 1
  running,   \* bot_t.running
  abort,     \* bot_t.abort
  expired,   \* more than time_limit_ms has passed since bot_t.start_time
  nodes,     \* bot_t.nodes_searched
  depth,     \* bot_t.depth_searched
  cond,      \* bot_t.stop_cond; time is TRUE when a movetime is set
  root,      \* bot_t.root_position
  workerRoot,\* the position worker_t.position and worker_t.moves belong to
  handle,    \* worker_t.handle
  pc,        \* where each worker thread is
  upc,       \* where the UCI thread is
  ret,       \* the command whose bot_stop is under way
  proc,      \* "up", "exited" or "crashed"
  freed,     \* bot_release has freed the worker and the tables
  badJoin,   \* pthread_join was called on a thread that is not there
  pending,   \* history: go commands that no bestmove has answered yet
  answer,    \* history: the position the last bestmove was computed for
  hits       \* history: ponderhit commands still to come in this search

botVars == <<nThreads, running, abort, expired, nodes, depth, cond, root>>
workerVars == <<workerRoot, handle, pc>>
uciVars == <<upc, ret, proc, freed, badJoin>>
histVars == <<pending, answer, hits>>
vars == <<botVars, workerVars, uciVars, histVars>>

NoLimits == [time |-> FALSE, nodes |-> 0, depth |-> 0, mate |-> FALSE]

WorkerPcs == {"none", "copy", "poll", "enter", "search", "bump", "release",
              "report", "clear", "done"}
UciPcs == {"idle", "create", "wait", "join", "free", "exit"}

Live(t) == pc[t] \notin {"none", "done"}

\* A thread that still uses the worker: after bestmove is printed it only
\* stores to the global bot.running.
Busy(t) == Live(t) /\ pc[t] # "clear"

TypeOK ==
  /\ nThreads \in {0, 1}
  /\ running \in BOOLEAN /\ abort \in BOOLEAN /\ expired \in BOOLEAN
  /\ nodes \in 0 .. MaxNodes /\ depth \in 0 .. MaxDepth
  /\ cond \in Limits
  /\ root \in Positions \union {NoPosition}
  /\ workerRoot \in Positions \union {NoPosition}
  /\ handle \in Tids \union {NoTid}
  /\ pc \in [Tids -> WorkerPcs]
  /\ upc \in UciPcs /\ ret \in {"none", "start", "stop", "quit"}
  /\ proc \in {"up", "exited", "crashed"}
  /\ freed \in BOOLEAN /\ badJoin \in BOOLEAN
  /\ pending \in {0, 1}
  /\ answer \in Positions \union {NoPosition}
  /\ hits \in 0 .. MaxPonderHits

Init ==
  /\ nThreads = 0
  /\ running = FALSE /\ abort = FALSE /\ expired = FALSE
  /\ nodes = 0 /\ depth = 0
  /\ cond = NoLimits
  /\ root = NoPosition /\ workerRoot = NoPosition
  /\ handle = NoTid
  /\ pc = [t \in Tids |-> "none"]
  /\ upc = "idle" /\ ret = "none" /\ proc = "up"
  /\ freed = FALSE /\ badJoin = FALSE
  /\ pending = 0 /\ answer = NoPosition /\ hits = 0

-----------------------------------------------------------------------------
(* The GUI's discipline.  UCI has the GUI wait for bestmove before it sends *)
(* the next position or go; stop, ponderhit and quit may come at any time.  *)

Idle == proc = "up" /\ upc = "idle"
Answered == pending = 0 /\ (GuiLingers => \A t \in Tids : ~Live(t))

-----------------------------------------------------------------------------
(* Commands, on the UCI thread.                                             *)

\* uci_handler: bot_init.  The new worker_t has no thread; one that is still
\* about to clear "running" holds a pointer to the old one.
Uci ==
  /\ Idle /\ Answered
  /\ nThreads' = 1
  /\ running' = FALSE /\ abort' = TRUE /\ expired' = FALSE
  /\ nodes' = 0 /\ depth' = 0
  /\ cond' = NoLimits
  /\ root' = NoPosition /\ workerRoot' = NoPosition
  /\ handle' = NoTid
  /\ UNCHANGED <<pc, uciVars, histVars>>

\* position_handler and ucinewgame_handler when every move can be read.
Position(p) ==
  /\ Idle /\ Answered
  /\ root' = p
  /\ UNCHANGED <<nThreads, running, abort, expired, nodes, depth, cond,
                 workerVars, uciVars, histVars>>

\* bot_load_moves releases the root position at a move it cannot read.
PositionBadMoves ==
  /\ Idle /\ Answered
  /\ root' = NoPosition
  /\ UNCHANGED <<nThreads, running, abort, expired, nodes, depth, cond,
                 workerVars, uciVars, histVars>>

\* go_handler up to the pthread_create of bot_start.  Unless ThreadsRunOut,
\* sessions end when the process has no thread left for another search.
Go(c) ==
  /\ Idle /\ Answered
  /\ nThreads = 1 /\ root # NoPosition
  /\ ThreadsRunOut \/ \E t \in Tids : pc[t] = "none"
  /\ cond' = c
  /\ expired' = FALSE /\ nodes' = 0 /\ depth' = 0
  /\ abort' = FALSE
  /\ running' = TRUE
  /\ upc' = "create"
  /\ pending' = pending + 1
  /\ hits' = MaxPonderHits
  /\ UNCHANGED <<nThreads, root, workerVars, ret, proc, freed, badJoin, answer>>

\* go ponder: settings.Ponder is 0 and no command sets it, so the handler has
\* reset stop_cond when it gives up.
GoPonder ==
  /\ Idle /\ Answered
  /\ cond' = NoLimits
  /\ UNCHANGED <<nThreads, running, abort, expired, nodes, depth, root,
                 workerVars, uciVars, histVars>>

Ponderhit ==
  /\ Idle
  /\ hits > 0 /\ hits' = hits - 1
  /\ expired' = FALSE /\ nodes' = 0 /\ depth' = 0
  /\ UNCHANGED <<nThreads, running, abort, cond, root, workerVars, uciVars,
                 pending, answer>>

\* Mutant: bot_stop waits for the search without telling it to stop.
CallStopWithoutAbort(caller) ==
  /\ upc' = "wait" /\ ret' = caller
  /\ UNCHANGED <<botVars, workerVars, proc, freed, badJoin, histVars>>

\* The store of bot_stop, for stop_handler, and for quit_handler's bot_release,
\* which end of input reaches too (fetch_command).
CallStop(caller) ==
  /\ abort' = TRUE
  /\ upc' = "wait" /\ ret' = caller
  /\ UNCHANGED <<nThreads, running, expired, nodes, depth, cond, root,
                 workerVars, proc, freed, badJoin, histVars>>

Stop == Idle /\ CallStop("stop")
Quit == Idle /\ CallStop("quit")

-----------------------------------------------------------------------------
(* The rest of bot_start, bot_stop and bot_release, on the UCI thread.      *)

ReturnTo(caller) == IF caller = "quit" THEN "free" ELSE "idle"

Create(t) ==
  /\ proc = "up" /\ upc = "create"
  /\ pc[t] = "none"
  /\ pc' = [pc EXCEPT ![t] = "copy"]
  /\ handle' = t
  /\ upc' = "idle"
  /\ UNCHANGED <<botVars, workerRoot, ret, proc, freed, badJoin, histVars>>

\* pthread_create fails: the handle keeps its value or becomes undefined, and
\* bot_start calls bot_stop.
CreateFails ==
  /\ proc = "up" /\ upc = "create"
  /\ \A t \in Tids : pc[t] # "none"
  /\ handle' \in {handle, NoTid}
  /\ abort' = TRUE
  /\ upc' = "wait" /\ ret' = "start"
  /\ UNCHANGED <<nThreads, running, expired, nodes, depth, cond, root,
                 workerRoot, pc, proc, freed, badJoin, histVars>>

\* Mutant: bot_wait returns at once.
WaitForNothing ==
  /\ proc = "up" /\ upc = "wait"
  /\ upc' = ReturnTo(ret)
  /\ UNCHANGED <<botVars, workerVars, ret, proc, freed, badJoin, histVars>>

\* Mutant: bot_wait spins on "running" and joins nothing.
WaitByPolling ==
  /\ proc = "up" /\ upc = "wait"
  /\ ~running
  /\ upc' = ReturnTo(ret)
  /\ UNCHANGED <<botVars, workerVars, ret, proc, freed, badJoin, histVars>>

\* bot_wait: is there anything to wait for?
Wait ==
  /\ proc = "up" /\ upc = "wait"
  /\ upc' = IF running /\ nThreads = 1 THEN "join" ELSE ReturnTo(ret)
  /\ UNCHANGED <<botVars, workerVars, ret, proc, freed, badJoin, histVars>>

\* pthread_join returns once the worker's thread has ended, and frees it.
Join ==
  /\ proc = "up" /\ upc = "join"
  /\ handle \in Tids /\ pc[handle] = "done"
  /\ pc' = [pc EXCEPT ![handle] = "none"]
  /\ upc' = ReturnTo(ret)
  /\ UNCHANGED <<botVars, workerRoot, handle, ret, proc, freed, badJoin, histVars>>

\* Joining a thread that was never created or has been joined before is
\* undefined: the call fails, or the process does.
JoinInvalid ==
  /\ proc = "up" /\ upc = "join"
  /\ handle \in Tids => pc[handle] = "none"
  /\ badJoin' = TRUE
  /\ proc' \in {"up", "crashed"}
  /\ upc' = ReturnTo(ret)
  /\ UNCHANGED <<botVars, workerVars, ret, freed, histVars>>

\* bot_release after its bot_stop, then exit(0).
Free ==
  /\ proc = "up" /\ upc = "free"
  /\ freed' = TRUE
  /\ upc' = "exit"
  /\ UNCHANGED <<botVars, workerVars, ret, proc, badJoin, histVars>>

Exit ==
  /\ proc = "up" /\ upc = "exit"
  /\ proc' = "exited"
  /\ UNCHANGED <<botVars, workerVars, upc, ret, freed, badJoin, histVars>>

-----------------------------------------------------------------------------
(* The worker thread.                                                       *)

At(t, label) == proc = "up" /\ pc[t] = label
GoTo(t, label) == pc' = [pc EXCEPT ![t] = label]

Saturate(n, bound) == IF n < bound THEN n ELSE bound

\* Mutant: the moves of the previous search are searched again.
CopyNothing(t) ==
  /\ At(t, "copy") /\ GoTo(t, "poll")
  /\ UNCHANGED <<botVars, workerRoot, handle, uciVars, histVars>>

\* Mutant: the worker resets abort itself when it begins.
CopyAndResetAbort(t) ==
  /\ At(t, "copy") /\ GoTo(t, "poll")
  /\ workerRoot' = root
  /\ abort' = FALSE
  /\ UNCHANGED <<nThreads, running, expired, nodes, depth, cond, root,
                 handle, uciVars, histVars>>

\* worker_start before its loop: copy_position and generate_legal_moves.
Copy(t) ==
  /\ At(t, "copy") /\ GoTo(t, "poll")
  /\ workerRoot' = root
  /\ UNCHANGED <<botVars, handle, uciVars, histVars>>

\* Mutant: the depth is compared one too late.
DepthOffByOne ==
  \/ cond.time /\ expired
  \/ cond.nodes > 0 /\ nodes > cond.nodes
  \/ cond.depth > 0 /\ depth > cond.depth + 1

\* Mutant: the clock is not looked at.
LimitWithoutClock ==
  \/ cond.nodes > 0 /\ nodes > cond.nodes
  \/ cond.depth > 0 /\ depth > cond.depth

LimitReached ==
  \/ cond.time /\ expired
  \/ cond.nodes > 0 /\ nodes > cond.nodes
  \/ cond.depth > 0 /\ depth > cond.depth

\* stop(worker) returns 1, having set abort if a limit is reached.
StopTrue(t) ==
  /\ abort \/ LimitReached
  /\ abort' = TRUE
  /\ UNCHANGED <<nThreads, running, expired, nodes, depth, cond, root,
                 workerRoot, handle, uciVars, histVars>>

\* worker_start's loop condition.
PollStop(t) == At(t, "poll") /\ StopTrue(t) /\ GoTo(t, "release")

PollGoOn(t) ==
  /\ At(t, "poll") /\ ~abort /\ ~LimitReached
  /\ GoTo(t, "enter")
  /\ UNCHANGED <<botVars, workerRoot, handle, uciVars, histVars>>

\* nodes_searched is incremented on entry to rootSearch, abSearch and qSearch.
CountNode ==
  /\ nodes' = Saturate(nodes + 1, MaxNodes)
  /\ UNCHANGED <<nThreads, running, abort, expired, depth, cond, root,
                 workerRoot, handle, uciVars, histVars>>

EnterRootSearch(t) == At(t, "enter") /\ GoTo(t, "search") /\ CountNode

VisitNode(t) == At(t, "search") /\ nodes < MaxNodes /\ GoTo(t, "search") /\ CountNode

\* A poll inside the search holds, and the search unwinds.
UnwindSearch(t) == At(t, "search") /\ StopTrue(t) /\ GoTo(t, "bump")

\* The search of an iteration is finite.
FinishSearch(t) ==
  /\ At(t, "search") /\ GoTo(t, "bump")
  /\ UNCHANGED <<botVars, workerRoot, handle, uciVars, histVars>>

Bump(t) ==
  /\ At(t, "bump") /\ GoTo(t, "poll")
  /\ depth' = Saturate(depth + 1, MaxDepth)
  /\ UNCHANGED <<nThreads, running, abort, expired, nodes, cond, root,
                 workerRoot, handle, uciVars, histVars>>

\* Mutant: "running" is cleared before bot_on_stop.
ReleaseAndClear(t) ==
  /\ At(t, "release") /\ GoTo(t, "report")
  /\ running' = FALSE
  /\ UNCHANGED <<nThreads, abort, expired, nodes, depth, cond, root,
                 workerRoot, handle, uciVars, histVars>>

\* release_position and terminated = 1; the worker is the main thread.
Release(t) ==
  /\ At(t, "release") /\ GoTo(t, "report")
  /\ UNCHANGED <<botVars, workerRoot, handle, uciVars, histVars>>

\* Mutant: bestmove is printed from inside the loop of worker_start.
ReportAndGoOn(t) ==
  /\ At(t, "report") /\ GoTo(t, "poll")
  /\ pending' = pending - 1
  /\ answer' = workerRoot
  /\ UNCHANGED <<botVars, workerRoot, handle, uciVars, hits>>

\* bot_on_stop prints info and bestmove; the GUI can answer from here on.
Report(t) ==
  /\ At(t, "report") /\ GoTo(t, "clear")
  /\ pending' = pending - 1
  /\ answer' = workerRoot
  /\ UNCHANGED <<botVars, workerRoot, handle, uciVars, hits>>

\* Mutant: "running" stays set.
ClearNothing(t) ==
  /\ At(t, "clear") /\ GoTo(t, "done")
  /\ UNCHANGED <<botVars, workerRoot, handle, uciVars, histVars>>

\* The last store of bot_on_stop, and the return of worker_start.
ClearRunning(t) ==
  /\ At(t, "clear") /\ GoTo(t, "done")
  /\ running' = FALSE
  /\ UNCHANGED <<nThreads, abort, expired, nodes, depth, cond, root,
                 workerRoot, handle, uciVars, histVars>>

\* CLOCK_MONOTONIC passes start_time + time_limit_ms.
ClockExpires ==
  /\ proc = "up"
  /\ cond.time /\ ~expired
  /\ expired' = TRUE
  /\ UNCHANGED <<nThreads, running, abort, nodes, depth, cond, root,
                 workerVars, uciVars, histVars>>

-----------------------------------------------------------------------------
Command ==
  \/ Uci
  \/ \E p \in Positions : Position(p)
  \/ PositionBadMoves
  \/ \E c \in Conditions : Go(c)
  \/ GoPonder
  \/ Ponderhit
  \/ Stop
  \/ Quit

UciStep ==
  \/ \E t \in Tids : Create(t)
  \/ CreateFails
  \/ Wait
  \/ Join
  \/ JoinInvalid
  \/ Free
  \/ Exit

WorkerStep(t) ==
  \/ Copy(t)
  \/ PollStop(t)
  \/ PollGoOn(t)
  \/ EnterRootSearch(t)
  \/ VisitNode(t)
  \/ UnwindSearch(t)
  \/ FinishSearch(t)
  \/ Bump(t)
  \/ Release(t)
  \/ Report(t)
  \/ ClearRunning(t)

Next ==
  \/ Command
  \/ UciStep
  \/ \E t \in Tids : WorkerStep(t)
  \/ ClockExpires

Spec == Init /\ [][Next]_vars

\* The scheduler runs every thread that can run and the clock moves on; the
\* GUI need not send anything.
Fairness ==
  /\ WF_vars(UciStep)
  /\ \A t \in Tids : WF_vars(WorkerStep(t))
  /\ WF_vars(ClockExpires)

FairSpec == Spec /\ Fairness

-----------------------------------------------------------------------------
(* Properties.                                                              *)

\* worker_t has plain, unsynchronised fields: two threads never use it at the
\* same time, and none uses it while the UCI thread starts the next search.
WorkerExclusive ==
  /\ \A t, u \in Tids : Busy(t) /\ Busy(u) => t = u
  /\ upc = "create" => \A t \in Tids : ~Busy(t)

\* An iteration is never run deeper than the limit set by go depth.
DepthLimitRespected ==
  \A t \in Tids :
    pc[t] \in {"enter", "search"} /\ cond.depth > 0 => depth <= cond.depth

\* bot_wait only joins a thread that exists and has not been joined.
NoBadJoin == ~badJoin

\* bot_release frees the worker and the transposition table only when no
\* thread can still reach them.
NoUseAfterFree == freed => \A t \in Tids : ~Busy(t)

\* "Wait for each thread to finish": when bot_stop returns to stop_handler, the
\* search it stopped is over.
StopWaits ==
  [][(ret = "stop" /\ upc \in {"wait", "join"} /\ upc' = "idle")
       => \A t \in Tids : ~Busy(t)]_vars

\* The engine answers one question at a time, about the position it was asked.
Engine == INSTANCE UciEngine WITH
  phase <- IF proc # "up" THEN "closed"
           ELSE IF pending > 0 THEN "thinking" ELSE "idle",
  position <- root,
  answer <- answer

EngineSpec == Engine!EngineSpec

\* Every go has a thread that owes its answer, and it is the one whose handle
\* bot_stop would join; when the UCI thread waits for that answer it has told
\* the search to stop.  ponderhit, a limit, the last store of the previous
\* worker and the next bot_start all come in between.
AnswerOwed ==
  pending > 0 =>
    /\ upc = "create" \/ (handle \in Tids /\ Busy(handle))
    /\ upc \in {"wait", "join", "free"} => abort

\* go with a move time, a node limit or a depth limit is answered.
Limited == cond.time \/ cond.nodes > 0 \/ cond.depth > 0
LimitedGoAnswered == (pending > 0 /\ Limited) ~> (pending = 0 \/ proc # "up")

\* stop ends any search, however it was started, with its bestmove.
StopAnswered ==
  (upc = "wait" /\ ret = "stop" /\ pending > 0) ~> (pending = 0 \/ proc # "up")

\* The UCI thread always comes back to read the next command.
UciReturns == upc # "idle" ~> (upc = "idle" \/ proc # "up")
=============================================================================
