----------------------------- MODULE BotProofs -----------------------------
(***************************************************************************)
(* Theorems about Bot, for any number of threads, positions, termination   *)
(* conditions and bounds.                                                  *)
(***************************************************************************)
EXTENDS Bot, TLAPS

-----------------------------------------------------------------------------
(* One search at a time.  That pending is 0 or 1 is not inductive: it rests  *)
(* on there being at most one thread that has still to print its bestmove,   *)
(* none before pthread_create, and none when nothing is pending.             *)

BusyUnique == \A t, u \in Tids : Busy(t) /\ Busy(u) => t = u
BusyNotAtCreate == upc = "create" => pending = 1 /\ \A t \in Tids : ~Busy(t)
BusyPending == \A t \in Tids : Busy(t) => pending = 1

OneSearch == BusyUnique /\ BusyNotAtCreate /\ BusyPending

SearchInv == TypeOK /\ OneSearch

LEMMA InitSearchInv == Init => SearchInv
  <1> SUFFICES ASSUME Init PROVE SearchInv
    OBVIOUS
  <1>1. NoLimits \in Limits
    BY BoundAssumption DEF NoLimits, Limits
  <1>b. /\ running \in BOOLEAN /\ abort \in BOOLEAN /\ expired \in BOOLEAN
        /\ freed \in BOOLEAN /\ badJoin \in BOOLEAN
    BY Zenon DEF Init
  <1>2. TypeOK
    BY <1>1, <1>b, BoundAssumption DEF Init, TypeOK, WorkerPcs, UciPcs
  <1>3. \A t \in Tids : ~Busy(t)
    BY DEF Init, Busy, Live
  <1> QED
    BY <1>2, <1>3 DEF Init, SearchInv, OneSearch, BusyUnique, BusyNotAtCreate,
                      BusyPending

\* Every step keeps the types, given that a bestmove answers a pending go.
LEMMA StepTypeOK == SearchInv /\ [Next]_vars => TypeOK'
  <1> SUFFICES ASSUME SearchInv, [Next]_vars PROVE TypeOK'
    OBVIOUS
  <1> USE BoundAssumption, ConditionAssumption
      DEF SearchInv, TypeOK, botVars, workerVars, uciVars, histVars,
          UciPcs, WorkerPcs, Idle, Answered
  <1>n. NoLimits \in Limits
    BY DEF NoLimits, Limits
  <1>r. \A c : ReturnTo(c) \in UciPcs
    BY DEF ReturnTo
  <1>1. CASE Uci
    <2>b. running' \in BOOLEAN /\ abort' \in BOOLEAN /\ expired' \in BOOLEAN
      BY <1>1, Zenon DEF Uci
    <2> QED
      BY <1>1, <1>n, <2>b DEF Uci
  <1>2. ASSUME NEW p \in Positions, Position(p) PROVE TypeOK'
    BY <1>2 DEF Position
  <1>3. CASE PositionBadMoves
    BY <1>3 DEF PositionBadMoves
  <1>4. ASSUME NEW c \in Conditions, Go(c) PROVE TypeOK'
    <2>b. running' \in BOOLEAN /\ abort' \in BOOLEAN /\ expired' \in BOOLEAN
      BY <1>4, Zenon DEF Go
    <2> QED
      BY <1>4, <2>b DEF Go
  <1>5. CASE GoPonder
    BY <1>5, <1>n DEF GoPonder
  <1>6. CASE Ponderhit
    <2>b. expired' \in BOOLEAN
      BY <1>6, Zenon DEF Ponderhit
    <2> QED
      BY <1>6, <2>b DEF Ponderhit
  <1>7. CASE Stop \/ Quit
    BY <1>7 DEF Stop, Quit, CallStop
  <1>8. ASSUME NEW t \in Tids, Create(t) PROVE TypeOK'
    BY <1>8 DEF Create
  <1>9. CASE CreateFails
    BY <1>9 DEF CreateFails
  <1>10. CASE Wait
    BY <1>10, <1>r DEF Wait
  <1>11. CASE Join
    BY <1>11, <1>r DEF Join
  <1>12. CASE JoinInvalid
    BY <1>12, <1>r DEF JoinInvalid
  <1>13. CASE Free
    BY <1>13 DEF Free
  <1>14. CASE Exit
    BY <1>14 DEF Exit
  <1>15. ASSUME NEW t \in Tids, WorkerStep(t) PROVE TypeOK'
    <2> USE DEF At, GoTo
    <2>1. CASE Copy(t)
      BY <2>1 DEF Copy
    <2>2. CASE PollStop(t)
      BY <2>2 DEF PollStop, StopTrue
    <2>3. CASE PollGoOn(t)
      BY <2>3 DEF PollGoOn
    <2>4. CASE EnterRootSearch(t)
      BY <2>4 DEF EnterRootSearch, CountNode, Saturate
    <2>5. CASE VisitNode(t)
      BY <2>5 DEF VisitNode, CountNode, Saturate
    <2>6. CASE UnwindSearch(t)
      BY <2>6 DEF UnwindSearch, StopTrue
    <2>7. CASE FinishSearch(t)
      BY <2>7 DEF FinishSearch
    <2>8. CASE Bump(t)
      BY <2>8 DEF Bump, Saturate
    <2>9. CASE Release(t)
      BY <2>9 DEF Release
    <2>10. CASE Report(t)
      <3>1. pending = 1
        BY <2>10 DEF Report, OneSearch, BusyPending, Busy, Live
      <3> QED BY <2>10, <3>1 DEF Report
    <2>11. CASE ClearRunning(t)
      <3>b. running' \in BOOLEAN
        BY <2>11, Zenon DEF ClearRunning
      <3> QED BY <2>11, <3>b DEF ClearRunning
    <2> QED
      BY <1>15, <2>1, <2>2, <2>3, <2>4, <2>5, <2>6, <2>7, <2>8, <2>9, <2>10,
         <2>11 DEF WorkerStep
  <1>16. CASE ClockExpires
    BY <1>16 DEF ClockExpires
  <1>17. CASE UNCHANGED vars
    BY <1>17 DEF vars
  <1> QED
    BY <1>1, <1>2, <1>3, <1>4, <1>5, <1>6, <1>7, <1>8, <1>9, <1>10, <1>11,
       <1>12, <1>13, <1>14, <1>15, <1>16, <1>17
    DEF Next, Command, UciStep

\* A step that takes no thread into its search and answers nothing keeps
\* OneSearch.
LEMMA QuietStep ==
  ASSUME SearchInv, pending' = pending,
         \A t \in Tids : Busy(t)' => Busy(t),
         upc' = "create" => upc = "create"
  PROVE  OneSearch'
  BY DEF SearchInv, OneSearch, BusyUnique, BusyNotAtCreate, BusyPending

LEMMA StepOneSearch == SearchInv /\ [Next]_vars => OneSearch'
  <1> SUFFICES ASSUME SearchInv, [Next]_vars PROVE OneSearch'
    OBVIOUS
  <1> USE DEF botVars, workerVars, uciVars, histVars
  <1>p. pc \in [Tids -> WorkerPcs]
    BY DEF SearchInv, TypeOK
  <1>r. \A c : ReturnTo(c) # "create"
    BY DEF ReturnTo
  <1>1. CASE Uci \/ PositionBadMoves \/ GoPonder \/ Ponderhit
    BY <1>1, QuietStep
    DEF Uci, PositionBadMoves, GoPonder, Ponderhit, Busy, Live
  <1>2. ASSUME NEW p \in Positions, Position(p) PROVE OneSearch'
    BY <1>2, QuietStep DEF Position, Busy, Live
  <1>3. ASSUME NEW c \in Conditions, Go(c) PROVE OneSearch'
    <2>1. pending = 0 /\ pending' = 1 /\ pc' = pc
      BY <1>3 DEF Go, Answered, SearchInv, TypeOK
    <2>2. \A t \in Tids : ~Busy(t)
      BY <2>1 DEF SearchInv, OneSearch, BusyPending
    <2>3. \A t \in Tids : ~Busy(t)'
      BY <2>1, <2>2 DEF Busy, Live
    <2> QED
      BY <2>1, <2>3 DEF OneSearch, BusyUnique, BusyNotAtCreate, BusyPending
  <1>4. CASE Stop \/ Quit
    BY <1>4, QuietStep DEF Stop, Quit, CallStop, Busy, Live
  <1>5. ASSUME NEW t \in Tids, Create(t) PROVE OneSearch'
    <2>1. pending = 1 /\ \A u \in Tids : ~Busy(u)
      BY <1>5 DEF Create, SearchInv, OneSearch, BusyNotAtCreate
    <2>2. \A u \in Tids : Busy(u)' => u = t
      BY <1>5, <1>p, <2>1 DEF Create, Busy, Live
    <2>3. pending' = 1 /\ upc' # "create"
      BY <1>5, <2>1 DEF Create
    <2> QED
      BY <2>2, <2>3 DEF OneSearch, BusyUnique, BusyNotAtCreate, BusyPending
  <1>6. CASE CreateFails \/ Wait \/ JoinInvalid \/ Free \/ Exit
    BY <1>6, <1>r, QuietStep
    DEF CreateFails, Wait, JoinInvalid, Free, Exit, Busy, Live
  <1>7. CASE Join
    BY <1>7, <1>p, <1>r, QuietStep DEF Join, Busy, Live
  <1>8. ASSUME NEW t \in Tids, WorkerStep(t) PROVE OneSearch'
    <2> USE <1>p DEF At, GoTo
    <2>0. CASE Report(t)
      <3>1. Busy(t)
        BY <2>0 DEF Report, Busy, Live
      <3>2. \A u \in Tids : ~Busy(u)'
        BY <2>0, <3>1
        DEF Report, Busy, Live, SearchInv, OneSearch, BusyUnique
      <3>3. upc' # "create"
        BY <2>0, <3>1 DEF Report, SearchInv, OneSearch, BusyNotAtCreate
      <3> QED
        BY <3>2, <3>3 DEF OneSearch, BusyUnique, BusyNotAtCreate, BusyPending
    <2>1. CASE Copy(t)
      BY <2>1, QuietStep DEF Copy, Busy, Live
    <2>2. CASE PollStop(t) \/ UnwindSearch(t)
      BY <2>2, QuietStep DEF PollStop, UnwindSearch, StopTrue, Busy, Live
    <2>3. CASE PollGoOn(t) \/ FinishSearch(t)
      BY <2>3, QuietStep DEF PollGoOn, FinishSearch, Busy, Live
    <2>4. CASE EnterRootSearch(t) \/ VisitNode(t)
      BY <2>4, QuietStep DEF EnterRootSearch, VisitNode, CountNode, Busy, Live
    <2>5. CASE Bump(t) \/ Release(t) \/ ClearRunning(t)
      BY <2>5, QuietStep DEF Bump, Release, ClearRunning, Busy, Live
    <2> QED
      BY <1>8, <2>0, <2>1, <2>2, <2>3, <2>4, <2>5 DEF WorkerStep
  <1>9. CASE ClockExpires
    BY <1>9, QuietStep DEF ClockExpires, Busy, Live
  <1>10. CASE UNCHANGED vars
    BY <1>10, QuietStep DEF vars, Busy, Live
  <1> QED
    BY <1>1, <1>2, <1>3, <1>4, <1>5, <1>6, <1>7, <1>8, <1>9, <1>10
    DEF Next, Command, UciStep

LEMMA AlwaysSearchInv == Spec => []SearchInv
  <1>1. SearchInv /\ [Next]_vars => SearchInv'
    BY StepTypeOK, StepOneSearch DEF SearchInv
  <1> QED
    BY <1>1, InitSearchInv, PTL DEF Spec

\* The state of bot_t, of its worker and of the threads keeps its types; in
\* particular no go is answered twice.
THEOREM TypeCorrect == Spec => []TypeOK
  <1>1. SearchInv => TypeOK
    BY DEF SearchInv
  <1> QED
    BY <1>1, AlwaysSearchInv, PTL

\* worker_t is used by one thread at a time, with nothing but the GUI's wait
\* for bestmove to protect it.
THEOREM WorkerIsExclusive == Spec => []WorkerExclusive
  <1>1. SearchInv => WorkerExclusive
    BY DEF SearchInv, OneSearch, BusyUnique, BusyNotAtCreate, WorkerExclusive
  <1> QED
    BY <1>1, AlwaysSearchInv, PTL

-----------------------------------------------------------------------------
(* bot_wait joins worker_t.handle whenever "running" is set.  While the      *)
(* process has a thread for every search, the handle is then that of a       *)
(* thread that has not been joined: a joined worker had cleared "running".   *)

ThreadForCreate == upc = "create" => \E t \in Tids : pc[t] = "none"
HandleOfRunning ==
  running /\ upc # "create" => handle \in Tids /\ pc[handle] # "none"
HandleOfJoin == upc = "join" => handle \in Tids /\ pc[handle] # "none"
DoneHasCleared ==
  upc # "create" /\ handle \in Tids /\ pc[handle] = "done" => ~running

JoinInv ==
  /\ pc \in [Tids -> WorkerPcs]
  /\ ThreadForCreate /\ HandleOfRunning /\ HandleOfJoin /\ DoneHasCleared
  /\ NoBadJoin

\* A step of a worker that has not ended, and does not set "running".
LEMMA WorkerKeepsJoinInv ==
  ASSUME JoinInv, NEW t \in Tids, pc[t] \notin {"none", "done"},
         NEW l \in WorkerPcs \ {"none"}, GoTo(t, l),
         \/ l # "done" /\ running' = running
         \/ l = "done" /\ ~running',
         handle' = handle, upc' = upc, badJoin' = badJoin
  PROVE  JoinInv'
  BY DEF GoTo, JoinInv, ThreadForCreate, HandleOfRunning, HandleOfJoin,
         DoneHasCleared, NoBadJoin

LEMMA StepJoinInv ==
  ASSUME ThreadsRunOut = FALSE, JoinInv, [Next]_vars
  PROVE  JoinInv'
  <1> USE NoTidAssumption
      DEF botVars, workerVars, uciVars, histVars, Idle
  <1>a. ASSUME pc' = pc, handle' = handle, badJoin' = badJoin,
               running' = running, upc # "create", upc' \in {upc, "wait"}
        PROVE  JoinInv'
    BY <1>a DEF JoinInv, ThreadForCreate, HandleOfRunning, HandleOfJoin,
                DoneHasCleared, NoBadJoin
  <1>r. \A c : ReturnTo(c) \in {"free", "idle"}
    BY DEF ReturnTo
  <1>1. CASE Uci
    BY <1>1 DEF Uci, JoinInv, ThreadForCreate, HandleOfRunning, HandleOfJoin,
                DoneHasCleared, NoBadJoin
  <1>2. ASSUME NEW p \in Positions, Position(p) PROVE JoinInv'
    BY <1>2, <1>a DEF Position
  <1>3. CASE PositionBadMoves \/ GoPonder \/ Ponderhit
    BY <1>3, <1>a DEF PositionBadMoves, GoPonder, Ponderhit
  <1>4. ASSUME NEW c \in Conditions, Go(c) PROVE JoinInv'
    BY <1>4 DEF Go, JoinInv, ThreadForCreate, HandleOfRunning, HandleOfJoin,
                DoneHasCleared, NoBadJoin
  <1>5. CASE Stop \/ Quit
    <2>1. upc = "idle" /\ upc' = "wait"
      BY <1>5 DEF Stop, Quit, CallStop
    <2> QED
      BY <1>5, <2>1, <1>a DEF Stop, Quit, CallStop, JoinInv, NoBadJoin
  <1>6. ASSUME NEW t \in Tids, Create(t) PROVE JoinInv'
    BY <1>6 DEF Create, JoinInv, ThreadForCreate, HandleOfRunning,
                HandleOfJoin, DoneHasCleared, NoBadJoin, WorkerPcs
  <1>7. ~CreateFails
    BY DEF CreateFails, JoinInv, ThreadForCreate
  <1>8. CASE Wait
    BY <1>8, <1>r DEF Wait, JoinInv, ThreadForCreate, HandleOfRunning,
                      HandleOfJoin, DoneHasCleared, NoBadJoin
  <1>9. CASE Join
    <2>1. ~running'
      BY <1>9 DEF Join, JoinInv, DoneHasCleared
    <2> QED
      BY <1>9, <1>r, <2>1
      DEF Join, JoinInv, ThreadForCreate, HandleOfRunning, HandleOfJoin,
          DoneHasCleared, NoBadJoin, WorkerPcs
  <1>10. ~JoinInvalid
    BY DEF JoinInvalid, JoinInv, HandleOfJoin
  <1>11. CASE Free \/ Exit
    BY <1>11 DEF Free, Exit, JoinInv, ThreadForCreate, HandleOfRunning,
                 HandleOfJoin, DoneHasCleared, NoBadJoin
  <1>12. ASSUME NEW t \in Tids, WorkerStep(t) PROVE JoinInv'
    <2> USE DEF At, WorkerPcs
    <2>1. CASE Copy(t)
      BY <2>1, WorkerKeepsJoinInv DEF Copy
    <2>2. CASE PollStop(t) \/ UnwindSearch(t)
      BY <2>2, WorkerKeepsJoinInv DEF PollStop, UnwindSearch, StopTrue
    <2>3. CASE PollGoOn(t) \/ FinishSearch(t)
      BY <2>3, WorkerKeepsJoinInv DEF PollGoOn, FinishSearch
    <2>4. CASE EnterRootSearch(t) \/ VisitNode(t)
      BY <2>4, WorkerKeepsJoinInv DEF EnterRootSearch, VisitNode, CountNode
    <2>5. CASE Bump(t) \/ Release(t) \/ Report(t)
      BY <2>5, WorkerKeepsJoinInv DEF Bump, Release, Report
    <2>6. CASE ClearRunning(t)
      BY <2>6, WorkerKeepsJoinInv DEF ClearRunning
    <2> QED
      BY <1>12, <2>1, <2>2, <2>3, <2>4, <2>5, <2>6 DEF WorkerStep
  <1>13. CASE ClockExpires
    BY <1>13 DEF ClockExpires, JoinInv, ThreadForCreate, HandleOfRunning,
                 HandleOfJoin, DoneHasCleared, NoBadJoin
  <1>14. CASE UNCHANGED vars
    BY <1>14 DEF vars, JoinInv, ThreadForCreate, HandleOfRunning,
                 HandleOfJoin, DoneHasCleared, NoBadJoin
  <1> QED
    BY <1>1, <1>2, <1>3, <1>4, <1>5, <1>6, <1>7, <1>8, <1>9, <1>10, <1>11,
       <1>12, <1>13, <1>14 DEF Next, Command, UciStep

\* bot_stop never joins a thread that was joined before or never existed, as
\* long as pthread_create does not fail.
THEOREM JoinsAreValid ==
  ASSUME ThreadsRunOut = FALSE
  PROVE  Spec => []NoBadJoin
  <1>1. Init => JoinInv
    BY NoTidAssumption
    DEF Init, JoinInv, ThreadForCreate, HandleOfRunning, HandleOfJoin,
        DoneHasCleared, NoBadJoin, WorkerPcs
  <1>2. JoinInv /\ [Next]_vars => JoinInv'
    BY StepJoinInv
  <1>3. JoinInv => NoBadJoin
    BY DEF JoinInv
  <1> QED
    BY <1>1, <1>2, <1>3, PTL DEF Spec

-----------------------------------------------------------------------------
(* Who owes the answer.  bot_start passes from the go to the pthread_create  *)
(* without the UCI thread reading another command, and from then on the      *)
(* handle is that of the one busy thread: uci, which forgets the handle, and *)
(* the next pthread_create, which replaces it, wait for the answer.  abort   *)
(* is only reset where the UCI thread has yet to create the thread.          *)

OwedByHandle ==
  pending > 0 => upc = "create" \/ (handle \in Tids /\ Busy(handle))
StopIsSaid == upc \in {"wait", "join", "free"} => abort

OwedInv == OwedByHandle /\ StopIsSaid

\* A step that asks nothing, ends no search and does not move the UCI thread.
LEMMA SameOwed ==
  ASSUME OwedInv, pending' = pending, upc' = upc, handle' = handle,
         \A t \in Tids : Busy(t) => Busy(t)',
         abort => abort'
  PROVE  OwedInv'
  BY DEF OwedInv, OwedByHandle, StopIsSaid

\* A step of the UCI thread that leaves the worker as it is.
LEMMA CalledOwed ==
  ASSUME OwedInv, pending' = pending, upc # "create", handle' = handle,
         \A t \in Tids : Busy(t) => Busy(t)',
         upc' \in {"wait", "join", "free"} => abort'
  PROVE  OwedInv'
  BY DEF OwedInv, OwedByHandle, StopIsSaid

\* A step after which nothing is pending.
LEMMA NothingOwed ==
  ASSUME OwedInv, pending' = 0, upc' = upc, abort => abort'
  PROVE  OwedInv'
  BY DEF OwedInv, OwedByHandle, StopIsSaid

LEMMA StepOwedInv ==
  ASSUME ThreadsRunOut = FALSE, SearchInv, JoinInv, OwedInv, [Next]_vars
  PROVE  OwedInv'
  <1> USE DEF botVars, workerVars, uciVars, histVars
  <1>p. pc \in [Tids -> WorkerPcs]
    BY DEF SearchInv, TypeOK
  <1>r. \A c : ReturnTo(c) # "create"
    BY DEF ReturnTo
  <1>1. CASE Uci
    BY <1>1 DEF Uci, Idle, Answered, OwedInv, OwedByHandle, StopIsSaid
  <1>2. ASSUME NEW p \in Positions, Position(p) PROVE OwedInv'
    BY <1>2, SameOwed DEF Position, Busy, Live
  <1>3. CASE PositionBadMoves \/ GoPonder \/ Ponderhit
    BY <1>3, SameOwed DEF PositionBadMoves, GoPonder, Ponderhit, Busy, Live
  <1>4. ASSUME NEW c \in Conditions, Go(c) PROVE OwedInv'
    BY <1>4 DEF Go, OwedInv, OwedByHandle, StopIsSaid
  <1>5. CASE Stop \/ Quit
    BY <1>5, CalledOwed DEF Stop, Quit, CallStop, Idle, Busy, Live
  <1>6. ASSUME NEW t \in Tids, Create(t) PROVE OwedInv'
    BY <1>6, <1>p DEF Create, OwedInv, OwedByHandle, StopIsSaid, Busy, Live
  <1>7. ~CreateFails
    BY DEF CreateFails, JoinInv, ThreadForCreate
  <1>8. CASE Wait
    BY <1>8, CalledOwed DEF Wait, OwedInv, StopIsSaid, Busy, Live
  <1>9. CASE Join
    BY <1>9, <1>p, CalledOwed DEF Join, OwedInv, StopIsSaid, Busy, Live
  <1>10. CASE JoinInvalid \/ Free \/ Exit
    BY <1>10, CalledOwed
    DEF JoinInvalid, Free, Exit, OwedInv, StopIsSaid, Busy, Live
  <1>11. ASSUME NEW t \in Tids, WorkerStep(t) PROVE OwedInv'
    <2> USE <1>p DEF At, GoTo
    <2>1. CASE Copy(t)
      BY <2>1, SameOwed DEF Copy, Busy, Live
    <2>2. CASE PollStop(t) \/ UnwindSearch(t)
      BY <2>2, SameOwed DEF PollStop, UnwindSearch, StopTrue, Busy, Live
    <2>3. CASE PollGoOn(t) \/ FinishSearch(t)
      BY <2>3, SameOwed DEF PollGoOn, FinishSearch, Busy, Live
    <2>4. CASE EnterRootSearch(t) \/ VisitNode(t)
      BY <2>4, SameOwed DEF EnterRootSearch, VisitNode, CountNode, Busy, Live
    <2>5. CASE Bump(t) \/ Release(t) \/ ClearRunning(t)
      BY <2>5, SameOwed DEF Bump, Release, ClearRunning, Busy, Live
    <2>6. CASE Report(t)
      <3>1. pending' = 0
        BY <2>6 DEF Report, SearchInv, OneSearch, BusyPending, Busy, Live
      <3> QED
        BY <2>6, <3>1, NothingOwed DEF Report
    <2> QED
      BY <1>11, <2>1, <2>2, <2>3, <2>4, <2>5, <2>6 DEF WorkerStep
  <1>12. CASE ClockExpires
    BY <1>12, SameOwed DEF ClockExpires, Busy, Live
  <1>13. CASE UNCHANGED vars
    BY <1>13, SameOwed DEF vars, Busy, Live
  <1> QED
    BY <1>1, <1>2, <1>3, <1>4, <1>5, <1>6, <1>7, <1>8, <1>9, <1>10, <1>11,
       <1>12, <1>13 DEF Next, Command, UciStep

\* No go is forgotten, and no stop waits for a search it has not reached, as
\* long as pthread_create does not fail: the safety half of StopAnswered.
THEOREM AnswersAreOwed ==
  ASSUME ThreadsRunOut = FALSE
  PROVE  Spec => []AnswerOwed
  <1>1. Init => OwedInv
    BY DEF Init, OwedInv, OwedByHandle, StopIsSaid
  <1>2. Init => JoinInv
    BY NoTidAssumption
    DEF Init, JoinInv, ThreadForCreate, HandleOfRunning, HandleOfJoin,
        DoneHasCleared, NoBadJoin, WorkerPcs
  <1>3. JoinInv /\ [Next]_vars => JoinInv'
    BY StepJoinInv
  <1>4. SearchInv /\ JoinInv /\ OwedInv /\ [Next]_vars => OwedInv'
    BY StepOwedInv
  <1>5. OwedInv => AnswerOwed
    BY DEF OwedInv, OwedByHandle, StopIsSaid, AnswerOwed
  <1> QED
    BY <1>1, <1>2, <1>3, <1>4, <1>5, AlwaysSearchInv, PTL DEF Spec

-----------------------------------------------------------------------------
(* With a GUI that never outruns the worker's last store, "running" is set   *)
(* and the handle is right for as long as a worker lives, so bot_stop does   *)
(* wait for it.                                                              *)

LiveIsRunning ==
  \A t \in Tids : Live(t) => handle = t /\ running /\ nThreads = 1
NoneLiveAt == upc \in {"create", "free", "exit"} => \A t \in Tids : ~Live(t)
CreateIsRunning == upc = "create" => running /\ nThreads = 1
FreedAtExit == freed => upc = "exit"

StopInv ==
  /\ pc \in [Tids -> WorkerPcs]
  /\ LiveIsRunning /\ NoneLiveAt /\ CreateIsRunning /\ FreedAtExit

\* Whatever bot_wait finds, no worker lives once it has returned.
LEMMA WaitLeavesNoneLive ==
  ASSUME StopInv
  PROVE  /\ Wait /\ upc' # "join" => \A t \in Tids : ~Live(t)
         /\ Join \/ JoinInvalid => \A t \in Tids : ~Live(t)
  BY DEF StopInv, LiveIsRunning, Wait, Join, JoinInvalid, Live, ReturnTo

\* A step that starts no thread, and does not move the UCI thread.
LEMMA ThreadsKeepStopInv ==
  ASSUME StopInv, pc' \in [Tids -> WorkerPcs],
         \A t \in Tids : Live(t)' => Live(t),
         running' = running, nThreads' = nThreads, handle' = handle,
         upc' = upc, freed' = freed
  PROVE  StopInv'
  BY DEF StopInv, LiveIsRunning, NoneLiveAt, CreateIsRunning, FreedAtExit

\* A step of the UCI thread that leaves no worker alive.
LEMMA NoneLiveKeepsStopInv ==
  ASSUME StopInv, pc' \in [Tids -> WorkerPcs], \A t \in Tids : ~Live(t)',
         upc' = "create" => running' /\ nThreads' = 1, freed' => upc' = "exit"
  PROVE  StopInv'
  BY DEF StopInv, LiveIsRunning, NoneLiveAt, CreateIsRunning, FreedAtExit

LEMMA StepStopInv ==
  ASSUME GuiLingers = TRUE, StopInv, [Next]_vars
  PROVE  StopInv'
  <1> USE DEF botVars, workerVars, uciVars, histVars
  <1>p. pc \in [Tids -> WorkerPcs]
    BY DEF StopInv
  <1>1. CASE Uci
    <2>1. \A t \in Tids : ~Live(t)
      BY <1>1 DEF Uci, Answered
    <2> QED
      BY <1>1, <1>p, <2>1, NoneLiveKeepsStopInv
      DEF Uci, Idle, StopInv, FreedAtExit, Live
  <1>2. ASSUME NEW p \in Positions, Position(p) PROVE StopInv'
    BY <1>2, <1>p, ThreadsKeepStopInv DEF Position, Live
  <1>3. CASE PositionBadMoves \/ GoPonder \/ Ponderhit
    BY <1>3, <1>p, ThreadsKeepStopInv
    DEF PositionBadMoves, GoPonder, Ponderhit, Live
  <1>4. ASSUME NEW c \in Conditions, Go(c) PROVE StopInv'
    <2>1. \A t \in Tids : ~Live(t)
      BY <1>4 DEF Go, Answered
    <2> QED
      BY <1>4, <1>p, <2>1, NoneLiveKeepsStopInv
      DEF Go, Idle, StopInv, FreedAtExit, Live
  <1>5. CASE Stop \/ Quit
    BY <1>5 DEF Stop, Quit, CallStop, Idle, StopInv, LiveIsRunning, NoneLiveAt,
                CreateIsRunning, FreedAtExit, Live
  <1>6. ASSUME NEW t \in Tids, Create(t) PROVE StopInv'
    <2>1. \A u \in Tids : ~Live(u)
      BY <1>6 DEF Create, StopInv, NoneLiveAt
    <2>2. upc = "create" /\ upc' = "idle" /\ pc' = [pc EXCEPT ![t] = "copy"]
      BY <1>6 DEF Create
    <2>3. \A u \in Tids : Live(u)' => u = t
      BY <1>p, <2>1, <2>2 DEF Live
    <2>4. handle' = t /\ running' /\ nThreads' = 1 /\ freed' = freed
      BY <1>6, <2>2 DEF Create, StopInv, CreateIsRunning
    <2> QED
      BY <1>p, <2>2, <2>3, <2>4
      DEF StopInv, LiveIsRunning, NoneLiveAt, CreateIsRunning, FreedAtExit,
          WorkerPcs
  <1>7. CASE CreateFails
    <2>1. \A u \in Tids : ~Live(u)
      BY <1>7 DEF CreateFails, StopInv, NoneLiveAt
    <2> QED
      BY <1>7, <1>p, <2>1, NoneLiveKeepsStopInv
      DEF CreateFails, StopInv, FreedAtExit, Live
  <1>8. CASE Wait
    <2>1. CASE upc' = "join"
      BY <1>8, <2>1 DEF Wait, StopInv, LiveIsRunning, NoneLiveAt,
                        CreateIsRunning, FreedAtExit, Live
    <2>2. CASE upc' # "join"
      <3>1. \A u \in Tids : ~Live(u)
        BY <1>8, <2>2, WaitLeavesNoneLive
      <3> QED
        BY <1>8, <1>p, <3>1, NoneLiveKeepsStopInv
        DEF Wait, ReturnTo, StopInv, FreedAtExit, Live
    <2> QED BY <2>1, <2>2
  <1>9. CASE Join
    <2>1. \A u \in Tids : ~Live(u)
      BY <1>9, WaitLeavesNoneLive
    <2> QED
      BY <1>9, <1>p, <2>1, NoneLiveKeepsStopInv
      DEF Join, ReturnTo, StopInv, FreedAtExit, Live, WorkerPcs
  <1>10. CASE JoinInvalid
    <2>1. \A u \in Tids : ~Live(u)
      BY <1>10, WaitLeavesNoneLive
    <2> QED
      BY <1>10, <1>p, <2>1, NoneLiveKeepsStopInv
      DEF JoinInvalid, ReturnTo, StopInv, FreedAtExit, Live
  <1>11. CASE Free \/ Exit
    BY <1>11 DEF Free, Exit, StopInv, LiveIsRunning, NoneLiveAt,
                 CreateIsRunning, FreedAtExit, Live
  <1>12. ASSUME NEW t \in Tids, WorkerStep(t) PROVE StopInv'
    <2> USE <1>p DEF At, GoTo, WorkerPcs
    <2>1. CASE Copy(t)
      BY <2>1, ThreadsKeepStopInv DEF Copy, Live
    <2>2. CASE PollStop(t) \/ UnwindSearch(t)
      BY <2>2, ThreadsKeepStopInv DEF PollStop, UnwindSearch, StopTrue, Live
    <2>3. CASE PollGoOn(t) \/ FinishSearch(t)
      BY <2>3, ThreadsKeepStopInv DEF PollGoOn, FinishSearch, Live
    <2>4. CASE EnterRootSearch(t) \/ VisitNode(t)
      BY <2>4, ThreadsKeepStopInv
      DEF EnterRootSearch, VisitNode, CountNode, Live
    <2>5. CASE Bump(t) \/ Release(t) \/ Report(t)
      BY <2>5, ThreadsKeepStopInv DEF Bump, Release, Report, Live
    <2>6. CASE ClearRunning(t)
      <3>1. Live(t) /\ \A u \in Tids : Live(u) => u = t
        BY <2>6 DEF ClearRunning, StopInv, LiveIsRunning, Live
      <3>3. upc' \notin {"create", "free", "exit"} /\ freed' = freed
        BY <2>6, <3>1 DEF ClearRunning, StopInv, NoneLiveAt
      <3>2. \A u \in Tids : ~Live(u)'
        BY <2>6, <3>1 DEF ClearRunning, Live
      <3> QED
        BY <2>6, <3>2, <3>3, NoneLiveKeepsStopInv
        DEF ClearRunning, StopInv, NoneLiveAt, FreedAtExit
    <2> QED
      BY <1>12, <2>1, <2>2, <2>3, <2>4, <2>5, <2>6 DEF WorkerStep
  <1>13. CASE ClockExpires
    BY <1>13, <1>p, ThreadsKeepStopInv DEF ClockExpires, Live
  <1>14. CASE UNCHANGED vars
    BY <1>14, <1>p, ThreadsKeepStopInv DEF vars, Live
  <1> QED
    BY <1>1, <1>2, <1>3, <1>4, <1>5, <1>6, <1>7, <1>8, <1>9, <1>10, <1>11,
       <1>12, <1>13, <1>14 DEF Next, Command, UciStep

LEMMA AlwaysStopInv ==
  ASSUME GuiLingers = TRUE
  PROVE  Spec => []StopInv
  <1>1. Init => StopInv
    BY DEF Init, StopInv, LiveIsRunning, NoneLiveAt, CreateIsRunning,
           FreedAtExit, Live, WorkerPcs
  <1>2. StopInv /\ [Next]_vars => StopInv'
    BY StepStopInv
  <1> QED
    BY <1>1, <1>2, PTL DEF Spec

\* bot_release frees nothing that a worker may still use, if the GUI lingers.
THEOREM FreeIsSafe ==
  ASSUME GuiLingers = TRUE
  PROVE  Spec => []NoUseAfterFree
  <1>1. StopInv => NoUseAfterFree
    BY DEF StopInv, NoneLiveAt, FreedAtExit, NoUseAfterFree, Busy
  <1> QED
    BY <1>1, AlwaysStopInv, PTL

\* stop returns only when the search is over, if the GUI lingers.
THEOREM StopDoesWait ==
  ASSUME GuiLingers = TRUE
  PROVE  Spec => StopWaits
  <1>1. ASSUME StopInv, [Next]_vars,
               ret = "stop", upc \in {"wait", "join"}, upc' = "idle"
        PROVE  \A t \in Tids : ~Busy(t)
    <2> USE DEF botVars, workerVars, uciVars, histVars
    <2>1. Wait \/ Join \/ JoinInvalid
      BY <1>1
      DEF Next, Command, UciStep, WorkerStep, vars, Idle, Uci, Position,
          PositionBadMoves, Go, GoPonder, Ponderhit, Stop, Quit, CallStop,
          Create, CreateFails, Free, Exit, Copy, PollStop, StopTrue, PollGoOn,
          EnterRootSearch, VisitNode, CountNode, UnwindSearch, FinishSearch,
          Bump, Release, Report, ClearRunning, ClockExpires
    <2>2. \A t \in Tids : ~Live(t)
      BY <1>1, <2>1, WaitLeavesNoneLive
    <2> QED
      BY <2>2 DEF Busy
  <1> QED
    BY <1>1, AlwaysStopInv, PTL DEF Spec, StopWaits

-----------------------------------------------------------------------------
(* The depth limit.  The depth moves on only in Bump, when the one worker    *)
(* there is has left its search.                                             *)

\* A step after which every searching thread was already searching, with the
\* limit it has now and at no greater a depth.
LEMMA SearchKeepsDepth ==
  ASSUME SearchInv, DepthLimitRespected, cond' = cond,
         depth' = depth \/ depth' = 0,
         \A t \in Tids : pc'[t] \in {"enter", "search"}
                           => pc[t] \in {"enter", "search"}
  PROVE  DepthLimitRespected'
  <1>1. cond.depth \in Nat
    BY BoundAssumption DEF SearchInv, TypeOK, Limits
  <1>2. CASE depth' = depth
    BY <1>2 DEF DepthLimitRespected
  <1>3. CASE depth' = 0
    BY <1>1, <1>3 DEF DepthLimitRespected
  <1> QED
    BY <1>2, <1>3

\* A step after which no thread searches.
LEMMA NobodySearches ==
  ASSUME \A t \in Tids : pc'[t] \notin {"enter", "search"}
  PROVE  DepthLimitRespected'
  BY DEF DepthLimitRespected

LEMMA StepDepthLimit ==
  ASSUME SearchInv, DepthLimitRespected, [Next]_vars
  PROVE  DepthLimitRespected'
  <1> USE DEF botVars, workerVars, uciVars, histVars
  <1>p. pc \in [Tids -> WorkerPcs]
    BY DEF SearchInv, TypeOK
  <1>q. pending = 0 => \A t \in Tids : pc[t] \notin {"enter", "search"}
    BY DEF SearchInv, OneSearch, BusyPending, Busy, Live
  <1>1. CASE Uci \/ GoPonder
    BY <1>1, <1>q, NobodySearches DEF Uci, GoPonder, Answered
  <1>2. ASSUME NEW c \in Conditions, Go(c) PROVE DepthLimitRespected'
    BY <1>2, <1>q, NobodySearches DEF Go, Answered
  <1>3. ASSUME NEW p \in Positions, Position(p) PROVE DepthLimitRespected'
    BY <1>3, SearchKeepsDepth DEF Position
  <1>4. CASE PositionBadMoves \/ Ponderhit \/ Stop \/ Quit
    BY <1>4, SearchKeepsDepth
    DEF PositionBadMoves, Ponderhit, Stop, Quit, CallStop
  <1>5. ASSUME NEW t \in Tids, Create(t) PROVE DepthLimitRespected'
    BY <1>5, <1>p, SearchKeepsDepth DEF Create
  <1>6. CASE CreateFails \/ Wait \/ JoinInvalid \/ Free \/ Exit
    BY <1>6, SearchKeepsDepth DEF CreateFails, Wait, JoinInvalid, Free, Exit
  <1>7. CASE Join
    BY <1>7, <1>p, SearchKeepsDepth DEF Join
  <1>8. ASSUME NEW t \in Tids, WorkerStep(t) PROVE DepthLimitRespected'
    <2> USE <1>p DEF At, GoTo
    <2>1. CASE Copy(t) \/ Release(t) \/ Report(t) \/ ClearRunning(t)
      BY <2>1, SearchKeepsDepth DEF Copy, Release, Report, ClearRunning
    <2>2. CASE PollStop(t) \/ UnwindSearch(t)
      BY <2>2, SearchKeepsDepth DEF PollStop, UnwindSearch, StopTrue
    <2>3. CASE PollGoOn(t)
      <3>1. cond.depth > 0 => depth <= cond.depth
        BY <2>3, BoundAssumption
        DEF PollGoOn, LimitReached, SearchInv, TypeOK, Limits
      <3> QED
        BY <2>3, <3>1 DEF PollGoOn, DepthLimitRespected
    <2>4. CASE EnterRootSearch(t) \/ VisitNode(t)
      BY <2>4, SearchKeepsDepth DEF EnterRootSearch, VisitNode, CountNode
    <2>5. CASE FinishSearch(t)
      BY <2>5, SearchKeepsDepth DEF FinishSearch
    <2>6. CASE Bump(t)
      <3>1. \A u \in Tids : pc[u] \in {"enter", "search"} => u = t
        BY <2>6 DEF Bump, SearchInv, OneSearch, BusyUnique, Busy, Live
      <3> QED
        BY <2>6, <3>1, NobodySearches DEF Bump
    <2> QED
      BY <1>8, <2>1, <2>2, <2>3, <2>4, <2>5, <2>6 DEF WorkerStep
  <1>9. CASE ClockExpires
    BY <1>9, SearchKeepsDepth DEF ClockExpires
  <1>10. CASE UNCHANGED vars
    BY <1>10, SearchKeepsDepth DEF vars
  <1> QED
    BY <1>1, <1>2, <1>3, <1>4, <1>5, <1>6, <1>7, <1>8, <1>9, <1>10
    DEF Next, Command, UciStep

\* go depth n never runs an iteration deeper than n, ponderhit or not.
THEOREM DepthIsLimited == Spec => []DepthLimitRespected
  <1>1. Init => DepthLimitRespected
    BY DEF Init, DepthLimitRespected
  <1> QED
    BY <1>1, AlwaysSearchInv, StepDepthLimit, PTL DEF Spec

-----------------------------------------------------------------------------
(* Refinement.  A question is pending only while the root is a position, and *)
(* once the worker has copied the root it stays what it copied.              *)

PendingHasRoot == pending = 1 => root \in Positions
CopyIsRoot == \A t \in Tids : Busy(t) /\ pc[t] # "copy" => workerRoot = root

RootInv == PendingHasRoot /\ CopyIsRoot

LEMMA SameRoots ==
  ASSUME RootInv, pending' = 1 => pending = 1, root' = root,
         workerRoot' = workerRoot,
         \A t \in Tids :
           Busy(t)' /\ pc'[t] # "copy" => Busy(t) /\ pc[t] # "copy"
  PROVE  RootInv'
  BY DEF RootInv, PendingHasRoot, CopyIsRoot

\* Between searches the root may change.
LEMMA NoneBusyKeepsRootInv ==
  ASSUME pending' = 1 => root' \in Positions, \A t \in Tids : ~Busy(t)'
  PROVE  RootInv'
  BY DEF RootInv, PendingHasRoot, CopyIsRoot

LEMMA StepRootInv ==
  ASSUME SearchInv, RootInv, [Next]_vars
  PROVE  RootInv'
  <1> USE DEF botVars, workerVars, uciVars, histVars
  <1>p. pc \in [Tids -> WorkerPcs]
    BY DEF SearchInv, TypeOK
  <1>q. pending = 0 => \A t \in Tids : ~Busy(t)
    BY DEF SearchInv, OneSearch, BusyPending
  <1>1. CASE Uci \/ PositionBadMoves
    BY <1>1, <1>q, NoneBusyKeepsRootInv
    DEF Uci, PositionBadMoves, Answered, Busy, Live
  <1>2. ASSUME NEW p \in Positions, Position(p) PROVE RootInv'
    BY <1>2, <1>q, NoneBusyKeepsRootInv DEF Position, Answered, Busy, Live
  <1>3. ASSUME NEW c \in Conditions, Go(c) PROVE RootInv'
    <2>1. root' \in Positions
      BY <1>3 DEF Go, SearchInv, TypeOK
    <2> QED
      BY <1>3, <1>q, <2>1, NoneBusyKeepsRootInv DEF Go, Answered, Busy, Live
  <1>4. CASE GoPonder \/ Ponderhit \/ Stop \/ Quit
    BY <1>4, SameRoots
    DEF GoPonder, Ponderhit, Stop, Quit, CallStop, Busy, Live
  <1>5. ASSUME NEW t \in Tids, Create(t) PROVE RootInv'
    BY <1>5, <1>p, SameRoots DEF Create, Busy, Live
  <1>6. CASE CreateFails \/ Wait \/ JoinInvalid \/ Free \/ Exit
    BY <1>6, SameRoots
    DEF CreateFails, Wait, JoinInvalid, Free, Exit, Busy, Live
  <1>7. CASE Join
    BY <1>7, <1>p, SameRoots DEF Join, Busy, Live
  <1>8. ASSUME NEW t \in Tids, WorkerStep(t) PROVE RootInv'
    <2> USE <1>p DEF At, GoTo
    <2>1. CASE Copy(t)
      BY <2>1 DEF Copy, RootInv, PendingHasRoot, CopyIsRoot
    <2>2. CASE PollStop(t) \/ UnwindSearch(t)
      BY <2>2, SameRoots DEF PollStop, UnwindSearch, StopTrue, Busy, Live
    <2>3. CASE PollGoOn(t) \/ FinishSearch(t)
      BY <2>3, SameRoots DEF PollGoOn, FinishSearch, Busy, Live
    <2>4. CASE EnterRootSearch(t) \/ VisitNode(t)
      BY <2>4, SameRoots DEF EnterRootSearch, VisitNode, CountNode, Busy, Live
    <2>5. CASE Bump(t) \/ Release(t) \/ ClearRunning(t)
      BY <2>5, SameRoots DEF Bump, Release, ClearRunning, Busy, Live
    <2>6. CASE Report(t)
      <3>1. pending' = 0
        BY <2>6 DEF Report, SearchInv, OneSearch, BusyPending, Busy, Live
      <3> QED
        BY <2>6, <3>1, SameRoots DEF Report, Busy, Live
    <2> QED
      BY <1>8, <2>1, <2>2, <2>3, <2>4, <2>5, <2>6 DEF WorkerStep
  <1>9. CASE ClockExpires
    BY <1>9, SameRoots DEF ClockExpires, Busy, Live
  <1>10. CASE UNCHANGED vars
    BY <1>10, SameRoots DEF vars, Busy, Live
  <1> QED
    BY <1>1, <1>2, <1>3, <1>4, <1>5, <1>6, <1>7, <1>8, <1>9, <1>10
    DEF Next, Command, UciStep

LEMMA AlwaysRootInv == Spec => []RootInv
  <1>1. Init => RootInv
    BY DEF Init, RootInv, PendingHasRoot, CopyIsRoot, Busy, Live
  <1> QED
    BY <1>1, AlwaysSearchInv, StepRootInv, PTL DEF Spec

\* A step that changes none of what the GUI can see.
LEMMA EngineStutters ==
  ASSUME proc' = proc, pending' = pending, root' = root, answer' = answer
  PROVE  [Engine!EngineNext]_(Engine!engineVars)
  BY DEF Engine!engineVars

LEMMA StepEngine ==
  ASSUME SearchInv, RootInv, [Next]_vars
  PROVE  [Engine!EngineNext]_(Engine!engineVars)
  <1> USE DEF botVars, workerVars, uciVars, histVars
  <1>1. CASE Uci \/ PositionBadMoves
    BY <1>1
    DEF Uci, PositionBadMoves, Idle, Answered, Engine!EngineNext,
        Engine!SetPosition
  <1>2. ASSUME NEW p \in Positions, Position(p)
        PROVE  [Engine!EngineNext]_(Engine!engineVars)
    BY <1>2
    DEF Position, Idle, Answered, Engine!EngineNext, Engine!SetPosition
  <1>3. ASSUME NEW c \in Conditions, Go(c)
        PROVE  [Engine!EngineNext]_(Engine!engineVars)
    BY <1>3
    DEF Go, Idle, Answered, SearchInv, TypeOK, Engine!EngineNext, Engine!Ask
  <1>4. CASE GoPonder \/ Ponderhit \/ Stop \/ Quit
    BY <1>4, EngineStutters DEF GoPonder, Ponderhit, Stop, Quit, CallStop
  <1>5. ASSUME NEW t \in Tids, Create(t)
        PROVE  [Engine!EngineNext]_(Engine!engineVars)
    BY <1>5, EngineStutters DEF Create
  <1>6. CASE CreateFails \/ Wait \/ Join \/ Free
    BY <1>6, EngineStutters DEF CreateFails, Wait, Join, Free
  <1>7. CASE JoinInvalid
    <2>1. CASE proc' = "up"
      BY <1>7, <2>1, EngineStutters DEF JoinInvalid
    <2>2. CASE proc' # "up"
      BY <1>7, <2>2 DEF JoinInvalid, Engine!EngineNext, Engine!Close
    <2> QED BY <2>1, <2>2
  <1>8. CASE Exit
    BY <1>8 DEF Exit, Engine!EngineNext, Engine!Close
  <1>9. ASSUME NEW t \in Tids, WorkerStep(t)
        PROVE  [Engine!EngineNext]_(Engine!engineVars)
    <2> USE DEF At
    <2>1. CASE Copy(t) \/ PollGoOn(t) \/ FinishSearch(t) \/ Bump(t)
      BY <2>1, EngineStutters DEF Copy, PollGoOn, FinishSearch, Bump
    <2>2. CASE PollStop(t) \/ UnwindSearch(t)
      BY <2>2, EngineStutters DEF PollStop, UnwindSearch, StopTrue
    <2>3. CASE EnterRootSearch(t) \/ VisitNode(t)
      BY <2>3, EngineStutters DEF EnterRootSearch, VisitNode, CountNode
    <2>4. CASE Release(t) \/ ClearRunning(t)
      BY <2>4, EngineStutters DEF Release, ClearRunning
    <2>5. CASE Report(t)
      <3>1. Busy(t) /\ pc[t] # "copy" /\ proc = "up"
        BY <2>5 DEF Report, Busy, Live
      <3>2. pending = 1 /\ workerRoot = root
        BY <3>1 DEF SearchInv, OneSearch, BusyPending, RootInv, CopyIsRoot
      <3> QED
        BY <2>5, <3>1, <3>2 DEF Report, Engine!EngineNext, Engine!Answer
    <2> QED
      BY <1>9, <2>1, <2>2, <2>3, <2>4, <2>5 DEF WorkerStep
  <1>10. CASE ClockExpires
    BY <1>10, EngineStutters DEF ClockExpires
  <1>11. CASE UNCHANGED vars
    BY <1>11, EngineStutters DEF vars
  <1> QED
    BY <1>1, <1>2, <1>3, <1>4, <1>5, <1>6, <1>7, <1>8, <1>9, <1>10, <1>11
    DEF Next, Command, UciStep

\* The two threads implement the engine the GUI relies on: one answer to each
\* question, for the position the question was about.
THEOREM BotIsAnEngine == Spec => EngineSpec
  <1>1. Init => Engine!EngineInit
    BY DEF Init, Engine!EngineInit
  <1>2. SearchInv /\ RootInv /\ [Next]_vars
          => [Engine!EngineNext]_(Engine!engineVars)
    BY StepEngine
  <1> QED
    BY <1>1, <1>2, AlwaysSearchInv, AlwaysRootInv, PTL
    DEF Spec, EngineSpec, Engine!EngineSpec
=============================================================================
