----------------------------- MODULE UciEngine -----------------------------
(***************************************************************************)
(* What a UCI engine promises the program on the other end of its pipes,   *)
(* with nothing said of threads: one question at a time, one answer to     *)
(* each question, and the answer is for the position that was asked about. *)
(* The phases are those the GUI side relies on: uci_send_position and      *)
(* uci_send_go, then uci_read_bestmove (chess-gui/src/uci-api.c).          *)
(***************************************************************************)
CONSTANTS
  Positions,     \* the positions a game is made of
  NoPosition     \* no position is loaded

VARIABLES
  phase,         \* "idle", "thinking" or "closed"
  position,      \* the position the engine would search
  answer         \* the position the last bestmove was computed for

engineVars == <<phase, position, answer>>

EngineTypeOK ==
  /\ phase \in {"idle", "thinking", "closed"}
  /\ position \in Positions \union {NoPosition}
  /\ answer \in Positions \union {NoPosition}

EngineInit ==
  /\ phase = "idle"
  /\ position = NoPosition
  /\ answer = NoPosition

\* position, ucinewgame, or uci which forgets the position: only between
\* searches does the root of the search change.
SetPosition ==
  /\ phase = "idle"
  /\ position' \in Positions \union {NoPosition}
  /\ UNCHANGED <<phase, answer>>

Ask ==
  /\ phase = "idle"
  /\ position \in Positions
  /\ phase' = "thinking"
  /\ UNCHANGED <<position, answer>>

Answer ==
  /\ phase = "thinking"
  /\ phase' = "idle"
  /\ answer' = position
  /\ UNCHANGED position

Close ==
  /\ phase # "closed"
  /\ phase' = "closed"
  /\ UNCHANGED <<position, answer>>

EngineNext == SetPosition \/ Ask \/ Answer \/ Close

EngineSpec == EngineInit /\ [][EngineNext]_engineVars
=============================================================================
