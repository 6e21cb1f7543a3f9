------------------------------ MODULE Windows ------------------------------
(***************************************************************************)
(* What a search with a window promises its caller (src/src/search.c): the *)
(* part of the contract of abSearch that Search provides and RootSearch    *)
(* relies on.                                                              *)
(***************************************************************************)
EXTENDS Integers

\* r is what a fail-soft search may return for the window alpha .. beta if the
\* score is low .. high: below beta it is at least the score, above alpha it is
\* at most the score.
FailSoft(r, low, high, alpha, beta) ==
  /\ r < beta => low <= r
  /\ r > alpha => r <= high
=============================================================================
