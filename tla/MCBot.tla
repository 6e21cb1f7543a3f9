------------------------------- MODULE MCBot -------------------------------
(* Small instances of Bot: the termination conditions go is called with.    *)
EXTENDS Bot

MCConditions ==
  { NoLimits,
    [NoLimits EXCEPT !.time = TRUE],
    [NoLimits EXCEPT !.nodes = 1],
    [NoLimits EXCEPT !.depth = 1] }

MCTimeOnly == { [NoLimits EXCEPT !.time = TRUE] }
=============================================================================
