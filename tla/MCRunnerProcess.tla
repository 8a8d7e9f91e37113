--------------------------- MODULE MCRunnerProcess ---------------------------
(* A small clock: a token lives 7 steps and is renewed 6 before its end.     *)
EXTENDS RunnerProcess
==============================================================================
