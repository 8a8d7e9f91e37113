----------------------------- MODULE MCCardRuns -----------------------------
(* Small instances of CardRuns: cards, runs and handlers are                *)
(* interchangeable.                                                         *)
EXTENDS CardRunsRefinement, TLC

Symmetry == Permutations(Keys) \cup Permutations(Owners) \cup Permutations(Handlers)
==============================================================================
