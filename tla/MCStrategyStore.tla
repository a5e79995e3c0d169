-------------------------- MODULE MCStrategyStore --------------------------
(* Instances of StrategyStore for TLC. *)
EXTENDS StrategyStore, TLC

CONSTANTS r1, r2, shipped, authored

MCRequests == {r1, r2}
MCNames == {shipped, authored}
MCShipped == {shipped}
MCSymmetry == Permutations(MCRequests)
=============================================================================
