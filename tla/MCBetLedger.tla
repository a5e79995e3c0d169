---------------------------- MODULE MCBetLedger ----------------------------
(* Instance of BetLedger and DailySpend for TLC: the processing thread and *)
(* an API thread.                                                          *)
EXTENDS DailySpend, TLC

CONSTANTS auto, api, b1, b2, b3

MCWorkers == {auto, api}
MCBets == {b1, b2, b3}

\* The first process finds nothing on the exchange; a later one finds what a crash left.
Scratch == DailyInit /\ InState(exState, "none") = Bets

FromScratch == Scratch /\ [][DailyNext]_dailyVars

\* One bet at most settles or lapses.
OneLeaves == Cardinality({b \in Bets : exState[b] \in {"settled", "gone"}}) <= 1

Symmetry == Permutations(MCWorkers) \union Permutations(MCBets)
=============================================================================
