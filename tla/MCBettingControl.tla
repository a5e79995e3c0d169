-------------------------- MODULE MCBettingControl --------------------------
(* Instances of BettingControl for TLC. *)
EXTENDS BettingControl, TLC

CONSTANTS r1, r2, api

MCRequests == {r1, r2}
MCManual == {api}
MCScripts == {StartLive, StartDryRun, SetFlag("manual_betting", TRUE)}
MCDryRunOnly == {StartDryRun}
=============================================================================
