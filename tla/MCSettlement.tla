---------------------------- MODULE MCSettlement ----------------------------
(* Instances of Settlement for TLC. *)
EXTENDS Settlement

CONSTANTS b1, b2

MCBets == {b1, b2}
=============================================================================
