------------------------- MODULE MCStreamLifecycle -------------------------
(* Instances of StreamLifecycle for TLC. *)
EXTENDS StreamLifecycle

CONSTANTS r1, r2

MCRequests == {lifespan, r1, r2}
MCTwoRequests == {lifespan, r1}
=============================================================================
