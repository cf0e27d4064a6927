------------------------------ MODULE MCFlight ------------------------------
(* Warp 1 is two units, so that impulse and warp differ in speed; a rated top *)
(* speed of three may be exceeded by one, weakened, and lost altogether.      *)
EXTENDS Flight
=============================================================================
