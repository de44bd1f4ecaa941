------------------------------ MODULE MCQueue ------------------------------
(* The instances of Queue that TLC checks: the constants are in the        *)
(* configurations.                                                         *)
EXTENDS Queue
=============================================================================
