----------------------------- MODULE MCSession -----------------------------
(* The instances of Session that TLC checks: the constants are in the      *)
(* configurations.                                                         *)
EXTENDS Session
=============================================================================
