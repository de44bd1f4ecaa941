------------------------------ MODULE MCServer ------------------------------
(* The instance of Server that TLC checks.                                 *)
EXTENDS Server
=============================================================================
