------------------------------ MODULE MCPoller ------------------------------
(* The instances of Poller that TLC checks.  The callers of open are       *)
(* interchangeable in the safety run.                                      *)
EXTENDS Poller, TLC

OpenerSymmetry == Permutations(Openers)
=============================================================================
