------------------------------ MODULE MCClient ------------------------------
(* The instances of Client that TLC checks.  The streams are               *)
(* interchangeable in the safety runs.                                     *)
EXTENDS Client, TLC

StreamSymmetry == Permutations(Streams)
=============================================================================
