--------------------------- MODULE MCResultAttempts -------------------------
(* ResultAttempts for TLC: interchangeable runs, attempts and results.     *)
EXTENDS ResultAttempts, TLC

RunSymmetry == Permutations(Writers) \cup Permutations(Attempts) \cup Permutations(Results)
=============================================================================
