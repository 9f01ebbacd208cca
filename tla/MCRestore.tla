------------------------------ MODULE MCRestore -----------------------------
(* Restore for TLC: two restores, one job of the backup, one new job.      *)
EXTENDS Restore, TLC

RestoreSymmetry == Permutations(Holders)
MCDeployments == {<<"inline", "memory">>, <<"queue", "postgres">>}
=============================================================================
