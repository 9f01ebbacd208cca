-------------------------- MODULE MCArtifactMigration -----------------------
(* ArtifactMigration for TLC: interchangeable runs, migrants and attempts. *)
EXTENDS ArtifactMigration, TLC

MigrationSymmetry == Permutations(Writers) \cup Permutations(Migrants) \cup Permutations(Attempts)
=============================================================================
