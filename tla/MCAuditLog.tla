----------------------------- MODULE MCAuditLog -----------------------------
(* AuditLog for TLC. *)
EXTENDS AuditLog, TLC

Symmetric == Permutations(Replicas) \cup Permutations(Generations)
=============================================================================
