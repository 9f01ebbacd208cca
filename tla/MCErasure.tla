----------------------------- MODULE MCErasure ------------------------------
(* Erasure for TLC: two API replicas, the retention sweep and the clean-up *)
(* of orphans, on one job.                                                 *)
EXTENDS Erasure, TLC

ReplicaSymmetry == Permutations(Replicas)
=============================================================================
