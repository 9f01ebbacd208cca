------------------------------ MODULE MCFsStore ------------------------------
(* FsStore for TLC: interchangeable attempts of one job.                   *)
EXTENDS FsStore, TLC

(* Bound: of the two attempts of the job at most one is erased.           *)
OneErased == \A k, l \in erased : k = l

KeySymmetry == Permutations(Keys)
=============================================================================
