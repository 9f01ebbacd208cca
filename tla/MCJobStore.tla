----------------------------- MODULE MCJobStore -----------------------------
(* JobStore for TLC: three interchangeable callers of one transcription    *)
(* job, which issue the conditional operations to a store on either kind   *)
(* of backend, the one that compares versions and the ones that decide and *)
(* write in one step.                                                      *)
EXTENDS JobStore, TLC

VARIABLE backend

OneStep == INSTANCE JobStore WITH Backend <- "postgres"

ConditionalRequests ==
    { [op |-> "startPhase", phase |-> p] : p \in {"validating", "transcribing", "diarizing"} }
      \cup { [op |-> "reportProgress", phase |-> "transcribing", current |-> n] : n \in 0 .. 1 }
      \cup { [op |-> "finish", result |-> r] : r \in Results }
      \cup { [op |-> "finishFailed"], [op |-> "remove"] }

StoreInit == Init /\ backend \in {"redis", "postgres"}

StoreNext ==
    \/ backend = "redis" /\ Next /\ UNCHANGED backend
    \/ backend = "postgres" /\ OneStep!Next /\ UNCHANGED backend

StoreSpec == StoreInit /\ [][StoreNext]_<<vars, backend>>

CallerSymmetry == Permutations(Callers)
=============================================================================
