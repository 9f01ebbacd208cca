---------------------------- MODULE JobLifecycle ----------------------------
(***************************************************************************)
(* What the job store promises to the rest of the system, whichever        *)
(* backend holds the records and however many callers work on one job:     *)
(* a job waits, runs, and ends once.  A completed job has a result and     *)
(* keeps it; no ended job runs again; a removed job does not come back.    *)
(***************************************************************************)
CONSTANTS Results, NoResult

VARIABLES stage, value

lifeVars == <<stage, value>>

Init == stage = "queued" /\ value = NoResult

(* Restarts and phase changes of a running job are steps inside            *)
(* "processing".                                                           *)
Run == stage = "queued" /\ stage' = "processing" /\ UNCHANGED value

Complete == /\ stage = "processing"
            /\ stage' = "completed"
            /\ value' \in Results

GiveUp == /\ stage \in {"queued", "processing"}
          /\ stage' \in {"failed", "cancelled"}
          /\ UNCHANGED value

Remove == stage # "removed" /\ stage' = "removed" /\ value' = NoResult

Next == Run \/ Complete \/ GiveUp \/ Remove

Spec == Init /\ [][Next]_lifeVars
=============================================================================
