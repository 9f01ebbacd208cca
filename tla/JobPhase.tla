------------------------------ MODULE JobPhase ------------------------------
(***************************************************************************)
(* The pure authority over a job's life: utils/jobPhase.js and the parts   *)
(* of utils/jobStore/common.js that decide or build a job record.  No      *)
(* state: every operator takes a record and says what is refused, or       *)
(* returns the next record.                                                *)
(*                                                                         *)
(* A record keeps the fields the properties tell apart.  A timestamp, an   *)
(* actor, an error text or an attempt count never decides anything here    *)
(* and is left out.                                                        *)
(***************************************************************************)
EXTENDS Naturals

CONSTANTS
    Results,    \* the results a run may produce, up to canonical equality
    NoResult,   \* job.result = null
    Units       \* progress.total: the number of progress units of a phase

ASSUME ResultsAssumption == NoResult \notin Results
ASSUME UnitsAssumption == Units \in Nat \ {0}

Statuses == {"queued", "processing", "completed", "failed", "cancelled"}
TERMINAL == {"completed", "failed", "cancelled"}
JobTypes == {"transcription", "protocol"}

NoPhase == "none"
Phases == {"validating", "transcribing", "diarizing", "merging", "generating_protocol"}

(* GRAPHS: the edges of each type's phase graph; a job enters at NoPhase.  *)
GRAPHS ==
    [transcription |-> { <<NoPhase, "validating">>, <<"validating", "transcribing">>,
                         <<"transcribing", "diarizing">>, <<"diarizing", "merging">> },
     protocol      |-> { <<NoPhase, "validating">>,
                         <<"validating", "generating_protocol">> }]

phasesForType(type) == { p \in Phases : \E q \in Phases \cup {NoPhase} : <<q, p>> \in GRAPHS[type] }

(* progressKnown = FALSE is NoProgress; otherwise progress.current.        *)
NoProgress == Units + 1
Progress == 0 .. Units

Job == [ type     : JobTypes,
         status   : Statuses,
         phase    : Phases \cup {NoPhase},
         progress : Progress \cup {NoProgress},
         result   : Results \cup {NoResult},
         audioKey : BOOLEAN,     \* storageKey still names the source audio
         cleanup  : BOOLEAN,     \* audio_cleanup_pending
         version  : Nat ]

newJob(type) ==
    [type |-> type, status |-> "queued", phase |-> NoPhase, progress |-> NoProgress,
     result |-> NoResult, audioKey |-> TRUE, cleanup |-> FALSE, version |-> 1]

isFinished(j) == j.status \in TERMINAL

(* What jobPhase relies on in the record it starts from: a job that runs   *)
(* has a phase of its own graph, a job that waits has none.                *)
ConsistentSource(j) ==
    \/ j.status = "queued" /\ j.phase = NoPhase
    \/ j.status = "processing" /\ j.phase \in phasesForType(j.type)

-----------------------------------------------------------------------------
(* What each operation refuses, by the code of the error it throws; "none" *)
(* when it goes ahead.                                                     *)

assertConsistentJobRecord(j) ==
    IF isFinished(j) THEN "JOB_ALREADY_TERMINAL"
    ELSE IF ~ConsistentSource(j) THEN "INVALID_STATUS_PHASE" ELSE "none"

startPhaseRefusal(j, p) ==
    IF p \notin phasesForType(j.type) THEN "PHASE_NOT_ALLOWED_FOR_TYPE"
    ELSE IF assertConsistentJobRecord(j) # "none" THEN assertConsistentJobRecord(j)
    ELSE IF <<j.phase, p>> \notin GRAPHS[j.type] THEN "ILLEGAL_TRANSITION" ELSE "none"

restartRefusal(j) == assertConsistentJobRecord(j)

(* finish() leaves a record whose phase and status disagree a way out: it  *)
(* checks the status only.                                                 *)
finishRefusal_AnyEnd(j, status, result) ==
    IF status = "completed" /\ result = NoResult THEN "COMPLETED_REQUIRES_RESULT" ELSE "none"

finishRefusal(j, status, result) ==
    IF isFinished(j) THEN "JOB_ALREADY_TERMINAL"
    ELSE IF j.status = "queued" /\ status = "completed" THEN "ILLEGAL_TERMINAL_TRANSITION"
    ELSE IF status = "completed" /\ result = NoResult THEN "COMPLETED_REQUIRES_RESULT"
    ELSE "none"

(* A progress event names the phase it was measured in; a late one, one of *)
(* another phase, or one that goes back is dropped without an error.       *)
progressAccepted_AnyOrder(j, event) ==
    j.status = "processing" /\ ConsistentSource(j) /\ event.phase = j.phase

progressAccepted(j, event) ==
    /\ j.status = "processing"
    /\ ConsistentSource(j)
    /\ event.phase = j.phase
    /\ j.progress # NoProgress => event.current >= j.progress

-----------------------------------------------------------------------------
(* applyPatch of each operation's patch: every write is a new version.     *)

PhaseStarted(j, p) ==
    [j EXCEPT !.status = "processing", !.phase = p, !.progress = NoProgress,
              !.version = @ + 1]

Restarted(j) == PhaseStarted(j, "validating")

Progressed(j, event) == [j EXCEPT !.progress = event.current, !.version = @ + 1]

Finished_PhaseKept(j, status, result) ==
    [j EXCEPT !.status = status, !.progress = NoProgress,
              !.result = IF status = "completed" THEN result ELSE @,
              !.version = @ + 1]

Finished(j, status, result) ==
    [j EXCEPT !.status = status, !.phase = NoPhase, !.progress = NoProgress,
              !.result = IF status = "completed" THEN result ELSE @,
              !.version = @ + 1]

(* releaseAudio() after the file is gone, and after it could not be        *)
(* removed.                                                                *)
AudioReleased(j) == [j EXCEPT !.audioKey = FALSE, !.cleanup = FALSE, !.version = @ + 1]
AudioKept_Silent(j) == [j EXCEPT !.audioKey = TRUE, !.version = @ + 1]
AudioKept(j) == [j EXCEPT !.audioKey = TRUE, !.cleanup = TRUE, !.version = @ + 1]

(* The failed handler's note of an attempt that will be retried.           *)
AttemptNoted(j) == [j EXCEPT !.version = @ + 1]

-----------------------------------------------------------------------------
(* idempotentiskasAtsakymas: a finish(COMPLETED) that meets a completed    *)
(* job is answered from what is stored and writes nothing.                 *)
idempotentiskasAtsakymas(j, status, result) ==
    IF j.status # "completed" \/ status # "completed" THEN "undefined"
    ELSE IF j.result = NoResult THEN "COMPLETED_WITHOUT_RESULT"
    ELSE IF j.result = result THEN "ok" ELSE "RESULT_CONFLICT"

(* sprendimasPriesRestart: what a run does with the record it finds.       *)
sprendimasPriesRestart(j) ==
    CASE j.status \in {"failed", "cancelled"}                  -> "JAU_TERMINALUS"
      [] j.status = "completed" /\ j.result = NoResult         -> "REMONTUOTINA"
      [] j.status = "completed" /\ j.result # NoResult         -> "IDEMPOTENTISKA_SEKME"
      [] OTHER                                                 -> "VYKDYTI"

(* arGalimaSalintiAudio: the barrier before the source audio is removed.   *)
arGalimaSalintiAudio(j) ==
    isFinished(j) /\ sprendimasPriesRestart(j) # "REMONTUOTINA"
=============================================================================
