-------------------------- MODULE ArtifactMigration --------------------------
(***************************************************************************)
(* The migration of inline results to the object store                     *)
(* (utils/artifactMigration.js), composed with what else works on the same *)
(* job in ResultAttempts: runs that finish it, its erasure and the         *)
(* retention sweep.  A migrant is one start of scripts/migrate-artifacts,  *)
(* a process of its own that takes no part in the locks of the API server; *)
(* it copies the inline result to an object, registered as an attempt, and *)
(* then exchanges the two in one transaction.                              *)
(***************************************************************************)
EXTENDS ResultAttempts

CONSTANTS
    Migrants,
    Unfit        \* the results the boundary of the store refuses

ASSUME UnfitAssumption == Unfit \subseteq Results

VARIABLES
    inline,      \* job_results: the payload, or NoResult
    progress,    \* artifact_migration_progress: "none", "failed" or "done"
    migrant      \* migrant[m]: the row of the batch that m is at

migrationVars == <<inline, progress, migrant>>

allVars == <<vars, migrationVars>>

MigrantIdle == [at |-> "idle", value |-> NoResult, attempt |-> NoAttempt, fail |-> FALSE]

MigrantSteps == {"idle", "register", "put", "verify", "switch", "clean", "note", "failed"}

MTypeOK ==
    /\ TypeOK
    /\ inline \in Results \cup {NoResult} /\ progress \in {"none", "failed", "done"}
    /\ migrant \in [Migrants -> [at : MigrantSteps, value : Results \cup {NoResult},
                                 attempt : Attempts \cup {NoAttempt}, fail : BOOLEAN]]

(* The job is still to be finished; or one of its runs finished it, with   *)
(* an inline result, before the object store was introduced.               *)
MInit ==
    /\ NothingWritten /\ progress = "none"
    /\ migrant = [m \in Migrants |-> MigrantIdle]
    /\ \/ /\ job = "processing" /\ inline = NoResult
          /\ writer = [w \in Writers |-> WriterIdle]
       \/ /\ job = "completed" /\ inline \in Results
          /\ \E first \in Writers :
                writer = [w \in Writers |-> IF w = first THEN [WriterIdle EXCEPT !.at = "done"]
                                            ELSE WriterIdle]

-----------------------------------------------------------------------------
(* One row of a batch: perkeltiEilute().                                   *)

MigrantTo(m, step) == migrant' = [migrant EXCEPT ![m].at = step]
Leave(m) == migrant' = [migrant EXCEPT ![m] = MigrantIdle]
OnlyMigrant == UNCHANGED <<vars, inline, progress>>

(* KANDIDATAI_SQL and PAYLOAD_SQL: a batch is drawn up of inline rows,     *)
(* those that failed before only when the operator has them tried again;   *)
(* a row's payload is read when its turn comes, and the row passed over    *)
(* when it is no longer inline.  Then the boundary of the store is asked.  *)
Read(m) ==
    /\ migrant[m].at = "idle"
    /\ inline # NoResult
    /\ migrant' = [migrant EXCEPT ![m].at = IF inline \in Unfit THEN "failed" ELSE "register",
                                  ![m].value = inline]
    /\ OnlyMigrant

Barred_Never == FALSE   \* mutant: the mark is not asked for

(* assertNotBarredWithClient(), in the transaction of the registration and *)
(* under the lock that the mark is written with.                           *)
Barred == mark # "none"

(* A barred job is passed over; an error of the database ends the batch.   *)
MRegister(m) ==
    /\ migrant[m].at = "register"
    /\ \/ Leave(m) /\ UNCHANGED <<row, used>>
       \/ /\ ~ Barred
          /\ \E a \in Attempts \ used :
                /\ used' = used \cup {a}
                /\ row' = [row EXCEPT ![a] = [busena |-> "pending", age |-> 0]]
                /\ migrant' = [migrant EXCEPT ![m].at = "put", ![m].attempt = a]
    /\ UNCHANGED <<job, ref, result, object, mark, eraser, sweeper, writer, inline, progress>>

(* What fails is cleaned up first.  An error of this row is then noted as  *)
(* failed; an error of the store ends the batch and notes nothing.         *)
MFails(m, kinds) ==
    \E rowLevel \in kinds : migrant' = [migrant EXCEPT ![m].at = "clean", ![m].fail = rowLevel]

(* An object that is damaged on the way counts as absent: only verify(),   *)
(* which reads it all, tells it from one that is there.                    *)
MPut(m) ==
    /\ migrant[m].at = "put"
    /\ \/ object' \in {object, object \cup {migrant[m].attempt}} /\ MigrantTo(m, "verify")
       \/ object' \in {object, object \cup {migrant[m].attempt}} /\ MFails(m, BOOLEAN)
    /\ UNCHANGED <<job, ref, result, row, used, mark, eraser, sweeper, writer, inline, progress>>

Proven(a) == a \in object

MVerify(m) ==
    /\ migrant[m].at = "verify"
    /\ \/ IF Proven(migrant[m].attempt) THEN MigrantTo(m, "switch") ELSE MFails(m, {TRUE})
       \/ MFails(m, BOOLEAN)
    /\ OnlyMigrant

Unchanged_Form(m) == inline # NoResult   \* mutant: any inline payload will do

(* The condition of the UPDATE: still inline, with the payload that was    *)
(* copied.                                                                 *)
Unchanged(m) == inline = migrant[m].value

(* The transaction of the switch: the reference, the attempt and the       *)
(* progress, or nothing.  When COMMIT has been sent and fails, nobody      *)
(* knows, and the attempt is left to the sweep.                            *)
Switch(m) ==
    LET a == migrant[m].attempt IN
    /\ migrant[m].at = "switch" /\ Unchanged(m) /\ FenceHolds(a)
    /\ \/ /\ ref' = a /\ result' = migrant[m].value /\ inline' = NoResult
          /\ row' = isipareigoti(a) /\ progress' = "done"
       \/ UNCHANGED <<ref, result, inline, row, progress>>
    /\ Leave(m)
    /\ UNCHANGED <<job, object, used, mark, eraser, sweeper, writer>>

SwitchFails(m) ==
    /\ migrant[m].at = "switch"
    /\ \/ ~ Unchanged(m) /\ MFails(m, {TRUE})
       \/ MFails(m, {FALSE})
    /\ OnlyMigrant

MClean(m) ==
    /\ migrant[m].at = "clean"
    /\ object' \in Cleaned(migrant[m].attempt)
    /\ MigrantTo(m, "note")
    /\ UNCHANGED <<job, ref, result, row, used, mark, eraser, sweeper, writer, inline, progress>>

MNote(m) ==
    LET a == migrant[m].attempt IN
    /\ migrant[m].at = "note"
    /\ \/ row' = row
       \/ row[a].busena # "none" /\ row' = [row EXCEPT ![a].busena = "abandoned"]
    /\ IF migrant[m].fail THEN MigrantTo(m, "failed") ELSE Leave(m)
    /\ UNCHANGED <<job, ref, result, object, used, mark, eraser, sweeper, writer, inline, progress>>

(* irasytiNesekme(): whatever has become of the job meanwhile.             *)
NoteFailure(m) ==
    /\ migrant[m].at = "failed"
    /\ progress' = IF progress = "done" THEN "done" ELSE "failed"
    /\ Leave(m)
    /\ UNCHANGED <<vars, inline>>

MCrash(m) ==
    /\ migrant[m].at # "idle"
    /\ Leave(m)
    /\ OnlyMigrant

MigrantStep(m) ==
    \/ Read(m) \/ MRegister(m) \/ MPut(m) \/ MVerify(m)
    \/ Switch(m) \/ SwitchFails(m) \/ MClean(m) \/ MNote(m) \/ NoteFailure(m) \/ MCrash(m)

-----------------------------------------------------------------------------
(* What the others do to an inline result.                                 *)

(* A restored record or an update brings another inline result.  (One that *)
(* is restored without its result is as if it had never been finished, and *)
(* is left out.)                                                           *)
Rewrite(r) ==
    /\ inline # NoResult /\ mark = "none"
    /\ inline' = r
    /\ UNCHANGED <<vars, progress, migrant>>

(* remove() deletes the inline row and the progress with the record.       *)
MEraseRecord ==
    /\ EraseRecord
    /\ IF job' = "gone" THEN inline' = NoResult /\ progress' = "none" ELSE UNCHANGED <<inline, progress>>
    /\ UNCHANGED migrant

MTick ==
    /\ Tick
    /\ SlowPuts \/ \A m \in Migrants :
                      migrant[m].at = "put" => row[migrant[m].attempt].age < Horizon + Fence
    /\ UNCHANGED migrationVars

OtherStep ==
    \/ \E w \in Writers : Begin(w) \/ WriterStep(w) \/ WriterCrash(w)
    \/ FailJob
    \/ EraseBegin \/ EraseList \/ EraserCrash
    \/ \E a \in Attempts : EraseObject(a) \/ EraseObjectFails(a)
    \/ Select \/ SweepObject \/ SweepFails \/ SweepRow

MNext ==
    \/ \E m \in Migrants : MigrantStep(m)
    \/ \E r \in Results : Rewrite(r)
    \/ MEraseRecord
    \/ MTick
    \/ OtherStep /\ UNCHANGED migrationVars

MSpec == MInit /\ [][MNext]_allVars

-----------------------------------------------------------------------------
(* The inline copy of a result goes only in the step that leaves the very  *)
(* same content behind a reference to an object that is there and whole:   *)
(* not a newer result written meanwhile, not a damaged or half-written     *)
(* object, not one that the clean-up or the sweep removed (perkeltiEilute).*)
OnlyCopyKept ==
    [][ (inline # NoResult /\ inline' = NoResult /\ mark = "none")
            => (result' = inline /\ ref' \in object') ]_allVars

(* After a confirmed erasure no migrant that had read the result before    *)
(* brings the content back: whatever it still does, it adds no object      *)
(* (the barrier of the registration, perkeltiEilute).                      *)
ErasedNotCopied ==
    [][ (mark = "deleted" /\ UNCHANGED writer) => object' \subseteq object ]_allVars
=============================================================================
