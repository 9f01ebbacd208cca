------------------------------- MODULE Restore -------------------------------
(***************************************************************************)
(* A restore from a backup under the maintenance lock (routes/backup.js,   *)
(* services/restoreService.js), beside everything the API process does     *)
(* meanwhile: uploads and new jobs (routes/transcribeJobs.js), the inline  *)
(* runner (queues/jobRunner.js) or a queue worker, and erasures.           *)
(*                                                                         *)
(* Every action is the code between two awaits.  A job of the backup is    *)
(* finished, so its record is "completed" again once it is restored.       *)
(***************************************************************************)
EXTENDS MaintenanceLock, FiniteSets

CONSTANTS
    Jobs,
    BackupJobs,   \* the jobs of the backup; the others are new
    NoJob,
    Deployments   \* pairs of where jobs run and which job store is used

ASSUME RestoreConstants ==
    /\ BackupJobs \subseteq Jobs /\ NoJob \notin Jobs
    /\ Deployments \subseteq {"inline", "queue"} \X {"memory", "postgres"}

VARIABLES
    deploy,
    rec,     \* rec[j]: status of the record
    audio,   \* jobs whose source file exists
    marks,   \* jobs with an erasure mark
    api,     \* api[j]: where the POST request is
    runner,  \* runner[j]: where the execution of j is
    erase,   \* erase[j]: where the erasure of j is
    rest     \* rest[h]: where restore h is and what it still has to write

Inline == deploy[1] = "inline"   \* jobs run in the API process
Backend == deploy[2]

vars == <<lockVars, deploy, rec, audio, marks, api, runner, erase, rest>>
jobVars == <<deploy, rec, audio, marks, api, runner, erase>>

Ended == {"completed", "failed"}
Outcomes == {"conflict", "refused", "invalid", "lost", "error", "ok"}
RestSteps == {"route", "counted", "recount", "checking", "blocking", "audio", "jobs",
              "write", "recheck", "audit"} \cup Outcomes

RestIdle == [at |-> "route", todo |-> BackupJobs, blocked |-> {}, job |-> NoJob]

TypeOK ==
    /\ LockTypeOK /\ deploy \in Deployments
    /\ rec \in [Jobs -> {"none", "queued", "processing", "completed", "failed"}]
    /\ audio \subseteq Jobs /\ marks \subseteq Jobs
    /\ api \in [Jobs -> {"idle", "uploaded", "admitted", "created", "refused", "done"}]
    /\ runner \in [Jobs -> {"idle", "scheduled", "unlocked", "unmarked", "allowed",
                            "running", "skipped", "ended"}]
    /\ erase \in [Jobs -> {"idle", "marked", "silent", "erased"}]
    /\ rest \in [Holders -> [at : RestSteps, todo : SUBSET BackupJobs,
                             blocked : SUBSET BackupJobs, job : BackupJobs \cup {NoJob}]]

\* The jobs of the backup are in the store, lost, or already erased.
Init ==
    /\ LockInit /\ deploy \in Deployments
    /\ rec \in {r \in [Jobs -> {"none", "completed"}] : \A j \in Jobs \ BackupJobs : r[j] = "none"}
    /\ audio = {j \in Jobs : rec[j] = "completed"}
    /\ marks \in SUBSET {j \in BackupJobs : rec[j] = "none"}
    /\ erase = [j \in Jobs |-> IF j \in marks THEN "erased" ELSE "idle"]
    /\ api = [j \in Jobs |-> "idle"]
    /\ runner = [j \in Jobs |-> "idle"]
    /\ rest = [h \in Holders |-> RestIdle]

-----------------------------------------------------------------------------
(* POST /transcribe-jobs: the file, the admission (create() looks at the   *)
(* lock, then waits for the store), the record, the queue.                 *)

Upload(j) ==
    /\ j \notin BackupJobs /\ api[j] = "idle"
    /\ audio' = audio \cup {j}
    /\ api' = [api EXCEPT ![j] = "uploaded"]
    /\ UNCHANGED <<lockVars, deploy, rec, marks, runner, erase, rest>>

Admit(j) ==
    /\ api[j] = "uploaded"
    /\ IF isLocked
       THEN /\ api' = [api EXCEPT ![j] = "refused"]
            /\ audio' = audio \ {j}
       ELSE /\ api' = [api EXCEPT ![j] = "admitted"]
            /\ UNCHANGED audio
    /\ UNCHANGED <<lockVars, deploy, rec, marks, runner, erase, rest>>

Create(j) ==
    /\ api[j] = "admitted"
    /\ rec' = [rec EXCEPT ![j] = "queued"]
    /\ api' = [api EXCEPT ![j] = "created"]
    /\ UNCHANGED <<lockVars, deploy, audio, marks, runner, erase, rest>>

Enqueue(j) ==
    /\ api[j] = "created"
    /\ runner' = [runner EXCEPT ![j] = "scheduled"]
    /\ api' = [api EXCEPT ![j] = "done"]
    /\ UNCHANGED <<lockVars, deploy, rec, audio, marks, erase, rest>>

\* Only a queue can refuse the message; the request undoes what it did.
EnqueueFails(j) ==
    /\ api[j] = "created" /\ ~ Inline
    /\ audio' = audio \ {j}
    /\ rec' = [rec EXCEPT ![j] = "failed"]
    /\ api' = [api EXCEPT ![j] = "done"]
    /\ UNCHANGED <<lockVars, deploy, marks, runner, erase, rest>>

-----------------------------------------------------------------------------
(* One execution: _runInline() and _executeInline(), or the processor      *)
(* function of a worker, whose process has a lock of its own.              *)

RunnerTo(j, step) == runner' = [runner EXCEPT ![j] = step]

LockSeen == Inline /\ isLocked

CheckLock(j) ==
    /\ runner[j] = "scheduled"
    /\ RunnerTo(j, IF LockSeen THEN "skipped" ELSE "unlocked")
    /\ UNCHANGED <<lockVars, deploy, rec, audio, marks, api, erase, rest>>

CheckMark(j) ==
    /\ runner[j] = "unlocked"
    /\ RunnerTo(j, IF j \in marks THEN "skipped" ELSE "unmarked")
    /\ UNCHANGED <<lockVars, deploy, rec, audio, marks, api, erase, rest>>

Authorize(j) ==
    /\ runner[j] = "unmarked"
    /\ RunnerTo(j, "allowed")
    /\ UNCHANGED <<lockVars, deploy, rec, audio, marks, api, erase, rest>>

\* The rights are gone or cannot be judged: the job fails, its file is released.
Revoke(j) ==
    /\ runner[j] = "unmarked"
    /\ RunnerTo(j, "ended")
    /\ rec' = [rec EXCEPT ![j] = IF j \in marks THEN @ ELSE "failed"]
    /\ audio' = audio \ {j}
    /\ UNCHANGED <<lockVars, deploy, marks, api, erase, rest>>

Start(j) ==
    /\ runner[j] = "allowed" /\ j \notin marks
    /\ RunnerTo(j, "running")
    /\ rec' = [rec EXCEPT ![j] = "processing"]
    /\ UNCHANGED <<lockVars, deploy, audio, marks, api, erase, rest>>

Finish(j, status) ==
    /\ runner[j] = "running" /\ j \notin marks
    /\ RunnerTo(j, "ended")
    /\ rec' = [rec EXCEPT ![j] = status]
    /\ audio' = audio \ {j}
    /\ UNCHANGED <<lockVars, deploy, marks, api, erase, rest>>

-----------------------------------------------------------------------------
(* DELETE of a finished job: mark, file, record.                           *)

Mark(j) ==
    /\ erase[j] = "idle" /\ rec[j] \in Ended
    /\ marks' = marks \cup {j}
    /\ erase' = [erase EXCEPT ![j] = "marked"]
    /\ UNCHANGED <<lockVars, deploy, rec, audio, api, runner, rest>>

EraseAudio(j) ==
    /\ erase[j] = "marked"
    /\ audio' = audio \ {j}
    /\ erase' = [erase EXCEPT ![j] = "silent"]
    /\ UNCHANGED <<lockVars, deploy, rec, marks, api, runner, rest>>

EraseRecord(j) ==
    /\ erase[j] = "silent"
    /\ rec' = [rec EXCEPT ![j] = "none"]
    /\ erase' = [erase EXCEPT ![j] = "erased"]
    /\ UNCHANGED <<lockVars, deploy, audio, marks, api, runner, rest>>

-----------------------------------------------------------------------------
(* POST /admin/backups/restore.                                            *)

Active == {j \in Jobs : rec[j] \in {"queued", "processing"}}
countActiveJobs == Cardinality(Active)

RestTo(h, step) == rest' = [rest EXCEPT ![h].at = step]

CountFirst(h) ==
    /\ rest[h].at = "route"
    /\ RestTo(h, IF countActiveJobs > 0 THEN "conflict" ELSE "counted")
    /\ UNCHANGED <<lockVars, jobVars>>

TakeLock(h) ==
    /\ rest[h].at = "counted"
    /\ Acquire(h)
    /\ RestTo(h, "recount")
    /\ UNCHANGED jobVars

LockTaken(h) ==
    /\ rest[h].at = "counted"
    /\ Refuse(h)
    /\ RestTo(h, "refused")
    /\ UNCHANGED jobVars

\* The operation leaves withLock() with an outcome.
Leave(h, outcome) ==
    /\ EndOp(h)
    /\ RestTo(h, IF op[h].aborted THEN "lost" ELSE outcome)
    /\ UNCHANGED jobVars

StillActive_Trusting == FALSE   \* mutant: no second count under the lease

StillActive == countActiveJobs > 0

RecountConflict(h) ==
    /\ rest[h].at = "recount" /\ StillActive
    /\ Leave(h, "conflict")

Recount(h) ==
    /\ rest[h].at = "recount" /\ ~ StillActive
    /\ RestTo(h, "checking")
    /\ UNCHANGED <<lockVars, jobVars>>

\* Manifest, versions, checksum, decryption, content, secrets, configuration, privacy.
ChecksFail(h) == rest[h].at = "checking" /\ Leave(h, "invalid")

ChecksPass(h) ==
    /\ rest[h].at = "checking"
    /\ RestTo(h, "blocking")
    /\ UNCHANGED <<lockVars, jobVars>>

-----------------------------------------------------------------------------
(* _apply(): first the keys of marked jobs, then the files, then the       *)
(* records.  The signal is looked at before every write.                   *)

Unlisted(h) == {j \in BackupJobs : j \in rest[h].todo}

NoteMark(h, j) ==
    /\ rest[h].at = "blocking" /\ j \in Unlisted(h)
    /\ rest' = [rest EXCEPT ![h].todo = @ \ {j},
                            ![h].blocked = IF j \in marks THEN @ \cup {j} ELSE @]
    /\ UNCHANGED <<lockVars, jobVars>>

\* Mutant: the list of files to write is not built.
MarksNoted_NoList(h) ==
    /\ rest[h].at = "blocking" /\ rest[h].todo = {}
    /\ RestTo(h, "audio")
    /\ UNCHANGED <<lockVars, jobVars>>

MarksNoted(h) ==
    /\ rest[h].at = "blocking" /\ rest[h].todo = {}
    /\ rest' = [rest EXCEPT ![h].at = "audio", ![h].todo = BackupJobs \ rest[h].blocked]
    /\ UNCHANGED <<lockVars, jobVars>>

\* The signal fired, or a store call failed: the exception ends the operation.
Stopped(h) ==
    /\ rest[h].at \in {"audio", "jobs"} /\ rest[h].todo # {} /\ op[h].aborted
    /\ Leave(h, "lost")

StoreFails(h) ==
    /\ rest[h].at \in {"audio", "write"}
    /\ Leave(h, "error")

PutAudio(h, j) ==
    /\ rest[h].at = "audio" /\ j \in rest[h].todo /\ ~ op[h].aborted
    /\ audio' = audio \cup {j}
    /\ rest' = [rest EXCEPT ![h].todo = @ \ {j}]
    /\ UNCHANGED <<lockVars, deploy, rec, marks, api, runner, erase>>

AudioDone(h) ==
    /\ rest[h].at = "audio" /\ rest[h].todo = {}
    /\ rest' = [rest EXCEPT ![h].at = "jobs", ![h].todo = BackupJobs]
    /\ UNCHANGED <<lockVars, jobVars>>

\* restoreRecord(): a marked job is passed over ...
LookRecord(h, j) ==
    /\ rest[h].at = "jobs" /\ j \in rest[h].todo /\ ~ op[h].aborted
    /\ rest' = [rest EXCEPT ![h].todo = @ \ {j},
                            ![h].at = IF j \in marks THEN @ ELSE "write",
                            ![h].job = IF j \in marks THEN @ ELSE j]
    /\ UNCHANGED <<lockVars, jobVars>>

Barred(j) == Backend = "postgres" /\ j \in marks

WriteRecord(h) ==
    /\ rest[h].at = "write" /\ ~ Barred(rest[h].job)
    /\ rec' = [rec EXCEPT ![rest[h].job] = "completed"]
    /\ RestTo(h, "recheck")
    /\ UNCHANGED <<lockVars, deploy, audio, marks, api, runner, erase>>

\* ... PostgreSQL looks again in the transaction that writes ...
WriteBarred(h) == rest[h].at = "write" /\ Barred(rest[h].job) /\ Leave(h, "error")

\* ... and a mark set meanwhile takes the record back.
MustTakeBack_Never(h) == FALSE   \* mutant: no second look at the marks

MustTakeBack(h) == rest[h].job \in marks

KeepRecord(h) ==
    /\ rest[h].at = "recheck" /\ ~ MustTakeBack(h)
    /\ rest' = [rest EXCEPT ![h].at = "jobs", ![h].job = NoJob]
    /\ UNCHANGED <<lockVars, jobVars>>

TakeBack(h) ==
    /\ rest[h].at = "recheck" /\ MustTakeBack(h)
    /\ rec' = [rec EXCEPT ![rest[h].job] = "none"]
    /\ rest' = [rest EXCEPT ![h].at = "jobs", ![h].job = NoJob]
    /\ UNCHANGED <<lockVars, deploy, audio, marks, api, runner, erase>>

TakeBackFails(h) == rest[h].at = "recheck" /\ MustTakeBack(h) /\ Leave(h, "error")

RecordsDone(h) ==
    /\ rest[h].at = "jobs" /\ rest[h].todo = {}
    /\ RestTo(h, "audit")
    /\ UNCHANGED <<lockVars, jobVars>>

\* The audit of the restore is blocking: without it the request fails.
AuditRestore(h) == rest[h].at = "audit" /\ (Leave(h, "ok") \/ Leave(h, "error"))

-----------------------------------------------------------------------------
RenewTimer(h) == Renew(h) /\ UNCHANGED <<jobVars, rest>>
Clock == Tick /\ UNCHANGED <<jobVars, rest>>

JobStep(j) ==
    \/ Upload(j) \/ Admit(j) \/ Create(j) \/ Enqueue(j) \/ EnqueueFails(j)
    \/ CheckLock(j) \/ CheckMark(j) \/ Authorize(j) \/ Revoke(j) \/ Start(j)
    \/ Finish(j, "completed") \/ Finish(j, "failed")
    \/ Mark(j) \/ EraseAudio(j) \/ EraseRecord(j)

RestoreStep(h) ==
    \/ CountFirst(h) \/ TakeLock(h) \/ LockTaken(h) \/ RecountConflict(h) \/ Recount(h)
    \/ ChecksFail(h) \/ ChecksPass(h) \/ MarksNoted(h) \/ Stopped(h) \/ StoreFails(h)
    \/ AudioDone(h) \/ WriteRecord(h) \/ WriteBarred(h) \/ KeepRecord(h) \/ TakeBack(h)
    \/ TakeBackFails(h) \/ RecordsDone(h) \/ AuditRestore(h) \/ RenewTimer(h)
    \/ \E j \in BackupJobs : NoteMark(h, j) \/ PutAudio(h, j) \/ LookRecord(h, j)

Next == (\E j \in Jobs : JobStep(j)) \/ (\E h \in Holders : RestoreStep(h)) \/ Clock

Spec == Init /\ [][Next]_vars

-----------------------------------------------------------------------------
\* A restore that has counted the jobs under the lease and may still write.
Applying(h) ==
    /\ Operating(h)
    /\ rest[h].at \in {"checking", "blocking", "audio", "jobs", "write", "recheck"}

\* In one process whose lease holds no job runs while a restore writes: a job the second count
\* misses has not been queued yet, and its execution meets the lock.
NoJobRunsDuringRestore ==
    Inline /\ InTime => \A h \in Holders, j \in Jobs :
        Applying(h) => runner[j] \notin {"unlocked", "unmarked", "allowed", "running"}

\* The record of a marked job exists only while its erasure is on its way or a
\* restore is about to take it back; if that fails the restore says so.
MarkedNotRevived ==
    \A j \in marks : rec[j] # "none" =>
        \/ erase[j] \in {"marked", "silent"}
        \/ \E h \in Holders : rest[h].at = "recheck" /\ rest[h].job = j
        \/ \E h \in Holders : rest[h].at \in {"error", "lost"}

\* A restore that reports success has brought back every job of the backup and
\* its file, except what has been erased.
ReportedIsRestored ==
    \A h \in Holders : rest[h].at = "audit" =>
        \A j \in BackupJobs \ marks : rec[j] = "completed" /\ j \in audio
=============================================================================
