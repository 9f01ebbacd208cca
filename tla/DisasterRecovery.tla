--------------------------- MODULE DisasterRecovery --------------------------
(***************************************************************************)
(* Copies of the data and erasures that have to outlive them: database     *)
(* dumps (pgDumpBackup.js), application backups (backupService.js), the    *)
(* horizon up to which erasure marks are kept (deletionTombstones), the    *)
(* exported ledger of marks (erasureExport.js), and the recovery from a    *)
(* dump (drCoordinator.js): merge, replay, reconcile, verify.              *)
(*                                                                         *)
(* The database is one record, so that a dump is a copy of it.  Objects of *)
(* results live outside it and no dump contains them.  Time is in days.    *)
(***************************************************************************)
EXTENDS Naturals

CONSTANTS
    Jobs, NoJob,
    Retentions,    \* values BACKUP_RETENTION_DAYS takes over time
    Revival,       \* revivalHorizonsMs(): how long a queue may bring a job back
    Margin,        \* SAFETY_MARGIN_MS
    CopyDays,      \* how long making a copy takes at most
    MaxAge,        \* ERASURE_EXPORT_MAX_AGE_MS
    Shrinks,       \* whether an operator may also shorten the retention
    Authorities,   \* pairs: where sessions and jobs are kept
    MaxNow,        \* bound: days
    MaxCopies,     \* bound: dumps and backups begun
    MaxFaults      \* bound: disasters, failed calls and crashes

ASSUME RecoveryConstants ==
    /\ Retentions \subseteq Nat \ {0} /\ Retentions # {}
    /\ Revival \in Nat /\ Margin \in Nat /\ MaxAge \in Nat /\ CopyDays \in Nat
    /\ Authorities \subseteq {"postgres", "redis", "memory"} \X {"postgres", "redis", "memory"}
    /\ Shrinks \in BOOLEAN
    /\ MaxNow \in Nat /\ MaxCopies \in Nat /\ MaxFaults \in Nat

VARIABLES
    now, retention, faults,
    db,        \* records, marks, sessions and the recorded backup horizon (0: null)
    objects,   \* jobs with a result in the object store
    copy,      \* a dump or backup that is being made, and how many were begun
    dump,      \* the database dump that has been issued
    backup,    \* the application backup that has been issued
    ledger,    \* the exported ledger of marks
    horizon,   \* _kopijuHorizontas of the running process
    dr,        \* the recovery: its step, the marks left to handle, its failures
    erasedAt   \* history: when the erasure of a job was confirmed, MaxNow + 1 before

recoveryVars == <<now, retention, faults, db, objects, copy, dump, backup, ledger, horizon, dr, erasedAt>>
copies == <<copy, dump, backup>>
settings == <<now, retention>>

Statuses == {"none", "pending", "failed", "deleted"}
Marks == [Jobs -> [status : Statuses, at : 0 .. MaxNow]]
DB == [rec : [Jobs -> {"none", "active", "done"}], mark : Marks,
       sessions : BOOLEAN, horizon : Nat]

Unmarked == [status |-> "none", at |-> 0]
Never == MaxNow + 1
DrAt(step) == [at |-> step, todo |-> {}, bad |-> {}, job |-> NoJob, found |-> FALSE]

\* A copy that was never made has expired from the start.
FirstDB == [rec |-> [j \in Jobs |-> "active"], mark |-> [j \in Jobs |-> Unmarked],
            sessions |-> TRUE, horizon |-> 0]
NoCopy(n) == [kind |-> "none", db |-> FirstDB, at |-> 0, n |-> n]
NoDump == [db |-> FirstDB, expires |-> 0]
NoBackup == [jobs |-> {}, expires |-> 0]
NoLedger == [made |-> FALSE, mark |-> [j \in Jobs |-> Unmarked], horizon |-> 0, at |-> 0]

RecoveryTypeOK ==
    /\ now \in 0 .. MaxNow /\ retention \in Retentions
    /\ faults \in 0 .. MaxFaults
    /\ db \in DB /\ objects \subseteq Jobs
    /\ copy \in [kind : {"none", "dump", "backup"}, db : DB, at : 0 .. MaxNow,
                n : 0 .. MaxCopies]
    /\ dump \in [db : DB, expires : Nat]
    /\ backup \in [jobs : SUBSET Jobs, expires : Nat]
    /\ ledger \in [made : BOOLEAN, mark : Marks, horizon : Nat, at : 0 .. MaxNow]
    /\ horizon \in Nat
    /\ dr \in [at : {"live", "down", "merge", "horizon", "replay", "closing", "replayed", "reconciled", "verified"},
               todo : SUBSET Jobs, bad : SUBSET Jobs, job : Jobs \cup {NoJob}, found : BOOLEAN]
    /\ erasedAt \in [Jobs -> 0 .. Never]

RecoveryInit ==
    /\ now = 0 /\ retention \in Retentions /\ faults = 0
    /\ db = FirstDB /\ objects = {}
    /\ copy = NoCopy(0) /\ dump = NoDump /\ backup = NoBackup /\ ledger = NoLedger
    /\ horizon = 0 /\ dr = DrAt("live")
    /\ erasedAt = [j \in Jobs |-> Never]

Live == dr.at = "live"
Fault == faults < MaxFaults /\ faults' = faults + 1
NoFault == UNCHANGED faults

SetMark(j, status) == db' = [db EXCEPT !.mark[j] = [status |-> status, at |-> now]]

-----------------------------------------------------------------------------
(* The running system: jobs end, are marked and erased; marks are purged.  *)

FinishJob(j) ==
    /\ Live /\ db.rec[j] = "active" /\ db.mark[j].status = "none"
    /\ db' = [db EXCEPT !.rec[j] = "done"]
    /\ objects' = objects \cup {j}
    /\ NoFault /\ UNCHANGED <<settings, copies, ledger, horizon, dr, erasedAt>>

MarkJob(j) ==
    /\ Live /\ db.rec[j] = "done" /\ db.mark[j].status \in {"none", "failed"}
    /\ SetMark(j, "pending")
    /\ NoFault /\ UNCHANGED <<settings, objects, copies, ledger, horizon, dr, erasedAt>>

EraseData(j) ==
    /\ Live /\ db.mark[j].status = "pending" /\ db.rec[j] = "done"
    /\ db' = [db EXCEPT !.rec[j] = "none"]
    /\ objects' = objects \ {j}
    /\ NoFault /\ UNCHANGED <<settings, copies, ledger, horizon, dr, erasedAt>>

EraseFails(j) ==
    /\ Live /\ db.mark[j].status = "pending" /\ db.rec[j] = "done"
    /\ SetMark(j, "failed")
    /\ Fault /\ UNCHANGED <<settings, objects, copies, ledger, horizon, dr, erasedAt>>

Confirm(j) ==
    /\ Live /\ db.mark[j].status = "pending" /\ db.rec[j] = "none"
    /\ SetMark(j, "deleted")
    /\ erasedAt' = [erasedAt EXCEPT ![j] = now]
    /\ NoFault /\ UNCHANGED <<settings, objects, copies, ledger, horizon, dr>>

Larger(a, b) == IF a > b THEN a ELSE b

\* The longest time a job may come back, by a queue or from a copy.
retentionMs_QueueOnly(seen) == Revival + Margin   \* mutant: copies are not counted

retentionMs(seen) ==
    Larger(Revival, Larger(retention, IF seen > now THEN seen - now ELSE 0)) + Margin

PurgeWith(seen) ==
    LET stale == {j \in Jobs : /\ db.mark[j].status = "deleted"
                               /\ db.mark[j].at + retentionMs(seen) < now}
    IN  /\ Live /\ stale # {}
        /\ db' = [db EXCEPT !.mark = [j \in Jobs |-> IF j \in stale THEN Unmarked ELSE @[j]]]
        /\ horizon' = seen
        /\ UNCHANGED <<settings, objects, copies, ledger, dr, erasedAt>>

\* A horizon that cannot be read only warns; the last known one is used.
PurgeMarks == (PurgeWith(db.horizon) /\ NoFault) \/ (PurgeWith(horizon) /\ Fault)

ChangeRetention(days) ==
    /\ Live /\ days # retention /\ (Shrinks \/ days > retention)
    /\ retention' = days
    /\ UNCHANGED <<now, faults, db, objects, copies, ledger, horizon, dr, erasedAt>>

Day ==
    /\ now < MaxNow
    /\ copy.kind = "none" \/ now < copy.at + CopyDays
    /\ now' = now + 1
    /\ UNCHANGED <<retention, faults, db, objects, copies, ledger, horizon, dr, erasedAt>>

-----------------------------------------------------------------------------
(* Copies.  The content is read first; the term is set when the manifest   *)
(* is written, and recorded as the horizon before the copy is issued.      *)

Snapshot(kind) ==
    /\ Live /\ copy.kind = "none" /\ copy.n < MaxCopies
    /\ copy' = [kind |-> kind, db |-> db, at |-> now, n |-> copy.n + 1]
    /\ NoFault /\ UNCHANGED <<settings, db, objects, dump, backup, ledger, horizon, dr, erasedAt>>

\* GREATEST(horizon, new): the horizon never moves back.
recordBackupHorizon(at) == db' = [db EXCEPT !.horizon = Larger(@, at)]

IssueDump ==
    /\ Live /\ copy.kind = "dump"
    /\ recordBackupHorizon(now + retention)
    /\ horizon' = Larger(horizon, now + retention)
    /\ dump' = [db |-> copy.db, expires |-> now + retention]
    /\ copy' = NoCopy(copy.n)
    /\ NoFault /\ UNCHANGED <<settings, objects, backup, ledger, dr, erasedAt>>

\* The dump is not issued without its horizon (PG_BACKUP_HORIZON_UNRECORDED).
DumpFails ==
    /\ Live /\ copy.kind = "dump"
    /\ copy' = NoCopy(copy.n)
    /\ Fault /\ UNCHANGED <<settings, db, objects, dump, backup, ledger, horizon, dr, erasedAt>>

IssueBackup ==
    /\ Live /\ copy.kind = "backup"
    /\ backup' = [jobs |-> {j \in Jobs : copy.db.rec[j] = "done"}, expires |-> now + retention]
    /\ copy' = NoCopy(copy.n)
    /\ \/ /\ recordBackupHorizon(now + retention)
          /\ horizon' = Larger(horizon, now + retention)
          /\ NoFault
       \/ Fault /\ UNCHANGED <<db, horizon>>    \* only logged
    /\ UNCHANGED <<settings, objects, dump, ledger, dr, erasedAt>>

\* Mutant: marks are not looked at.
RestoreBackup_Blind ==
    /\ Live /\ now < backup.expires
    /\ db' = [db EXCEPT !.rec = [j \in Jobs |-> IF j \in backup.jobs THEN "done" ELSE @[j]]]
    /\ NoFault /\ UNCHANGED <<settings, objects, copies, ledger, horizon, dr, erasedAt>>

\* restoreService: the jobs of the backup come back, except marked ones.
RestoreBackup ==
    /\ Live /\ now < backup.expires
    /\ db' = [db EXCEPT !.rec = [j \in Jobs |->
                 IF j \in backup.jobs /\ db.mark[j].status = "none" THEN "done" ELSE @[j]]]
    /\ NoFault /\ UNCHANGED <<settings, objects, copies, ledger, horizon, dr, erasedAt>>

Export ==
    /\ Live
    /\ ledger' = [made |-> TRUE, mark |-> db.mark, horizon |-> db.horizon, at |-> now]
    /\ NoFault /\ UNCHANGED <<settings, db, objects, copies, horizon, dr, erasedAt>>

-----------------------------------------------------------------------------
(* Recovery.  The dump has been loaded and nothing serves requests; every  *)
(* run starts from the beginning, whatever an earlier one has done.        *)

\* Erasures neither the ledger nor the dump knows of are the accepted loss.
Known(j) == ledger.mark[j].status = "deleted" \/ dump.db.mark[j].status = "deleted"

Disaster ==
    /\ Live /\ now < dump.expires
    /\ db' = dump.db
    /\ copy' = NoCopy(copy.n) /\ horizon' = 0
    /\ dr' = DrAt("down")
    /\ erasedAt' = [j \in Jobs |-> IF Known(j) THEN erasedAt[j] ELSE Never]
    /\ Fault /\ UNCHANGED <<settings, objects, dump, backup, ledger>>

Listed == {j \in Jobs : ledger.mark[j].status # "none"}

Fresh == now <= ledger.at + MaxAge

StartMerge ==
    /\ dr.at = "down" /\ ledger.made
    /\ dr' = [DrAt("merge") EXCEPT !.todo = Listed]

Merge ==
    /\ StartMerge /\ Fresh
    /\ NoFault /\ UNCHANGED <<settings, db, objects, copies, ledger, horizon, erasedAt>>

\* A stale ledger is used only when an operator confirms it on record.
AcceptStale ==
    /\ StartMerge /\ ~ Fresh
    /\ NoFault /\ UNCHANGED <<settings, db, objects, copies, ledger, horizon, erasedAt>>

\* laimiImportuotas(): a terminal mark wins, then the newer one, the local one on a tie.
laimiImportuotas(imported, local) ==
    \/ local.status = "none"
    \/ local.status # "deleted" /\ (imported.status = "deleted" \/ imported.at > local.at)

MergeMark(j) ==
    /\ dr.at = "merge" /\ j \in dr.todo
    /\ db' = IF laimiImportuotas(ledger.mark[j], db.mark[j])
             THEN [db EXCEPT !.mark[j] = ledger.mark[j]] ELSE db
    /\ dr' = [dr EXCEPT !.todo = @ \ {j}]
    /\ NoFault /\ UNCHANGED <<settings, objects, copies, ledger, horizon, erasedAt>>

MergeHorizon ==
    /\ dr.at = "merge" /\ dr.todo = {}
    /\ recordBackupHorizon(ledger.horizon)
    /\ horizon' = Larger(db.horizon, ledger.horizon)
    /\ dr' = [DrAt("replay") EXCEPT !.todo = Listed]
    /\ NoFault /\ UNCHANGED <<settings, objects, copies, ledger, erasedAt>>

\* Replay erases the data of a listed job again: a record with all it has, or
\* what is left of a job without one.
ReplayErase(j) ==
    /\ dr.at = "replay" /\ j \in dr.todo
    /\ db' = [db EXCEPT !.rec[j] = "none"]
    /\ objects' = objects \ {j}
    /\ dr' = [dr EXCEPT !.at = "closing", !.job = j, !.found = db.rec[j] # "none"]
    /\ NoFault /\ UNCHANGED <<settings, copies, ledger, horizon, erasedAt>>

\* A failure, of the data or of the audit, is remembered while the others go on.
PassOver(j) ==
    dr' = [dr EXCEPT !.at = "replay", !.todo = @ \ {j}, !.bad = @ \cup {j}, !.job = NoJob]

ReplayFails ==
    /\ \/ dr.at = "closing" /\ PassOver(dr.job)
       \/ dr.at = "replay" /\ \E j \in dr.todo : PassOver(j)
    /\ Fault /\ UNCHANGED <<settings, db, objects, copies, ledger, horizon, erasedAt>>

\* The status that decides whether a failed mark is set back first: the ledger's
\* when the record was found, the mark's own otherwise.
ReplayStatus(j) == IF dr.found THEN ledger.mark[j].status ELSE db.mark[j].status

\* complete() closes a pending mark; retry() makes a failed one pending.
Closable(j) ==
    IF ReplayStatus(j) = "failed" THEN db.mark[j].status = "failed"
                                  ELSE db.mark[j].status = "pending"

ReplayClose ==
    LET j == dr.job
        closed == ~ dr.found /\ db.mark[j].status = "deleted"
    IN  /\ dr.at = "closing"
        /\ \/ /\ closed
              /\ dr' = [dr EXCEPT !.at = "replay", !.todo = @ \ {j}, !.job = NoJob]
              /\ UNCHANGED <<db, erasedAt>>
           \/ /\ ~ closed /\ Closable(j)
              /\ SetMark(j, "deleted")
              /\ erasedAt' = [erasedAt EXCEPT ![j] = IF @ = Never THEN now ELSE @]
              /\ dr' = [dr EXCEPT !.at = "replay", !.todo = @ \ {j}, !.job = NoJob]
           \/ /\ ~ closed /\ ~ Closable(j)
              /\ PassOver(j)
              /\ UNCHANGED <<db, erasedAt>>
        /\ NoFault /\ UNCHANGED <<settings, objects, copies, ledger, horizon>>

\* Any failure stops the recovery before the next step.
ReplayEnds ==
    /\ dr.at = "replay" /\ dr.todo = {}
    /\ dr' = IF dr.bad = {} THEN DrAt("replayed") ELSE DrAt("down")
    /\ NoFault /\ UNCHANGED <<settings, db, objects, copies, ledger, horizon, erasedAt>>

\* One transaction: all sessions end, and every unfinished job that is not barred.
Reconcile ==
    /\ dr.at = "replayed"
    /\ db' = [db EXCEPT !.sessions = FALSE,
                        !.rec = [j \in Jobs |-> IF @[j] = "active" /\ db.mark[j].status = "none"
                                               THEN "done" ELSE @[j]]]
    /\ dr' = DrAt("reconciled")
    /\ NoFault /\ UNCHANGED <<settings, objects, copies, ledger, horizon, erasedAt>>

\* arSaugu(): no axis is left out, and one was reconciled.
arSaugu(axes) ==
    /\ axes[1] # "redis" /\ axes[2] # "redis"
    /\ axes[1] = "postgres" \/ axes[2] = "postgres"

\* Mutant: marks that are not terminal are not looked for.
suderinta_AnyMark(axes) ==
    /\ ~ db.sessions
    /\ \A j \in Jobs : db.rec[j] = "active" => db.mark[j].status # "none"
    /\ arSaugu(axes)

suderinta(axes) ==
    /\ \A j \in Jobs : db.mark[j].status \in {"none", "deleted"}
    /\ ~ db.sessions
    /\ \A j \in Jobs : db.rec[j] = "active" => db.mark[j].status # "none"
    /\ arSaugu(axes)

Verify(axes) ==
    /\ dr.at = "reconciled"
    /\ dr' = DrAt(IF suderinta(axes) THEN "verified" ELSE "down")
    /\ NoFault /\ UNCHANGED <<settings, db, objects, copies, ledger, horizon, erasedAt>>

\* The recovery is audited, the service started, and users log in again.
Cutover ==
    /\ dr.at = "verified"
    /\ dr' = DrAt("live")
    /\ db' = [db EXCEPT !.sessions = TRUE]
    /\ NoFault /\ UNCHANGED <<settings, objects, copies, ledger, horizon, erasedAt>>

DrCrash ==
    /\ dr.at \notin {"live", "down"}
    /\ dr' = DrAt("down")
    /\ Fault /\ UNCHANGED <<settings, db, objects, copies, ledger, horizon, erasedAt>>

-----------------------------------------------------------------------------
RecoveryNext ==
    \/ \E j \in Jobs : FinishJob(j) \/ MarkJob(j) \/ EraseData(j) \/ EraseFails(j) \/ Confirm(j)
                       \/ MergeMark(j) \/ ReplayErase(j)
    \/ \E days \in Retentions : ChangeRetention(days)
    \/ \E kind \in {"dump", "backup"} : Snapshot(kind)
    \/ \E axes \in Authorities : Verify(axes)
    \/ PurgeMarks \/ Day
    \/ IssueDump \/ DumpFails \/ IssueBackup \/ RestoreBackup \/ Export
    \/ Disaster \/ Merge \/ AcceptStale \/ MergeHorizon \/ ReplayFails \/ ReplayClose
    \/ ReplayEnds \/ Reconcile \/ Cutover \/ DrCrash

RecoverySpec == RecoveryInit /\ [][RecoveryNext]_recoveryVars

-----------------------------------------------------------------------------
\* The mark of an erased job stays while any issued copy that has not expired
\* still contains the job, or a queue may still bring it back.
MarkOutlivesCopies ==
    Live => \A j \in Jobs :
        /\ erasedAt[j] # Never
        /\ \/ now < dump.expires /\ dump.db.rec[j] # "none"
           \/ now < backup.expires /\ j \in backup.jobs
           \/ now < erasedAt[j] + Revival
        => db.mark[j].status # "none"

\* A recovery that passes verification has erased what the ledger lists and what
\* any mark names, in the database and in the object store.
VerifiedMeansErased ==
    dr.at = "verified" => \A j \in Jobs :
        j \in Listed \/ db.mark[j].status # "none" =>
            db.mark[j].status = "deleted" /\ db.rec[j] = "none" /\ j \notin objects

\* An erased job never comes back into a running system: no late message, no
\* backup and no recovery brings its record back.
ErasedStaysErased ==
    [][ \A j \in Jobs :
          erasedAt[j] # Never /\ Live /\ db.rec[j] = "none" /\ dr'.at = "live"
          => db'.rec[j] = "none" ]_recoveryVars
=============================================================================
