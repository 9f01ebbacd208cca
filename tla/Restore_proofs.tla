------------------------ MODULE Restore_proofs -----------------------
(***************************************************************************)
(* The maintenance lease, for any number of calls of withLock(), any hold, *)
(* divisor and delay: while the timer is never later than the lease allows *)
(* (InTime), a running operation holds the lease and is alone.  And the    *)
(* restore under it, for any jobs and any backup: it implements the lock,  *)
(* no job of its process runs beside it, it brings no erased job back, and *)
(* what it reports as restored is there.                                   *)
(***************************************************************************)
EXTENDS Restore, FiniteSetTheorems, TLAPS

USE LockConstants

Call == [at : {"idle", "running", "refused", "done", "lost"}, token : 0 .. issued,
         due : Nat, timer : BOOLEAN, aborted : BOOLEAN]

\* Tokens are handed out once, and only to running calls.
TokensDiffer ==
    \A g, h \in Holders : op[g].token = op[h].token /\ op[g].token # 0 => g = h

TokenTaken == \A h \in Holders : op[h].at = "running" => op[h].token # 0

TimerRuns == \A h \in Holders : Operating(h) <=> op[h].timer

\* The lease of an operation outlives the next run of its timer by what is left
\* of the hold.
LeaseAhead ==
    \A h \in Holders : Operating(h) =>
        /\ lock.token = op[h].token
        /\ lock.expiresAt + Period = op[h].due + Hold
        /\ now <= op[h].due + delay

LockInv ==
    /\ LockTypeOK /\ TokensDiffer /\ TokenTaken /\ TimerRuns
    /\ InTime => LeaseAhead

LEMMA PeriodType == Period \in Nat \ {0}
<1>1. Hold \div Divisor \in Nat
  BY SMT
<1> QED BY <1>1 DEF Period

LEMMA LeaseAheadHeld == ASSUME LockInv PROVE LeaseHeld
BY PeriodType DEF LockInv, LeaseAhead, LeaseHeld, Expired, InTime, LockTypeOK

LEMMA LeaseHeldAlone == ASSUME LockInv PROVE OneOperation
BY LeaseAheadHeld DEF LockInv, LeaseHeld, OneOperation, TokensDiffer, TokenTaken, Operating

LEMMA Inductive_Init == LockInit => LockInv
BY PeriodType DEF LockInit, LockInv, LockTypeOK, TokensDiffer, TokenTaken, TimerRuns, LeaseAhead,
                  Free, Waiting, Operating

LEMMA CallUpdate ==
    ASSUME LockTypeOK, NEW h \in Holders, NEW x, op' = [op EXCEPT ![h] = x]
    PROVE  op'[h] = x /\ \A g \in Holders : g # h => op'[g] = op[g]
BY DEF LockTypeOK

LEMMA AcquireKeeps ==
    ASSUME LockInv, NEW h \in Holders, Acquire(h)
    PROVE  LockInv'
<1> DEFINE x == [at |-> "running", token |-> issued + 1, due |-> now + Period,
                 timer |-> TRUE, aborted |-> FALSE]
<1>1. op' = [op EXCEPT ![h] = x] /\ issued' = issued + 1 /\ now' = now /\ delay' = delay
      /\ lock' = [token |-> issued + 1, expiresAt |-> now + Hold]
  BY DEF Acquire
<1>2. op'[h] = x /\ \A g \in Holders : g # h => op'[g] = op[g]
  BY <1>1, CallUpdate DEF LockInv
<1>3. \A g \in Holders : op[g] \in Call
  BY DEF LockInv, LockTypeOK, Call
<1>4. LockTypeOK'
  BY <1>1, <1>2, <1>3, PeriodType DEF LockInv, LockTypeOK, Call
<1>5. TokensDiffer'
  BY <1>1, <1>2, <1>3 DEF LockInv, LockTypeOK, TokensDiffer, Call
<1>6. TokenTaken' /\ TimerRuns'
  BY <1>1, <1>2, <1>3 DEF LockInv, LockTypeOK, TokenTaken, TimerRuns, Operating
<1>7. ASSUME InTime' PROVE LeaseAhead'
  <2>1. InTime
    BY <1>1, <1>7 DEF InTime, Period
  <2>2. ASSUME NEW g \in Holders, Operating(g)' PROVE g = h
    <3>1. SUFFICES ASSUME g # h PROVE FALSE
      OBVIOUS
    <3>2. Operating(g)
      BY <1>2, <2>2, <3>1 DEF Operating
    <3>3. isLocked
      BY <2>1, <3>2, LeaseAheadHeld DEF LeaseHeld, isLocked, LockInv, TokenTaken, Operating
    <3> QED BY <3>3 DEF Acquire
  <2>3. lock'.token = op'[h].token /\ lock'.expiresAt = now + Hold /\ op'[h].due = now + Period
    BY <1>1, <1>2
  <2>4. now \in Nat /\ delay \in Nat
    BY DEF LockInv, LockTypeOK
  <2>5. lock'.expiresAt + Period = op'[h].due + Hold /\ now' <= op'[h].due + delay'
    BY <1>1, <2>3, <2>4, PeriodType
  <2>6. Period' = Period /\ Hold' = Hold
    BY DEF Period
  <2> QED BY <2>2, <2>3, <2>5, <2>6 DEF LeaseAhead
<1> QED BY <1>4, <1>5, <1>6, <1>7 DEF LockInv

LEMMA RefuseKeeps ==
    ASSUME LockInv, NEW h \in Holders, Refuse(h)
    PROVE  LockInv'
<1>1. op' = [op EXCEPT ![h].at = "refused"] /\ UNCHANGED <<delay, now, lock, issued>>
      /\ op[h].at = "idle"
  BY DEF Refuse
<1>2. \A g \in Holders : op[g] \in Call
  BY DEF LockInv, LockTypeOK, Call
<1>3. op'[h] = [op[h] EXCEPT !.at = "refused"] /\ \A g \in Holders : g # h => op'[g] = op[g]
  BY <1>1 DEF LockInv, LockTypeOK
<1>4. LockTypeOK'
  BY <1>1, <1>2 DEF LockInv, LockTypeOK, Call
<1>5. TokensDiffer' /\ TokenTaken'
  BY <1>1, <1>2, <1>3 DEF LockInv, TokensDiffer, TokenTaken, Call
<1>6. \A g \in Holders : Operating(g)' <=> Operating(g)
  BY <1>1, <1>2, <1>3 DEF Operating, Call
<1>7. \A g \in Holders : op'[g].timer = op[g].timer /\ op'[g].token = op[g].token
                        /\ op'[g].due = op[g].due
  BY <1>2, <1>3 DEF Call
<1>8. TimerRuns'
  BY <1>6, <1>7 DEF LockInv, TimerRuns
<1>9. InTime' => LeaseAhead'
  BY <1>1, <1>6, <1>7 DEF LockInv, LeaseAhead, InTime, Period
<1> QED BY <1>4, <1>5, <1>8, <1>9 DEF LockInv

LEMMA RenewKeeps ==
    ASSUME LockInv, NEW h \in Holders, Renew(h)
    PROVE  LockInv'
<1>1. Operating(h) /\ op[h].timer /\ op[h].due <= now
  BY DEF Renew, LockInv, TimerRuns
<1>2. \A g \in Holders : op[g] \in Call
  BY DEF LockInv, LockTypeOK, Call
<1>3. CASE renewable(op[h].token)
  <2>1. lock' = [lock EXCEPT !.expiresAt = now + Hold] /\ op' = [op EXCEPT ![h].due = now + Period]
        /\ UNCHANGED <<delay, now, issued>>
    BY <1>3 DEF Renew
  <2>2. op'[h] = [op[h] EXCEPT !.due = now + Period] /\ \A g \in Holders : g # h => op'[g] = op[g]
    BY <2>1 DEF LockInv, LockTypeOK
  <2>3. \A g \in Holders : op'[g].timer = op[g].timer /\ op'[g].token = op[g].token
                          /\ op'[g].at = op[g].at /\ op'[g].aborted = op[g].aborted
    BY <1>2, <2>2 DEF Call
  <2>4. LockTypeOK'
    BY <2>1, <1>2, PeriodType DEF LockInv, LockTypeOK, Call
  <2>5. TokensDiffer' /\ TokenTaken' /\ TimerRuns'
    BY <2>3 DEF LockInv, TokensDiffer, TokenTaken, TimerRuns, Operating
  <2>6. ASSUME InTime' PROVE LeaseAhead'
    <3>1. InTime
      BY <2>1, <2>6 DEF InTime, Period
    <3>2. OneOperation
      BY LeaseHeldAlone
    <3>3. ASSUME NEW g \in Holders, Operating(g)' PROVE g = h
      BY <1>1, <2>3, <3>1, <3>2, <3>3 DEF OneOperation, Operating
    <3>4. lock.token = op[h].token
      BY <1>3 DEF renewable
    <3>5. lock'.token = op'[h].token /\ lock'.expiresAt = now + Hold /\ op'[h].due = now + Period
      BY <1>2, <2>1, <2>2, <3>4 DEF Call, LockInv, LockTypeOK
    <3> QED BY <2>1, <3>3, <3>5, PeriodType DEF LeaseAhead, Period, LockInv, LockTypeOK
  <2> QED BY <2>4, <2>5, <2>6 DEF LockInv
<1>4. CASE ~ renewable(op[h].token)
  <2>1. op' = [op EXCEPT ![h].timer = FALSE, ![h].aborted = TRUE] /\ UNCHANGED <<delay, now, lock, issued>>
    BY <1>4 DEF Renew
  <2>2. op'[h] = [op[h] EXCEPT !.timer = FALSE, !.aborted = TRUE]
        /\ \A g \in Holders : g # h => op'[g] = op[g]
    BY <2>1 DEF LockInv, LockTypeOK
  <2>3. \A g \in Holders : op'[g].token = op[g].token /\ op'[g].at = op[g].at /\ op'[g].due = op[g].due
    BY <1>2, <2>2 DEF Call
  <2>4. ~ Operating(h)' /\ ~ op'[h].timer
    BY <1>2, <2>2 DEF Call, Operating
  <2>5. LockTypeOK'
    BY <2>1, <1>2 DEF LockInv, LockTypeOK, Call
  <2>6. TokensDiffer' /\ TokenTaken'
    BY <2>3 DEF LockInv, TokensDiffer, TokenTaken
  <2>7. TimerRuns'
    BY <2>2, <2>4 DEF LockInv, TimerRuns, Operating
  <2>7a. \A g \in Holders : Operating(g)' => Operating(g)
    BY <2>2, <2>4 DEF Operating
  <2>8. InTime' => LeaseAhead'
    BY <2>7a, <2>1, <2>2, <2>3, <2>4 DEF LockInv, LeaseAhead, InTime, Period
  <2> QED BY <2>5, <2>6, <2>7, <2>8 DEF LockInv
<1> QED BY <1>3, <1>4

LEMMA EndOpKeeps ==
    ASSUME LockInv, NEW h \in Holders, EndOp(h)
    PROVE  LockInv'
<1>1. \A g \in Holders : op[g] \in Call
  BY DEF LockInv, LockTypeOK, Call
<1> DEFINE step == IF op[h].aborted THEN "lost" ELSE "done"
           x == [op[h] EXCEPT !.at = step, !.timer = FALSE]
<1>2. op' = [op EXCEPT ![h] = x]
  <2>1. op' = [op EXCEPT ![h].at = step, ![h].timer = FALSE]
    BY DEF EndOp
  <2> QED BY <2>1, <1>1 DEF LockInv, LockTypeOK, Call
<1>3. UNCHANGED <<delay, now, issued>> /\ lock' = released(op[h].token) /\ op[h].at = "running"
  BY DEF EndOp
<1>2a. x \in Call /\ x.at # "running" /\ ~ x.timer /\ x.token = op[h].token
  BY <1>1 DEF Call
<1> HIDE DEF x
<1>4. op'[h] = x /\ \A g \in Holders : g # h => op'[g] = op[g]
  BY <1>2, CallUpdate DEF LockInv
<1>5. \A g \in Holders : op'[g].token = op[g].token
  BY <1>4, <1>2a
<1>6. ~ Operating(h)' /\ ~ op'[h].timer /\ op'[h].at # "running"
  BY <1>4, <1>2a DEF Operating
<1>7. LockTypeOK'
  <2>1. lock' \in [token : 0 .. issued, expiresAt : Nat]
    BY <1>3 DEF LockInv, LockTypeOK, released, Free
  <2>2. op' \in [Holders -> Call]
    BY <1>2, <1>2a DEF LockInv, LockTypeOK, Call
  <2> QED BY <1>3, <2>1, <2>2 DEF LockInv, LockTypeOK, Call
<1>8. TokensDiffer' /\ TokenTaken'
  <2>1. \A g \in Holders : op'[g].at = "running" => op[g].at = "running"
    BY <1>4, <1>6
  <2> QED BY <1>5, <2>1 DEF LockInv, TokensDiffer, TokenTaken
<1>9. TimerRuns'
  BY <1>4, <1>6 DEF LockInv, TimerRuns, Operating
<1>10. ASSUME InTime', NEW g \in Holders, Operating(g)'
       PROVE  /\ lock'.token = op'[g].token
              /\ lock'.expiresAt + Period = op'[g].due + Hold
              /\ now' <= op'[g].due + delay'
  <2>1. InTime
    BY <1>3, <1>10 DEF InTime, Period
  <2>2. g # h /\ op'[g] = op[g]
    BY <1>4, <1>6, <1>10
  <2>3. Operating(g)
    BY <1>10, <2>2 DEF Operating
  <2>4. lock.token = op[g].token /\ op[g].token # 0
    BY <2>1, <2>3 DEF LockInv, LeaseAhead, TokenTaken, Operating
  <2>5. lock' = lock
    BY <1>3, <2>2, <2>4 DEF LockInv, TokensDiffer, released
  <2> QED BY <1>3, <2>1, <2>2, <2>3, <2>5 DEF LockInv, LeaseAhead
<1> QED BY <1>7, <1>8, <1>9, <1>10 DEF LockInv, LeaseAhead, Period

LEMMA TickKeeps == ASSUME LockInv, Tick PROVE LockInv'
<1>1. UNCHANGED <<delay, lock, issued, op>> /\ now' = now + 1 /\ now < MaxNow
  BY DEF Tick
<1>2. LockTypeOK'
  BY <1>1 DEF LockInv, LockTypeOK
<1>3. TokensDiffer' /\ TokenTaken' /\ TimerRuns'
  BY <1>1 DEF LockInv, TokensDiffer, TokenTaken, TimerRuns, Operating
<1>4. ASSUME InTime' PROVE LeaseAhead'
  <2>1. InTime
    BY <1>1, <1>4 DEF InTime, Period
  <2>2. ASSUME NEW g \in Holders, Operating(g) PROVE now + 1 <= op[g].due + delay
    <3>1. now < op[g].due + delay
      BY <2>2 DEF Tick, OnTime, LockInv, TimerRuns
    <3> QED BY <3>1 DEF LockInv, LockTypeOK
  <2> QED BY <1>1, <2>1, <2>2 DEF LockInv, LeaseAhead, Operating, Period
<1> QED BY <1>2, <1>3, <1>4 DEF LockInv

LEMMA Inductive_Step == ASSUME LockInv, [LockNext]_lockVars PROVE LockInv'
<1>1. CASE LockNext
  BY <1>1, AcquireKeeps, RefuseKeeps, RenewKeeps, EndOpKeeps, TickKeeps DEF LockNext
<1>2. CASE UNCHANGED lockVars
  BY <1>2 DEF lockVars, LockInv, LockTypeOK, TokensDiffer, TokenTaken, TimerRuns, LeaseAhead,
              Operating, InTime, Period
<1> QED BY <1>1, <1>2

\* The invariant of the lease: tokens are handed out once, and the lease runs
\* ahead of the timer that renews it.
THEOREM LockInvariant == LockSpec => []LockInv
<1>1. LockInv /\ [LockNext]_lockVars => LockInv'
  BY Inductive_Step
<1> QED BY Inductive_Init, <1>1, PTL DEF LockSpec

\* The lease of a running operation never passes to another one
\* (maintenanceLock.js:144-209) while timers are in time.
THEOREM LockHeld == LockSpec => []LeaseHeld
<1>1. LockInv => LeaseHeld
  BY LeaseAheadHeld
<1> QED BY LockInvariant, <1>1, PTL

\* Two operations under the lock never write at once (withLock, 246-302).
THEOREM LockExclusive == LockSpec => []OneOperation
<1>1. LockInv => OneOperation
  BY LeaseHeldAlone
<1> QED BY LockInvariant, <1>1, PTL

\* A lease that has not expired stays with its running owner, however late the
\* timers are (renew and release compare the token).
THEOREM LockNotStolen == LockSpec => LeaseEndsByOwner
<1> DEFINE Kept == \A h \in Holders :
                     lock.token = op[h].token /\ op[h].at = "running" /\ ~ Expired
                     /\ op'[h].at = "running" => lock'.token = lock.token
<1>1. ASSUME LockInv, LockNext PROVE Kept
  <2>1. SUFFICES ASSUME NEW h \in Holders, lock.token = op[h].token, op[h].at = "running",
                        ~ Expired, op'[h].at = "running"
                 PROVE  lock'.token = lock.token
    OBVIOUS
  <2>2. isLocked
    BY <1>1, <2>1 DEF isLocked, LockInv, TokenTaken
  <2>3. ASSUME NEW g \in Holders, Acquire(g) PROVE FALSE
    BY <2>2, <2>3 DEF Acquire
  <2>4. ASSUME NEW g \in Holders, Refuse(g) \/ Tick PROVE lock' = lock
    BY <2>4 DEF Refuse, Tick
  <2>5. ASSUME NEW g \in Holders, Renew(g) PROVE lock'.token = lock.token
    BY <1>1, <2>5 DEF Renew, LockInv, LockTypeOK
  <2>6. ASSUME NEW g \in Holders, EndOp(g) PROVE lock'.token = lock.token
    <3>1. g # h
      BY <1>1, <2>1, <2>6 DEF EndOp, LockInv, LockTypeOK
    <3>2. op[g].token # lock.token
      BY <1>1, <2>1, <2>6, <3>1 DEF EndOp, LockInv, TokensDiffer, TokenTaken
    <3> QED BY <2>6, <3>2 DEF EndOp, released
  <2>7. CASE Tick
    BY <2>7 DEF Tick
  <2> QED BY <1>1, <2>3, <2>4, <2>5, <2>6, <2>7 DEF LockNext
<1>2. LockInv /\ [LockNext]_lockVars => [Kept]_lockVars
  BY <1>1
<1> QED BY LockInvariant, <1>2, PTL DEF LockSpec, LeaseEndsByOwner

-----------------------------------------------------------------------------
(* The restore. *)

\* Every step of a restore and of what runs beside it is a step of the lock or
\* leaves the lock alone, so what holds of the lock holds here.
LEMMA StepOfLock == Next => [LockNext]_lockVars
<1>1. ASSUME NEW j \in Jobs, JobStep(j) PROVE UNCHANGED lockVars
  BY <1>1 DEF JobStep, Upload, Admit, Create, Enqueue, EnqueueFails, CheckLock, CheckMark, Authorize,
              Revoke, Start, Finish, Mark, EraseAudio, EraseRecord, lockVars
<1>2. ASSUME NEW h \in Holders, RestoreStep(h) PROVE LockNext \/ UNCHANGED lockVars
  <2>1. CASE TakeLock(h) \/ LockTaken(h) \/ RenewTimer(h) \/ EndOp(h)
    BY <2>1 DEF TakeLock, LockTaken, RenewTimer, LockNext
  <2>2. CASE ~ (TakeLock(h) \/ LockTaken(h) \/ RenewTimer(h) \/ EndOp(h))
    BY <1>2, <2>2 DEF RestoreStep, CountFirst, RecountConflict, Recount, ChecksFail, ChecksPass,
                      MarksNoted, Stopped, StoreFails, AudioDone, WriteRecord, WriteBarred,
                      KeepRecord, TakeBack, TakeBackFails, RecordsDone, AuditRestore, NoteMark,
                      PutAudio, LookRecord, Leave, lockVars
  <2> QED BY <2>1, <2>2
<1>3. Clock => LockNext
  BY DEF Clock, LockNext
<1> QED BY <1>1, <1>2, <1>3 DEF Next

\* A restore and everything that runs beside it implement the lock.
THEOREM RestoreImplementsLock == Spec => LockSpec
<1>1. Init => LockInit
  BY DEF Init
<1>2. [Next]_vars => [LockNext]_lockVars
  BY StepOfLock DEF vars, lockVars
<1> QED BY <1>1, <1>2, PTL DEF Spec, LockSpec

Working == {"scheduled", "unlocked", "unmarked", "allowed", "running"}
Running == {"unlocked", "unmarked", "allowed", "running"}
Applies == {"checking", "blocking", "audio", "jobs", "write", "recheck"}

\* A job outside the backup has no record before it is admitted; while it waits
\* or runs its record says so, and only an ended job is marked.
JobFacts(j) ==
    /\ api[j] # "idle" => j \notin BackupJobs
    /\ api[j] # "done" => runner[j] = "idle"
    /\ api[j] \in {"idle", "uploaded", "admitted", "refused"} /\ j \notin BackupJobs =>
          rec[j] = "none" /\ erase[j] = "idle"
    /\ api[j] = "created" => rec[j] = "queued"
    /\ runner[j] \in Working => rec[j] \in {"queued", "processing"}
    /\ j \in marks <=> erase[j] # "idle"
    /\ rec[j] \in {"queued", "processing"} => j \notin marks

\* What restore h has brought back by each of its steps.
Progress(h) ==
    /\ rest[h].blocked \subseteq marks
    /\ rest[h].at = "audio" => \A j \in BackupJobs \ marks : j \in rest[h].todo \/ j \in audio
    /\ rest[h].at \in {"jobs", "write", "recheck", "audit"} =>
          \A j \in BackupJobs \ marks :
              /\ j \in audio
              /\ \/ j \in rest[h].todo \/ rec[j] = "completed"
                 \/ rest[h].at = "write" /\ j = rest[h].job
    /\ rest[h].at = "audit" => rest[h].todo = {}
    /\ rest[h].at \in {"write", "recheck"} => rest[h].job \in BackupJobs

RestTypeOK ==
    /\ deploy \in Deployments
    /\ rec \in [Jobs -> {"none", "queued", "processing", "completed", "failed"}]
    /\ audio \subseteq Jobs /\ marks \subseteq Jobs
    /\ api \in [Jobs -> {"idle", "uploaded", "admitted", "created", "refused", "done"}]
    /\ runner \in [Jobs -> {"idle", "scheduled", "unlocked", "unmarked", "allowed",
                            "running", "skipped", "ended"}]
    /\ erase \in [Jobs -> {"idle", "marked", "silent", "erased"}]
    /\ rest \in [Holders -> [at : RestSteps, todo : SUBSET BackupJobs,
                             blocked : SUBSET BackupJobs, job : BackupJobs \cup {NoJob}]]

\* The second count sees every job whose execution is past the lock.
RestInv ==
    /\ RestTypeOK
    /\ \A j \in Jobs : JobFacts(j)
    /\ \A h \in Holders : Progress(h)
    /\ IsFiniteSet(Active)
    /\ NoJobRunsDuringRestore
    /\ MarkedNotRevived

LEMMA RestInvReports == ASSUME RestInv PROVE ReportedIsRestored
BY DEF RestInv, Progress, ReportedIsRestored

LEMMA RestInv_Init == Init => RestInv
<1> SUFFICES ASSUME Init PROVE RestInv
  OBVIOUS
<1>1. RestTypeOK
  BY RestoreConstants DEF Init, RestTypeOK, RestIdle, RestSteps
<1>2. \A h \in Holders : rest[h].at = "route" /\ rest[h].blocked = {}
  BY DEF Init, RestIdle
<1>3. \A j \in Jobs : rec[j] \in {"none", "completed"} /\ (j \notin BackupJobs => rec[j] = "none")
                      /\ api[j] = "idle" /\ runner[j] = "idle" /\ (j \in marks <=> erase[j] = "erased")
                      /\ (j \in marks => j \in BackupJobs /\ rec[j] = "none")
                      /\ erase[j] \in {"idle", "erased"}
  BY DEF Init
<1>4. \A j \in Jobs : JobFacts(j)
  BY <1>3 DEF JobFacts, Working
<1>5. \A h \in Holders : Progress(h)
  BY <1>2 DEF Progress
<1>6. Active = {}
  BY <1>3 DEF Active
<1>7. IsFiniteSet(Active)
  BY <1>6, FS_EmptySet
<1>8. NoJobRunsDuringRestore /\ MarkedNotRevived
  BY <1>1, <1>2, <1>3 DEF NoJobRunsDuringRestore, MarkedNotRevived, Applying, RestTypeOK
<1> QED BY <1>1, <1>4, <1>5, <1>7, <1>8 DEF RestInv

\* What a step of one job has to respect of the rest.
LEMMA JobMoves ==
    ASSUME RestInv, RestTypeOK', NEW j \in Jobs, UNCHANGED <<lockVars, deploy, rest>>,
           \A k \in Jobs : k # j => /\ rec'[k] = rec[k] /\ api'[k] = api[k] /\ runner'[k] = runner[k]
                                    /\ erase'[k] = erase[k] /\ (k \in audio' <=> k \in audio)
                                    /\ (k \in marks' <=> k \in marks),
           j \in marks => j \in marks',
           JobFacts(j)',
           j \in BackupJobs /\ j \notin marks' => rec'[j] = rec[j] /\ (j \in audio => j \in audio'),
           j \in marks' /\ rec'[j] # "none" =>
               \/ erase'[j] \in {"marked", "silent"}
               \/ j \in marks /\ rec'[j] = rec[j] /\ erase'[j] = erase[j],
           Inline /\ isLocked /\ runner'[j] \in Running => runner[j] \in Running
    PROVE  LockInv => RestInv'
<1> SUFFICES ASSUME LockInv PROVE RestInv'
  OBVIOUS
<1>1. ASSUME NEW k \in Jobs, k # j PROVE JobFacts(k)'
  <2>1. JobFacts(k)
    BY DEF RestInv
  <2> QED BY <1>1, <2>1 DEF JobFacts
<1>2. marks \subseteq marks'
  BY DEF RestInv, RestTypeOK
<1>3. ASSUME NEW h \in Holders PROVE Progress(h)'
  <2>1. Progress(h) /\ rest' = rest /\ BackupJobs \subseteq Jobs
    BY RestoreConstants DEF RestInv
  <2>2. \A k \in BackupJobs \ marks' : k \in BackupJobs \ marks /\ rec'[k] = rec[k] /\ (k \in audio => k \in audio')
    BY <1>2, <2>1
  <2> QED BY <1>2, <2>1, <2>2 DEF Progress
<1>4. IsFiniteSet(Active')
  <2>1. Active' \subseteq Active \cup {j}
    BY DEF Active
  <2>2. IsFiniteSet(Active \cup {j})
    BY FS_AddElement DEF RestInv
  <2> QED BY <2>1, <2>2, FS_Subset
<1>5. NoJobRunsDuringRestore'
  <2>1. SUFFICES ASSUME Inline, InTime, NEW h \in Holders, NEW k \in Jobs, Applying(h)
                 PROVE  runner'[k] \notin Running
    BY DEF NoJobRunsDuringRestore, Applying, Operating, Inline, InTime, Period, Running, lockVars
  <2>2. \A i \in Jobs : runner[i] \notin Running
    BY <2>1 DEF RestInv, NoJobRunsDuringRestore, Running
  <2>3. isLocked
    BY <2>1, LeaseAheadHeld DEF LeaseHeld, isLocked, LockInv, TokenTaken, Operating, Applying
  <2> QED BY <2>1, <2>2, <2>3
<1>6. MarkedNotRevived'
  <2>1. SUFFICES ASSUME NEW k \in marks', rec'[k] # "none"
                 PROVE  \/ erase'[k] \in {"marked", "silent"}
                        \/ \E h \in Holders : rest'[h].at = "recheck" /\ rest'[h].job = k
                        \/ \E h \in Holders : rest'[h].at \in {"error", "lost"}
    BY DEF MarkedNotRevived
  <2>2. k \in Jobs
    BY DEF RestTypeOK
  <2>3. CASE k \in marks /\ rec[k] # "none" /\ erase'[k] = erase[k]
    BY <2>3 DEF RestInv, MarkedNotRevived
  <2> QED BY <2>1, <2>2, <2>3
<1> QED BY <1>1, <1>3, <1>4, <1>5, <1>6 DEF RestInv

\* The request that brings a new job.
LEMMA RequestKeeps ==
    ASSUME RestInv, LockInv, NEW j \in Jobs,
           Upload(j) \/ Admit(j) \/ Create(j) \/ Enqueue(j) \/ EnqueueFails(j)
    PROVE  RestInv'
<1>1. UNCHANGED <<lockVars, deploy, rest, marks, erase>>
  BY DEF Upload, Admit, Create, Enqueue, EnqueueFails
<1>2. RestTypeOK'
  BY DEF RestInv, RestTypeOK, Upload, Admit, Create, Enqueue, EnqueueFails
<1>3. \A k \in Jobs : k # j => /\ rec'[k] = rec[k] /\ api'[k] = api[k] /\ runner'[k] = runner[k]
                               /\ erase'[k] = erase[k] /\ (k \in audio' <=> k \in audio)
                               /\ (k \in marks' <=> k \in marks)
  BY DEF RestInv, RestTypeOK, Upload, Admit, Create, Enqueue, EnqueueFails
<1>4. j \notin BackupJobs /\ j \notin marks /\ runner[j] = "idle"
  BY DEF RestInv, JobFacts, Upload, Admit, Create, Enqueue, EnqueueFails
<1>5. JobFacts(j)
  BY DEF RestInv
<1>6. /\ j \notin marks' /\ erase'[j] = erase[j]
      /\ \/ api'[j] \in {"uploaded", "admitted", "refused"} /\ rec'[j] = rec[j] /\ runner'[j] = "idle"
            /\ api[j] \in {"idle", "uploaded"}
         \/ api'[j] = "created" /\ rec'[j] = "queued" /\ runner'[j] = "idle"
         \/ api'[j] = "done" /\ rec'[j] = "queued" /\ runner'[j] = "scheduled"
         \/ api'[j] = "done" /\ rec'[j] = "failed" /\ runner'[j] = "idle"
  BY <1>1, <1>4, <1>5 DEF RestInv, RestTypeOK, JobFacts, Upload, Admit, Create, Enqueue, EnqueueFails
<1>7. JobFacts(j)'
  BY <1>4, <1>5, <1>6 DEF JobFacts, Working
<1>8. runner'[j] \notin Running
  BY <1>6 DEF Running
<1> QED BY <1>1, <1>2, <1>3, <1>4, <1>6, <1>7, <1>8, JobMoves

\* Its execution.
LEMMA RunKeeps ==
    ASSUME RestInv, LockInv, NEW j \in Jobs,
           \/ CheckLock(j) \/ CheckMark(j) \/ Authorize(j) \/ Revoke(j) \/ Start(j)
           \/ Finish(j, "completed") \/ Finish(j, "failed")
    PROVE  RestInv'
<1>1. UNCHANGED <<lockVars, deploy, rest, marks, erase, api>>
  BY DEF CheckLock, CheckMark, Authorize, Revoke, Start, Finish, RunnerTo
<1>2. RestTypeOK'
  BY DEF RestInv, RestTypeOK, CheckLock, CheckMark, Authorize, Revoke, Start, Finish, RunnerTo
<1>3. \A k \in Jobs : k # j => /\ rec'[k] = rec[k] /\ api'[k] = api[k] /\ runner'[k] = runner[k]
                               /\ erase'[k] = erase[k] /\ (k \in audio' <=> k \in audio)
                               /\ (k \in marks' <=> k \in marks)
  BY DEF RestInv, RestTypeOK, CheckLock, CheckMark, Authorize, Revoke, Start, Finish, RunnerTo
<1>4. JobFacts(j) /\ runner[j] \in Working
  BY DEF RestInv, CheckLock, CheckMark, Authorize, Revoke, Start, Finish, Working
<1>5. j \notin BackupJobs /\ j \notin marks /\ api[j] = "done"
  BY <1>4 DEF JobFacts, Working
<1>6. \/ runner'[j] = "skipped" /\ rec'[j] = rec[j]
      \/ runner'[j] = "unlocked" /\ rec'[j] = rec[j] /\ runner[j] = "scheduled" /\ ~ (Inline /\ isLocked)
      \/ runner'[j] \in Running /\ runner[j] \in Running /\ rec'[j] = rec[j]
      \/ runner'[j] = "running" /\ runner[j] \in Running /\ rec'[j] = "processing"
      \/ runner'[j] = "ended" /\ rec'[j] \in {"completed", "failed"}
  BY <1>5 DEF RestInv, RestTypeOK, CheckLock, CheckMark, Authorize, Revoke, Start, Finish, RunnerTo,
              LockSeen, Running
<1>7. JobFacts(j)'
  BY <1>1, <1>4, <1>5, <1>6 DEF JobFacts, Working, Running
<1>8. Inline /\ isLocked /\ runner'[j] \in Running => runner[j] \in Running
  BY <1>6 DEF Running
<1> QED BY <1>1, <1>2, <1>3, <1>5, <1>7, <1>8, JobMoves

\* Its erasure.
LEMMA EraseKeeps ==
    ASSUME RestInv, LockInv, NEW j \in Jobs, Mark(j) \/ EraseAudio(j) \/ EraseRecord(j)
    PROVE  RestInv'
<1>1. UNCHANGED <<lockVars, deploy, rest, api, runner>>
  BY DEF Mark, EraseAudio, EraseRecord
<1>2. RestTypeOK'
  BY DEF RestInv, RestTypeOK, Mark, EraseAudio, EraseRecord
<1>3. \A k \in Jobs : k # j => /\ rec'[k] = rec[k] /\ api'[k] = api[k] /\ runner'[k] = runner[k]
                               /\ erase'[k] = erase[k] /\ (k \in audio' <=> k \in audio)
                               /\ (k \in marks' <=> k \in marks)
  BY DEF RestInv, RestTypeOK, Mark, EraseAudio, EraseRecord
<1>4. JobFacts(j) /\ runner'[j] = runner[j] /\ api'[j] = api[j]
  BY <1>1 DEF RestInv
<1>5. /\ j \in marks' /\ rec'[j] \notin {"queued", "processing"}
      /\ \/ erase[j] = "idle" /\ rec'[j] = rec[j] /\ erase'[j] = "marked" /\ rec[j] \in Ended
         \/ rec'[j] = rec[j] /\ erase'[j] = "silent" /\ erase[j] # "idle"
         \/ rec'[j] = "none" /\ erase'[j] = "erased" /\ erase[j] # "idle"
  BY <1>4 DEF RestInv, RestTypeOK, JobFacts, Mark, EraseAudio, EraseRecord, Ended
<1>6. JobFacts(j)'
  BY <1>4, <1>5 DEF JobFacts, Working, Ended
<1> QED BY <1>1, <1>2, <1>3, <1>4, <1>5, <1>6, JobMoves

RestRecord == [at : RestSteps, todo : SUBSET BackupJobs, blocked : SUBSET BackupJobs,
               job : BackupJobs \cup {NoJob}]

\* Only the taking of the lock makes an operation of a call that was none.
LEMMA OperatingMoves ==
    ASSUME LockInv, NEW h \in Holders, [Refuse(h) \/ Renew(h) \/ EndOp(h) \/ Tick]_lockVars
    PROVE  delay' = delay /\ \A g \in Holders : Operating(g)' => Operating(g)
<1>1. \A g \in Holders : op[g] \in Call
  BY DEF LockInv, LockTypeOK, Call
<1>2. CASE UNCHANGED lockVars \/ Tick
  BY <1>2 DEF Tick, Operating, lockVars
<1>3. CASE Refuse(h)
  BY <1>1, <1>3 DEF Refuse, Operating, LockInv, LockTypeOK, Call
<1>4. CASE Renew(h)
  <2>1. Operating(h)
    BY <1>4 DEF Renew, LockInv, TimerRuns
  <2> QED BY <1>1, <1>4, <2>1 DEF Renew, Operating, LockInv, LockTypeOK, Call
<1>5. CASE EndOp(h)
  BY <1>1, <1>5 DEF EndOp, Operating, LockInv, LockTypeOK, Call
<1> QED BY <1>2, <1>3, <1>4, <1>5

\* What a step of one restore has to respect of the rest.
LEMMA RestMoves ==
    ASSUME RestInv, NEW h \in Holders, NEW x \in RestRecord, rest' = [rest EXCEPT ![h] = x],
           UNCHANGED <<delay, deploy, marks, api, runner, erase>>,
           rec' \in [Jobs -> {"none", "queued", "processing", "completed", "failed"}],
           audio \subseteq audio', audio' \subseteq Jobs,
           \A j \in Jobs : rec'[j] # rec[j] =>
               j \in BackupJobs /\ (rec'[j] = "completed" \/ (rec'[j] = "none" /\ j \in marks)),
           \A j \in marks : rec'[j] # "none" /\ rec'[j] # rec[j] => x.at = "recheck" /\ x.job = j,
           rest[h].at = "recheck" /\ rest[h].job \in marks =>
               \/ x.at \in {"error", "lost"} \/ rec'[rest[h].job] = "none"
               \/ x.at = "recheck" /\ x.job = rest[h].job,
           rest[h].at \in {"error", "lost"} => x.at = rest[h].at,
           Progress(h)',
           \A g \in Holders : Operating(g)' => Operating(g) \/ (g = h /\ x.at \notin Applies),
           x.at \in Applies => rest[h].at \in Applies \/ Active = {}
    PROVE  RestInv'
<1>1. rest'[h] = x /\ \A g \in Holders : g # h => rest'[g] = rest[g]
  BY DEF RestInv, RestTypeOK
<1>2. RestTypeOK'
  BY DEF RestInv, RestTypeOK, RestRecord
<1>3. ASSUME NEW k \in Jobs PROVE JobFacts(k)'
  <2>1. JobFacts(k) /\ api'[k] = api[k] /\ runner'[k] = runner[k] /\ erase'[k] = erase[k]
    BY DEF RestInv
  <2>2. CASE rec'[k] = rec[k]
    BY <2>1, <2>2 DEF JobFacts
  <2>3. CASE rec'[k] # rec[k]
    <3>1. k \in BackupJobs /\ rec'[k] \in {"completed", "none"}
      BY <2>3
    <3>2. api[k] = "idle" /\ runner[k] = "idle"
      BY <2>1, <3>1 DEF JobFacts
    <3> QED BY <2>1, <3>1, <3>2 DEF JobFacts, Working
  <2> QED BY <2>2, <2>3
<1>4. ASSUME NEW g \in Holders PROVE Progress(g)'
  <2>1. CASE g # h
    <3>1. Progress(g) /\ rest'[g] = rest[g] /\ BackupJobs \subseteq Jobs
      BY <1>1, <2>1, RestoreConstants DEF RestInv
    <3>2. \A k \in BackupJobs \ marks' : /\ k \in BackupJobs \ marks /\ (k \in audio => k \in audio')
                                         /\ rec[k] = "completed" => rec'[k] = "completed"
      BY <3>1
    <3> QED BY <3>1, <3>2 DEF Progress
  <2> QED BY <2>1
<1>5. IsFiniteSet(Active')
  <2>1. Active' \subseteq Active
    BY DEF Active
  <2> QED BY <2>1, FS_Subset DEF RestInv
<1>6. NoJobRunsDuringRestore'
  <2>1. SUFFICES ASSUME Inline, InTime, NEW g \in Holders, NEW k \in Jobs, Applying(g)'
                 PROVE  runner[k] \notin Running
    BY DEF NoJobRunsDuringRestore, Inline, InTime, Period, Running
  <2>2. Operating(g) /\ rest'[g].at \in Applies
    BY <1>1, <2>1 DEF Applying, Applies
  <2>3. CASE g # h \/ rest[h].at \in Applies
    <3>1. Applying(g)
      BY <1>1, <2>2, <2>3 DEF Applying, Applies
    <3> QED BY <2>1, <3>1 DEF RestInv, NoJobRunsDuringRestore, Running
  <2>4. CASE Active = {}
    <3>1. rec[k] \notin {"queued", "processing"} /\ JobFacts(k)
      BY <2>4 DEF Active, RestInv
    <3> QED BY <3>1 DEF JobFacts, Working, Running
  <2> QED BY <1>1, <2>2, <2>3, <2>4
<1>7. MarkedNotRevived'
  <2>1. SUFFICES ASSUME NEW k \in marks, rec'[k] # "none"
                 PROVE  \/ erase[k] \in {"marked", "silent"}
                        \/ \E g \in Holders : rest'[g].at = "recheck" /\ rest'[g].job = k
                        \/ \E g \in Holders : rest'[g].at \in {"error", "lost"}
    BY DEF MarkedNotRevived
  <2>2. CASE rec'[k] # rec[k]
    BY <1>1, <2>1, <2>2
  <2>3. CASE rec'[k] = rec[k] /\ erase[k] \notin {"marked", "silent"}
    <3>1. PICK g \in Holders : \/ rest[g].at = "recheck" /\ rest[g].job = k
                               \/ rest[g].at \in {"error", "lost"}
      BY <2>1, <2>3 DEF RestInv, MarkedNotRevived
    <3>2. CASE g # h
      BY <1>1, <3>1, <3>2
    <3>3. CASE g = h
      BY <1>1, <2>1, <3>1, <3>3
    <3> QED BY <3>2, <3>3
  <2> QED BY <2>2, <2>3
<1> QED BY <1>2, <1>3, <1>4, <1>5, <1>6, <1>7 DEF RestInv

\* A timer that runs, and time that passes.
LEMMA TimerKeeps ==
    ASSUME RestInv, LockInv, (\E h \in Holders : RenewTimer(h)) \/ Clock
    PROVE  RestInv'
<1>1. UNCHANGED <<deploy, rec, audio, marks, api, runner, erase, rest>>
  BY DEF RenewTimer, Clock, jobVars
<1>2. delay' = delay /\ \A g \in Holders : Operating(g)' => Operating(g)
  <2>1. CASE Clock
    BY <2>1 DEF Clock, Tick, Operating
  <2>2. ASSUME NEW h \in Holders, RenewTimer(h) PROVE delay' = delay /\ \A g \in Holders : Operating(g)' => Operating(g)
    BY <2>2, OperatingMoves DEF RenewTimer
  <2> QED BY <2>1, <2>2
<1>3. RestTypeOK' /\ MarkedNotRevived' /\ IsFiniteSet(Active')
  BY <1>1 DEF RestInv, RestTypeOK, MarkedNotRevived, Active
<1>4. \A j \in Jobs : JobFacts(j)'
  BY <1>1 DEF RestInv, JobFacts
<1>5. \A h \in Holders : Progress(h)'
  BY <1>1 DEF RestInv, Progress
<1>6. NoJobRunsDuringRestore'
  BY <1>1, <1>2 DEF RestInv, NoJobRunsDuringRestore, Applying, Inline, InTime, Period
<1> QED BY <1>3, <1>4, <1>5, <1>6 DEF RestInv

LEMMA RestTypes ==
    ASSUME RestInv, NEW h \in Holders
    PROVE  rest[h] \in RestRecord /\ Progress(h)
BY DEF RestInv, RestTypeOK, RestRecord

\* A step that moves restore h on and writes nothing.
LEMMA OnlyRestMoves ==
    ASSUME RestInv, NEW h \in Holders, NEW x \in RestRecord, rest' = [rest EXCEPT ![h] = x],
           UNCHANGED <<delay, jobVars>>,
           \A g \in Holders : Operating(g)' => Operating(g) \/ (g = h /\ x.at \notin Applies),
           x.at \in Applies => rest[h].at \in Applies \/ Active = {},
           rest[h].at \in {"error", "lost"} => x.at = rest[h].at,
           rest[h].at = "recheck" /\ rest[h].job \in marks => x.at \in {"error", "lost"},
           Progress(h)'
    PROVE  RestInv'
<1>1. UNCHANGED <<delay, deploy, rec, audio, marks, api, runner, erase>>
  BY DEF jobVars
<1>2. rec \in [Jobs -> {"none", "queued", "processing", "completed", "failed"}] /\ audio \subseteq Jobs
  BY DEF RestInv, RestTypeOK
<1> QED BY <1>1, <1>2, RestMoves

\* The route before its restore has begun to write.
LEMMA EntryKeeps ==
    ASSUME RestInv, LockInv, NEW h \in Holders,
           CountFirst(h) \/ TakeLock(h) \/ LockTaken(h) \/ Recount(h) \/ ChecksPass(h)
    PROVE  RestInv'
<1> DEFINE x == rest'[h]
<1>1. PICK s \in {"conflict", "counted", "recount", "refused", "checking", "blocking"} :
        /\ rest' = [rest EXCEPT ![h].at = s]
        /\ s \in {"conflict", "counted"} => rest[h].at = "route"
        /\ s = "checking" => rest[h].at = "recount" /\ ~ StillActive
        /\ s = "blocking" => rest[h].at = "checking"
        /\ s \in {"recount", "refused"} => rest[h].at = "counted"
  BY DEF CountFirst, TakeLock, LockTaken, Recount, ChecksPass, RestTo
<1>2. /\ rest' = [rest EXCEPT ![h] = x] /\ x.at = s /\ x.blocked = rest[h].blocked
      /\ x \in RestRecord
  BY <1>1 DEF RestInv, RestTypeOK, RestRecord, RestSteps, Outcomes
<1>3. Progress(h)'
  <2>1. UNCHANGED <<marks, rec, audio>>
    BY DEF CountFirst, TakeLock, LockTaken, Recount, ChecksPass, jobVars
  <2> QED BY <1>2, <2>1, RestTypes DEF Progress
<1>4. delay' = delay /\ \A g \in Holders : Operating(g)' => Operating(g) \/ (g = h /\ s = "recount")
  <2>1. CASE TakeLock(h)
    <3>1. Acquire(h) /\ rest'[h].at = "recount"
      BY <2>1 DEF TakeLock, RestTo, RestInv, RestTypeOK
    <3>2. \A g \in Holders : g # h => op'[g] = op[g]
      BY <3>1 DEF Acquire, LockInv, LockTypeOK
    <3> QED BY <1>2, <3>1, <3>2 DEF Acquire, Operating
  <2>2. CASE ~ TakeLock(h)
    <3>1. Refuse(h) \/ UNCHANGED lockVars
      BY <2>2 DEF CountFirst, LockTaken, Recount, ChecksPass
    <3> QED BY <3>1, OperatingMoves
  <2> QED BY <2>1, <2>2
<1>5. s = "checking" => Active = {}
  <2>1. IsFiniteSet(Active)
    BY DEF RestInv
  <2>2. Cardinality(Active) \in Nat /\ (Cardinality(Active) = 0 <=> Active = {})
    BY <2>1, FS_CardinalityType, FS_EmptySet
  <2> QED BY <1>1, <2>2 DEF StillActive, countActiveJobs
<1>6. /\ s \in Applies => rest[h].at \in Applies \/ Active = {}
      /\ rest[h].at \notin {"error", "lost", "recheck"} /\ "recount" \notin Applies
  BY <1>1, <1>5 DEF Applies
<1>7. UNCHANGED jobVars
  BY DEF CountFirst, TakeLock, LockTaken, Recount, ChecksPass
<1> HIDE DEF x
<1> QED BY <1>2, <1>3, <1>4, <1>6, <1>7, OnlyRestMoves

\* The end of withLock(): whatever the restore had reached.
LEMMA LeaveKeeps ==
    ASSUME RestInv, LockInv, NEW h \in Holders, NEW outcome \in Outcomes, Leave(h, outcome),
           rest[h].at \notin {"error", "lost"},
           rest[h].at = "recheck" => outcome = "error"
    PROVE  RestInv'
<1>1. PICK s \in Outcomes : rest' = [rest EXCEPT ![h].at = s] /\ (rest[h].at = "recheck" => s \in {"error", "lost"})
  BY DEF Leave, RestTo, Outcomes
<1> DEFINE x == rest'[h]
<1>2. /\ rest' = [rest EXCEPT ![h] = x] /\ x.at = s /\ x.blocked = rest[h].blocked /\ x \in RestRecord
  BY <1>1 DEF RestInv, RestTypeOK, RestRecord, RestSteps
<1>3. UNCHANGED jobVars /\ s \notin Applies
  BY DEF Leave, Applies, Outcomes
<1>4. Progress(h)'
  BY <1>2, <1>3, RestTypes DEF Progress, jobVars, Outcomes
<1>5. delay' = delay /\ \A g \in Holders : Operating(g)' => Operating(g)
  BY OperatingMoves DEF Leave
<1> HIDE DEF x
<1> QED BY <1>1, <1>2, <1>3, <1>4, <1>5, OnlyRestMoves

\* _apply() between its writes.
LEMMA ApplyKeeps ==
    ASSUME RestInv, NEW h \in Holders,
           \/ MarksNoted(h) \/ AudioDone(h) \/ KeepRecord(h) \/ RecordsDone(h)
           \/ \E j \in BackupJobs : NoteMark(h, j) \/ LookRecord(h, j)
    PROVE  RestInv'
<1> DEFINE x == rest'[h]
<1>1. UNCHANGED <<lockVars, jobVars>>
  BY DEF MarksNoted, AudioDone, KeepRecord, RecordsDone, NoteMark, LookRecord
<1>2. rest[h] \in RestRecord /\ Progress(h)
  BY RestTypes
<1>3. \E y \in RestRecord : rest' = [rest EXCEPT ![h] = y]
  <2>1. CASE MarksNoted(h) \/ AudioDone(h) \/ KeepRecord(h) \/ RecordsDone(h)
    BY <1>2, <2>1 DEF MarksNoted, AudioDone, KeepRecord, RecordsDone, RestTo, RestRecord, RestSteps,
                      RestInv, RestTypeOK
  <2>2. ASSUME NEW j \in BackupJobs, NoteMark(h, j) \/ LookRecord(h, j)
        PROVE  \E y \in RestRecord : rest' = [rest EXCEPT ![h] = y]
    <3>1. PICK b \in {rest[h].blocked, rest[h].blocked \cup {j}}, s \in {"jobs", "write"},
               k \in BackupJobs \cup {NoJob} :
            \/ rest' = [rest EXCEPT ![h].todo = @ \ {j}, ![h].blocked = b]
            \/ rest' = [rest EXCEPT ![h].todo = @ \ {j}, ![h].at = s, ![h].job = k]
      BY <1>2, <2>2 DEF NoteMark, LookRecord, RestRecord
    <3> DEFINE y == [rest[h] EXCEPT !.todo = @ \ {j}, !.blocked = b]
               z == [rest[h] EXCEPT !.todo = @ \ {j}, !.at = s, !.job = k]
    <3>2. y \in RestRecord /\ z \in RestRecord
      BY <1>2 DEF RestRecord, RestSteps
    <3>3. rest' = [rest EXCEPT ![h] = y] \/ rest' = [rest EXCEPT ![h] = z]
      BY <1>2, <3>1 DEF RestInv, RestTypeOK, RestRecord
    <3> HIDE DEF y, z
    <3> QED BY <3>2, <3>3
  <2> QED BY <2>1, <2>2
<1>4. rest' = [rest EXCEPT ![h] = x] /\ x \in RestRecord
  BY <1>3 DEF RestInv, RestTypeOK
<1>5. /\ rest[h].at \in Applies
      /\ rest[h].at = "recheck" => rest[h].job \notin marks
  BY DEF MarksNoted, AudioDone, KeepRecord, RecordsDone, NoteMark, LookRecord, Applies, MustTakeBack
<1>6. Progress(h)'
  <2>0. UNCHANGED <<marks, rec, audio>>
    BY <1>1 DEF jobVars
  <2>1. CASE MarksNoted(h)
    <3>1. x.at = "audio" /\ x.todo = BackupJobs \ rest[h].blocked /\ x.blocked = rest[h].blocked
      BY <1>2, <2>1 DEF MarksNoted, RestInv, RestTypeOK, RestRecord
    <3> QED BY <1>2, <2>0, <3>1 DEF Progress
  <2>2. CASE AudioDone(h)
    <3>1. x.at = "jobs" /\ x.todo = BackupJobs /\ x.blocked = rest[h].blocked /\ rest[h].at = "audio"
          /\ rest[h].todo = {}
      BY <1>2, <2>2 DEF AudioDone, RestInv, RestTypeOK, RestRecord
    <3> QED BY <1>2, <2>0, <3>1 DEF Progress
  <2>3. CASE KeepRecord(h)
    <3>1. x.at = "jobs" /\ x.todo = rest[h].todo /\ x.blocked = rest[h].blocked /\ rest[h].at = "recheck"
      BY <1>2, <2>3 DEF KeepRecord, RestInv, RestTypeOK, RestRecord
    <3> QED BY <1>2, <2>0, <3>1 DEF Progress
  <2>4. CASE RecordsDone(h)
    <3>1. x.at = "audit" /\ x.todo = {} /\ x.blocked = rest[h].blocked /\ rest[h].at = "jobs"
          /\ rest[h].todo = {}
      BY <1>2, <2>4 DEF RecordsDone, RestTo, RestInv, RestTypeOK, RestRecord
    <3> QED BY <1>2, <2>0, <3>1 DEF Progress
  <2>5. ASSUME NEW j \in BackupJobs, NoteMark(h, j) PROVE Progress(h)'
    <3>1. x.at = "blocking" /\ x.blocked \subseteq rest[h].blocked \cup marks
      BY <1>2, <2>5 DEF NoteMark, RestInv, RestTypeOK, RestRecord
    <3> QED BY <1>2, <2>0, <3>1 DEF Progress
  <2>6. ASSUME NEW j \in BackupJobs, LookRecord(h, j) PROVE Progress(h)'
    <3>1. x.todo = rest[h].todo \ {j} /\ x.blocked = rest[h].blocked /\ rest[h].at = "jobs"
          /\ \/ j \in marks /\ x.at = "jobs"
             \/ j \notin marks /\ x.at = "write" /\ x.job = j
      BY <1>2, <2>6 DEF LookRecord, RestInv, RestTypeOK, RestRecord
    <3> QED BY <1>2, <2>0, <3>1 DEF Progress
  <2> QED BY <2>1, <2>2, <2>3, <2>4, <2>5, <2>6
<1>7. delay' = delay /\ \A g \in Holders : Operating(g)' => Operating(g)
  BY <1>1 DEF lockVars, Operating
<1>8. rest[h].at \notin {"error", "lost"}
  BY <1>5 DEF Applies
<1> HIDE DEF x
<1> QED BY <1>1, <1>4, <1>5, <1>6, <1>7, <1>8, OnlyRestMoves

\* Its writes: a file, a record, and the record that is taken back.
LEMMA PutAudioKeeps ==
    ASSUME RestInv, NEW h \in Holders, NEW j \in BackupJobs, PutAudio(h, j)
    PROVE  RestInv'
<1> DEFINE x == [rest[h] EXCEPT !.todo = @ \ {j}]
<1>1. rest' = [rest EXCEPT ![h] = x] /\ audio' = audio \cup {j} /\ rest[h].at = "audio"
      /\ UNCHANGED <<lockVars, deploy, rec, marks, api, runner, erase>>
  BY DEF PutAudio
<1>2. rest[h] \in RestRecord /\ Progress(h) /\ j \in Jobs
  BY RestTypes, RestoreConstants
<1>3. x \in RestRecord /\ x.at = "audio" /\ x.todo = rest[h].todo \ {j} /\ x.blocked = rest[h].blocked
  BY <1>1, <1>2 DEF RestRecord
<1> HIDE DEF x
<1>4. rest'[h] = x
  BY <1>1 DEF RestInv, RestTypeOK
<1>5. Progress(h)'
  BY <1>1, <1>2, <1>3, <1>4 DEF Progress
<1>6. audio \subseteq audio' /\ audio' \subseteq Jobs /\ rest[h].at \in Applies /\ x.at # "recheck"
      /\ rec \in [Jobs -> {"none", "queued", "processing", "completed", "failed"}]
  BY <1>1, <1>2, <1>3 DEF RestInv, RestTypeOK, Applies
<1>7. UNCHANGED delay /\ \A g \in Holders : Operating(g)' => Operating(g)
  BY <1>1 DEF lockVars, Operating
<1> QED BY <1>1, <1>3, <1>5, <1>6, <1>7, RestMoves

LEMMA WriteRecordKeeps ==
    ASSUME RestInv, NEW h \in Holders, WriteRecord(h) \/ TakeBack(h)
    PROVE  RestInv'
<1> DEFINE j == rest[h].job
<1>1. rest[h] \in RestRecord /\ Progress(h) /\ j \in BackupJobs /\ j \in Jobs
      /\ UNCHANGED <<lockVars, deploy, audio, marks, api, runner, erase>>
  BY RestTypes, RestoreConstants DEF Progress, WriteRecord, TakeBack
<1>2. PICK x \in RestRecord, r \in {"completed", "none"} :
        /\ rest' = [rest EXCEPT ![h] = x]
        /\ rec' = [rec EXCEPT ![j] = r]
        /\ x.todo = rest[h].todo /\ x.blocked = rest[h].blocked
        /\ \/ r = "completed" /\ x.at = "recheck" /\ x.job = j /\ rest[h].at = "write"
           \/ r = "none" /\ x.at = "jobs" /\ rest[h].at = "recheck" /\ j \in marks
  <2>1. CASE WriteRecord(h)
    <3> DEFINE y == [rest[h] EXCEPT !.at = "recheck"]
    <3>1. rest' = [rest EXCEPT ![h] = y]
      BY <2>1 DEF WriteRecord, RestTo
    <3>2. y \in RestRecord /\ y.todo = rest[h].todo /\ y.blocked = rest[h].blocked
          /\ y.at = "recheck" /\ y.job = j
      BY <1>1 DEF RestRecord, RestSteps
    <3> HIDE DEF y
    <3> QED BY <1>1, <2>1, <3>1, <3>2 DEF WriteRecord
  <2>2. CASE TakeBack(h)
    <3> DEFINE y == [rest[h] EXCEPT !.at = "jobs", !.job = NoJob]
    <3>1. rest' = [rest EXCEPT ![h] = y]
      BY <1>1, <2>2 DEF TakeBack, RestInv, RestTypeOK, RestRecord
    <3>2. y \in RestRecord /\ y.todo = rest[h].todo /\ y.blocked = rest[h].blocked /\ y.at = "jobs"
      BY <1>1 DEF RestRecord, RestSteps
    <3> HIDE DEF y
    <3> QED BY <1>1, <2>2, <3>1, <3>2 DEF TakeBack, MustTakeBack
  <2> QED BY <2>1, <2>2
<1> HIDE DEF j
<1>5. rest'[h] = x /\ rec'[j] = r /\ \A i \in Jobs : i # j => rec'[i] = rec[i]
  BY <1>1, <1>2 DEF RestInv, RestTypeOK
<1>6. Progress(h)'
  BY <1>1, <1>2, <1>5, RestoreConstants DEF Progress, j
<1>7. /\ rec' \in [Jobs -> {"none", "queued", "processing", "completed", "failed"}]
      /\ audio \subseteq audio' /\ audio' \subseteq Jobs
      /\ rest[h].at \in Applies /\ rest[h].at \notin {"error", "lost"}
  BY <1>1, <1>2 DEF RestInv, RestTypeOK, Applies
<1>8. \A i \in Jobs : rec'[i] # rec[i] =>
          i \in BackupJobs /\ (rec'[i] = "completed" \/ (rec'[i] = "none" /\ i \in marks))
  BY <1>1, <1>2, <1>5
<1>9. \A i \in marks : rec'[i] # "none" /\ rec'[i] # rec[i] => x.at = "recheck" /\ x.job = i
  BY <1>1, <1>2, <1>5 DEF RestInv, RestTypeOK
<1>10. rest[h].at = "recheck" => rec'[rest[h].job] = "none"
  BY <1>2, <1>5 DEF j
<1>11. UNCHANGED delay /\ \A g \in Holders : Operating(g)' => Operating(g)
  BY <1>1 DEF lockVars, Operating
<1> QED BY <1>1, <1>2, <1>6, <1>7, <1>8, <1>9, <1>10, <1>11, RestMoves

LEMMA RestInv_Step ==
    ASSUME RestInv, LockInv, [Next]_vars
    PROVE  RestInv'
<1>1. CASE UNCHANGED vars
  <2>1. RestTypeOK' /\ MarkedNotRevived' /\ IsFiniteSet(Active')
    BY <1>1 DEF vars, RestInv, RestTypeOK, MarkedNotRevived, Active
  <2>2. \A j \in Jobs : JobFacts(j)'
    BY <1>1 DEF vars, RestInv, JobFacts
  <2>3. \A h \in Holders : Progress(h)'
    BY <1>1 DEF vars, RestInv, Progress
  <2>4. NoJobRunsDuringRestore'
    BY <1>1 DEF vars, lockVars, RestInv, NoJobRunsDuringRestore, Applying, Operating, Inline, InTime, Period
  <2> QED BY <2>1, <2>2, <2>3, <2>4 DEF RestInv
<1>2. ASSUME NEW j \in Jobs, JobStep(j) PROVE RestInv'
  BY <1>2, RequestKeeps, RunKeeps, EraseKeeps DEF JobStep
<1>3. ASSUME NEW h \in Holders, RestoreStep(h) PROVE RestInv'
  <2>1. CASE ChecksFail(h) \/ Stopped(h) \/ StoreFails(h) \/ WriteBarred(h) \/ TakeBackFails(h)
             \/ AuditRestore(h) \/ RecountConflict(h)
    <3>1. PICK outcome \in Outcomes : Leave(h, outcome) /\ rest[h].at \notin {"error", "lost"}
                                      /\ (rest[h].at = "recheck" => outcome = "error")
      BY <2>1 DEF ChecksFail, Stopped, StoreFails, WriteBarred, TakeBackFails, AuditRestore,
                  RecountConflict, Outcomes
    <3> QED BY <3>1, LeaveKeeps
  <2> QED BY <1>3, <2>1, EntryKeeps, ApplyKeeps, PutAudioKeeps, WriteRecordKeeps, TimerKeeps DEF RestoreStep
<1> QED BY <1>1, <1>2, <1>3, TimerKeeps DEF Next

\* The invariant of a restore and of everything that runs beside it.
THEOREM RestoreInvariant == Spec => []RestInv
<1>1. RestInv /\ LockInv /\ [Next]_vars => RestInv'
  BY RestInv_Step
<1> QED BY RestInv_Init, <1>1, RestoreImplementsLock, LockInvariant, PTL DEF Spec

\* Types of the restore, of the jobs beside it and of the lock.
THEOREM RestoreTypes == Spec => []TypeOK
<1>1. RestInv /\ LockInv => TypeOK
  BY DEF RestInv, RestTypeOK, LockInv, TypeOK
<1> QED BY RestoreInvariant, RestoreImplementsLock, LockInvariant, <1>1, PTL

\* While its lease holds, no job of the process runs beside a restore that
\* writes (routes/backup.js counts again under the lock; jobRunner.js looks at it).
THEOREM RestoreIsAlone == Spec => []NoJobRunsDuringRestore
<1>1. RestInv => NoJobRunsDuringRestore
  BY DEF RestInv
<1> QED BY RestoreInvariant, <1>1, PTL

\* A restore brings no marked job back, or says that it failed.
THEOREM RestoreKeepsErased == Spec => []MarkedNotRevived
<1>1. RestInv => MarkedNotRevived
  BY DEF RestInv
<1> QED BY RestoreInvariant, <1>1, PTL

\* A restore reports success only when every unmarked job of the backup is back.
THEOREM RestoreIsComplete == Spec => []ReportedIsRestored
<1>1. RestInv => ReportedIsRestored
  BY RestInvReports
<1> QED BY RestoreInvariant, <1>1, PTL
=============================================================================
