------------------------------ MODULE JobStore ------------------------------
(***************************************************************************)
(* The job store facade (utils/jobStore/index.js, "system") over one of    *)
(* its three backends, for one job record and any number of callers.       *)
(*                                                                         *)
(* Every await of the code is a point where another caller may step, so a  *)
(* call is a small program: the tombstone barrier, one or two reads, a     *)
(* write that is conditional on the version that was read or is not, and   *)
(* the answer.  calls[c] is caller c's call; its "at" names the next step. *)
(***************************************************************************)
EXTENDS JobPhase

CONSTANTS
    Callers,    \* everything that can have a call under way
    Backend,    \* "memory", "redis" or "postgres"
    JobType,
    NoJob,      \* the store's answer when it holds no record
    Issued,     \* the requests the callers of a run make
    MaxVersion  \* bound: no new call once the record is this old

Request ==
    [op : {"startPhase"}, phase : Phases]
      \cup [op : {"restart", "finishFailed", "remove"}]
      \cup [op : {"reportProgress"}, phase : Phases, current : Progress]
      \cup [op : {"finish"}, result : Results]
      \cup [op : {"update"}, patch : {"audioReleased", "audioKept", "attemptNoted"}]

(* The operations whose write does not depend on what is stored by then.   *)
BlindOps == {"restart", "update"}

ASSUME CallersAssumption == Backend \in {"memory", "redis", "postgres"}
                            /\ JobType \in JobTypes
                            /\ MaxVersion \in Nat
ASSUME IssuedAssumption == Issued \subseteq Request
ASSUME NoJobAssumption == NoJob \notin Job

Steps == {"idle", "barrier", "read", "reread", "write", "reclassify", "done"}

Replies == {"none", "ok", "null", "CONCURRENCY_CONFLICT", "RESULT_CONFLICT",
            "COMPLETED_WITHOUT_RESULT", "JOB_ALREADY_TERMINAL", "INVALID_STATUS_PHASE",
            "PHASE_NOT_ALLOWED_FOR_TYPE", "ILLEGAL_TRANSITION",
            "ILLEGAL_TERMINAL_TRANSITION", "COMPLETED_REQUIRES_RESULT"}

NoRequest == [op |-> "none"]

VARIABLES
    job,        \* the stored record, or NoJob
    marked,     \* an erasure mark exists: tombstones.isDeleted(id)
    calls,
    acked       \* history: the results a finish(COMPLETED) answered with the job

vars == <<job, marked, calls, acked>>

Idle == [at |-> "idle", req |-> NoRequest, snap |-> NoJob, tries |-> 0, reply |-> "none"]

TypeOK ==
    /\ job \in Job \cup {NoJob}
    /\ marked \in BOOLEAN
    /\ calls \in [Callers -> [at : Steps, req : Request \cup {NoRequest},
                              snap : Job \cup {NoJob}, tries : 0 .. 2, reply : Replies]]
    /\ acked \subseteq Results

Init ==
    /\ job = newJob(JobType)
    /\ marked = FALSE
    /\ calls = [c \in Callers |-> Idle]
    /\ acked = {}

-----------------------------------------------------------------------------
(* Moving one call along.                                                  *)

Goto(c, step) == calls' = [calls EXCEPT ![c].at = step]
Answer(c, reply) == calls' = [calls EXCEPT ![c].at = "done", ![c].reply = reply]
Snapshot(c, step) == calls' = [calls EXCEPT ![c].at = step, ![c].snap = job]

(* finish() returned the job object: the caller now holds its result to be *)
(* committed.                                                              *)
Ack(c) == acked' = IF calls[c].req.op = "finish" THEN acked \cup {calls[c].req.result} ELSE acked

finishStatus(req) == IF req.op = "finish" THEN "completed" ELSE "failed"
finishResult(req) == IF req.op = "finish" THEN req.result ELSE NoResult

(* The record a call's patch makes of j.                                   *)
Patched(j, req) ==
    CASE req.op = "startPhase" -> PhaseStarted(j, req.phase)
      [] req.op = "restart" -> Restarted(j)
      [] req.op \in {"finish", "finishFailed"} -> Finished(j, finishStatus(req), finishResult(req))
      [] req.op = "update" /\ req.patch = "audioReleased" -> AudioReleased(j)
      [] req.op = "update" /\ req.patch = "audioKept" -> AudioKept(j)
      [] OTHER -> AttemptNoted(j)

Refusal(j, req) ==
    CASE req.op = "startPhase" -> startPhaseRefusal(j, req.phase)
      [] req.op = "restart" -> restartRefusal(j)
      [] req.op \in {"finish", "finishFailed"} -> finishRefusal(j, finishStatus(req), finishResult(req))
      [] OTHER -> "none"

(* What the caller of finishFailed() sees of an error: a job that has      *)
(* already ended is an answer, not a failure.                              *)
Seen(req, refusal) ==
    IF req.op = "finishFailed" /\ refusal = "JOB_ALREADY_TERMINAL" THEN "ok" ELSE refusal

-----------------------------------------------------------------------------
(* A call as it starts: remove() asks no barrier.                          *)
Call(req) == [Idle EXCEPT !.at = IF req.op = "remove" THEN "write" ELSE "barrier",
                          !.req = req, !.tries = 1]

Invoke(c, req) ==
    /\ calls[c].at = "idle"
    /\ calls' = [calls EXCEPT ![c] = Call(req)]
    /\ UNCHANGED <<job, marked, acked>>

(* blockedByTombstone(): asked once, before anything is read.  Then the    *)
(* facade reads the record, except where the backend decides in one step.  *)
Barrier(c) ==
    /\ calls[c].at = "barrier"
    /\ IF marked THEN Answer(c, "null")
       ELSE Goto(c, CASE calls[c].req.op \in {"startPhase", "restart", "reportProgress"} -> "read"
                      [] calls[c].req.op \in {"finish", "finishFailed"} ->
                            IF Backend = "redis" THEN "read" ELSE "write"
                      [] calls[c].req.op = "update" ->
                            IF Backend = "memory" THEN "write" ELSE "reread")
    /\ UNCHANGED <<job, marked, acked>>

(* The read the decision is made on.                                       *)
Read(c) ==
    LET req == calls[c].req IN
    /\ calls[c].at = "read"
    /\ IF job = NoJob THEN Answer(c, "null") /\ UNCHANGED acked
       ELSE IF req.op = "reportProgress"
       THEN /\ IF progressAccepted(job, req) THEN Snapshot(c, "write") ELSE Answer(c, "ok")
            /\ UNCHANGED acked
       ELSE IF req.op = "finish" /\ idempotentiskasAtsakymas(job, "completed", req.result) # "undefined"
       THEN /\ Answer(c, idempotentiskasAtsakymas(job, "completed", req.result))
            /\ IF job.result = req.result THEN Ack(c) ELSE UNCHANGED acked
       ELSE /\ IF Refusal(job, req) # "none" THEN Answer(c, Seen(req, Refusal(job, req)))
               ELSE Snapshot(c, IF req.op = "restart" /\ Backend # "memory" THEN "reread" ELSE "write")
            /\ UNCHANGED acked
    /\ UNCHANGED <<job, marked>>

(* The backend's own read inside update(): the record the whole write is   *)
(* built from.                                                             *)
Reread(c) ==
    /\ calls[c].at = "reread"
    /\ IF job = NoJob THEN Answer(c, "null") ELSE Snapshot(c, "write")
    /\ UNCHANGED <<job, marked, acked>>

(* CAS_VERSIJA_LUA: the write lands only on the version that was read.     *)
VersionHolds_Any(c) == TRUE

VersionHolds(c) == job.version = calls[c].snap.version

(* update(..., { expectedVersion }): startPhase everywhere, finish on      *)
(* Redis.                                                                  *)
WriteCas(c) ==
    LET req == calls[c].req IN
    /\ calls[c].at = "write"
    /\ \/ req.op = "startPhase"
       \/ req.op \in {"finish", "finishFailed"} /\ Backend = "redis"
    /\ \/ /\ job = NoJob
          /\ Answer(c, "null")
          /\ UNCHANGED <<job, acked>>
       \/ /\ job # NoJob /\ VersionHolds(c)
          /\ job' = Patched(calls[c].snap, req)
          /\ Answer(c, "ok")
          /\ Ack(c)
       \/ /\ job # NoJob /\ ~VersionHolds(c)
          /\ IF req.op = "startPhase" THEN Answer(c, "CONCURRENCY_CONFLICT") ELSE Goto(c, "reclassify")
          /\ UNCHANGED <<job, acked>>
    /\ UNCHANGED marked

(* finishFailed() tries twice.                                             *)
LastTry(c) == calls[c].tries = 2

(* After a lost CAS: finish() reads once more and classifies;              *)
(* finishFailed() accepts any end and otherwise tries a second time.       *)
Reclassify(c) ==
    LET req == calls[c].req IN
    /\ calls[c].at = "reclassify"
    /\ IF job = NoJob THEN Answer(c, "null") /\ UNCHANGED acked
       ELSE IF req.op = "finish"
       THEN LET answer == idempotentiskasAtsakymas(job, "completed", req.result) IN
            /\ Answer(c, IF answer = "undefined" THEN "CONCURRENCY_CONFLICT" ELSE answer)
            /\ IF answer = "ok" THEN Ack(c) ELSE UNCHANGED acked
       ELSE /\ IF isFinished(job) THEN Answer(c, "ok")
               ELSE IF LastTry(c) THEN Answer(c, "CONCURRENCY_CONFLICT")
               ELSE calls' = [calls EXCEPT ![c].at = "read", ![c].tries = @ + 1]
            /\ UNCHANGED acked
    /\ UNCHANGED <<job, marked>>

(* finishAtomic() of memory and PostgreSQL: one step, or one transaction   *)
(* that holds the row.                                                     *)
WriteFinish(c) ==
    LET req == calls[c].req
        answer == idempotentiskasAtsakymas(job, finishStatus(req), finishResult(req)) IN
    /\ calls[c].at = "write"
    /\ req.op \in {"finish", "finishFailed"} /\ Backend # "redis"
    /\ \/ /\ job = NoJob
          /\ Answer(c, "null")
          /\ UNCHANGED <<job, acked>>
       \/ /\ job # NoJob /\ answer # "undefined"
          /\ Answer(c, answer)
          /\ IF answer = "ok" THEN Ack(c) ELSE UNCHANGED acked
          /\ UNCHANGED job
       \/ /\ job # NoJob /\ answer = "undefined" /\ Refusal(job, req) # "none"
          /\ Answer(c, Seen(req, Refusal(job, req)))
          /\ UNCHANGED <<job, acked>>
       \/ /\ job # NoJob /\ answer = "undefined" /\ Refusal(job, req) = "none"
          /\ job' = Patched(job, req)
          /\ Answer(c, "ok")
          /\ Ack(c)
    /\ UNCHANGED marked

(* update() without a condition.  Memory patches the record it holds now;  *)
(* Redis writes the whole record built from its read, present or not;      *)
(* PostgreSQL writes every column of that record where the row still is,   *)
(* and leaves the result, which is a row of its own.                       *)
BlindOutcome(snap, req) ==
    CASE Backend = "memory" -> IF job = NoJob THEN NoJob ELSE Patched(job, req)
      [] Backend = "redis" ->
            [Patched(snap, req) EXCEPT !.version = IF job = NoJob THEN 1 ELSE job.version + 1]
      [] Backend = "postgres" ->
            IF job = NoJob THEN NoJob
            ELSE [Patched(snap, req) EXCEPT !.version = job.version + 1, !.result = job.result]

WriteBlind(c) ==
    LET outcome == BlindOutcome(calls[c].snap, calls[c].req) IN
    /\ calls[c].at = "write"
    /\ calls[c].req.op \in BlindOps
    /\ job' = outcome
    /\ Answer(c, IF outcome = NoJob THEN "null" ELSE "ok")
    /\ UNCHANGED <<marked, acked>>

(* reportProgressAtomic(): the decision is repeated where the write is.    *)
WriteProgress(c) ==
    /\ calls[c].at = "write"
    /\ calls[c].req.op = "reportProgress"
    /\ \/ /\ job = NoJob
          /\ Answer(c, "null")
          /\ UNCHANGED job
       \/ /\ job # NoJob
          /\ job' = IF progressAccepted(job, calls[c].req) THEN Progressed(job, calls[c].req) ELSE job
          /\ Answer(c, "ok")
    /\ UNCHANGED <<marked, acked>>

Remove(c) ==
    /\ calls[c].at = "write"
    /\ calls[c].req.op = "remove"
    /\ job' = NoJob
    /\ Answer(c, IF job = NoJob THEN "null" ELSE "ok")
    /\ UNCHANGED <<marked, acked>>

(* The caller goes on with the answer.                                     *)
Collect(c) ==
    /\ calls[c].at = "done"
    /\ calls' = [calls EXCEPT ![c] = Idle]
    /\ UNCHANGED <<job, marked, acked>>

(* tombstones.mark(): the barrier goes up, and no other write is undone.   *)
MarkDeleted ==
    /\ ~marked
    /\ marked' = TRUE
    /\ UNCHANGED <<job, calls, acked>>

Step(c) ==
    \/ Barrier(c)
    \/ Read(c)
    \/ Reread(c)
    \/ WriteCas(c)
    \/ Reclassify(c)
    \/ WriteFinish(c)
    \/ WriteBlind(c)
    \/ WriteProgress(c)
    \/ Remove(c)

Young == job # NoJob => job.version < MaxVersion

Next ==
    \/ \E c \in Callers : Step(c) \/ Collect(c)
    \/ \E c \in Callers, req \in Issued : Young /\ Invoke(c, req)
    \/ MarkDeleted

Spec == Init /\ [][Next]_vars

-----------------------------------------------------------------------------
(* An answered finish(COMPLETED) is a promise: as long as the record       *)
(* exists it is completed with exactly that result, whatever other         *)
(* callers do afterwards.                                                  *)
AckedResultKept ==
    \A r \in acked : job # NoJob => job.status = "completed" /\ job.result = r

(* A stored record is one jobPhase can go on from: it never says           *)
(* "processing" without a phase of its graph, and never "completed"        *)
(* without a result.                                                       *)
RecordConsistent ==
    job # NoJob =>
        IF job.status = "completed" THEN job.result # NoResult /\ job.phase = NoPhase
        ELSE isFinished(job) \/ ConsistentSource(job)

(* Within one phase progress never goes back, however late and in whatever *)
(* order the reports of the callers arrive.                                *)
ProgressNeverBack ==
    [][ (/\ job # NoJob /\ job' # NoJob
         /\ job.phase = job'.phase
         /\ job.progress # NoProgress /\ job'.progress # NoProgress)
        => job'.progress >= job.progress ]_vars

(* A record that was removed stays away: no call that read it before and   *)
(* writes after, however late, brings it back (the row is updated where it *)
(* is, never inserted, by postgresStore.js and memoryStore.js).            *)
RemovedStaysRemoved == [][job = NoJob => job' = NoJob]_vars

(* The store implements the lifecycle it promises.                         *)
Lifecycle ==
    INSTANCE JobLifecycle WITH
        stage <- IF job = NoJob THEN "removed" ELSE job.status,
        value <- IF job = NoJob THEN NoResult ELSE job.result

LifecycleSpec == Lifecycle!Spec
=============================================================================
