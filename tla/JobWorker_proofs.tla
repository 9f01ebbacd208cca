------------------------- MODULE JobWorker_proofs ---------------------------
(***************************************************************************)
(* What a job that the queue worker runs is owed, for every set of         *)
(* workers, results and attempts, on each backend of the store, however    *)
(* many processes die and whenever the job is erased.                      *)
(*                                                                         *)
(* restart() and update() write what they read without looking again, so   *)
(* the store alone does not keep these promises; what keeps them is that   *)
(* one worker at a time has a hand in the job.  OneAtATime says so, and    *)
(* the runs on workers show what is lost without it.                       *)
(***************************************************************************)
EXTENDS JobWorker, JobStore_proofs

(* A worker that lives renews its lock in time, and a retry waits for the  *)
(* failed handler of the attempt before it.                                *)
OneAtATime == ~LiveStalls /\ HandlersSettle

-----------------------------------------------------------------------------
(* The invariant, in three parts.                                          *)

RunRec == [at : RunSteps, value : Results \cup {NoResult},
           why : {"none", "retryable", "fatal"} \cup Replies]
HandRec == [at : HandSteps, fatal : BOOLEAN, last : BOOLEAN]
QueueRec == [state : {"waiting", "active", "completed", "failed", "removed"},
             owner : Workers \cup {NoWorker}, made : 0 .. MaxAttempts, stalls : 0 .. MaxStalls]

WorkerTypes ==
    /\ TypeInv
    /\ queue \in QueueRec /\ run \in [Workers -> RunRec] /\ hand \in [Workers -> HandRec]
    /\ audio \in BOOLEAN /\ erase \in EraseSteps
    /\ crashes \in 0 .. MaxCrashes /\ orphaned \in BOOLEAN
    /\ queue.state \in {"waiting", "active"} => queue.made < MaxAttempts

(* Control: the holder of the lock runs the processor function, a failed   *)
(* handler is at work only while nobody holds the job, and what a thread   *)
(* has under way in the store is what its worker waits for.                *)
RunsLocked ==
    /\ \A w \in Workers : run[w].at # "idle" => Locked(w)
    /\ queue.state = "active" => queue.owner \in Workers

HandsAlone ==
    /\ queue.state \in {"active", "completed"} => \A w \in Workers : hand[w].at = "idle"
    /\ \A v, w \in Workers : hand[v].at # "idle" /\ hand[w].at # "idle" => v = w

RunOps(step) ==
    CASE step = "restarting" -> {"restart"}
      [] step = "revoking" -> {"finishFailed"}
      [] step \in {"transcribing", "diarizing", "merging"} -> {"startPhase"}
      [] step = "finishing" -> {"finish"}
      [] step = "releasing" -> {"update"}
      [] OTHER -> {}

HandOps(step) ==
    CASE step = "finishing" -> {"finishFailed"}
      [] step \in {"noting", "releasing"} -> {"update"}
      [] OTHER -> {}

Awaited(call, ops) == call.at # "idle" => call.req.op \in ops

CallsAwaited ==
    \A w \in Workers :
        /\ Awaited(calls[<<w, "run">>], RunOps(run[w].at))
        /\ Awaited(calls[<<w, "failed">>], HandOps(hand[w].at))
        /\ Awaited(calls[<<w, "progress">>], {"reportProgress"})

(* The record goes only after the mark, and so does the queue job.         *)
EraseMarked ==
    /\ job = NoJob \/ erase # "idle" => marked
    /\ queue.state = "removed" => marked

ControlInv == WorkerTypes /\ RunsLocked /\ HandsAlone /\ CallsAwaited /\ EraseMarked

(* Promises: a record keeps every result that was acknowledged, and so     *)
(* does what the worker has read of it, which is still what is stored when *)
(* the worker writes.                                                      *)
Promised(j) ==
    /\ \A r \in acked : j.status = "completed" /\ j.result = r
    /\ j.status = "completed" => j.result # NoResult

Agrees(snap) ==
    job # NoJob => /\ snap.status = job.status /\ snap.result = job.result
                   /\ snap.cleanup = job.cleanup

ReadHolds(call) ==
    /\ call.at = "barrier" => call.snap = NoJob
    /\ call.at \in {"reread", "write"} /\ call.req.op = "restart" => call.snap # NoJob
    /\ call.at \in {"reread", "write"} /\ call.snap # NoJob =>
         /\ Promised(call.snap) /\ Agrees(call.snap)
         /\ call.req.op # "update" => ~isFinished(call.snap)

PromiseInv ==
    /\ job # NoJob => Promised(job)
    /\ \A w \in Workers : ReadHolds(calls[<<w, "run">>]) /\ ReadHolds(calls[<<w, "failed">>])

(* Audio: it is removed only from a job that is spent, and nobody leaves a *)
(* job that has ended without having seen to it.                           *)
Spent == job = NoJob \/ marked \/ isFinished(job)

SeenTo == job = NoJob \/ marked \/ ~isFinished(job) \/ ~audio \/ job.cleanup

Releasing(call) ==
    /\ call.at = "done" => SeenTo
    /\ call.req.op = "update" =>
         call.req.patch # "attemptNoted" /\ (call.req.patch = "audioReleased" => ~audio)

RunLeaves(w) ==
    /\ run[w].at = "delete" => Spent
    /\ run[w].at = "return" => SeenTo
    /\ run[w].at = "releasing" => Releasing(calls[<<w, "run">>])

HandLeaves(w) ==
    /\ hand[w].at = "delete" => Spent
    /\ hand[w].at = "releasing" => Releasing(calls[<<w, "failed">>])
    /\ (/\ hand[w].at = "finishing" /\ calls[<<w, "failed">>].at = "done"
        /\ calls[<<w, "failed">>].reply \notin {"ok", "null"}) => SeenTo
    /\ hand[w].at = "noting" \/ (hand[w].at = "start" /\ ~attemptsExhausted(hand[w]))
         => queue.state # "failed"

QueueLeaves ==
    /\ queue.state = "completed" => SeenTo
    /\ (queue.state = "failed" /\ ~orphaned /\ \A w \in Workers : hand[w].at = "idle") => SeenTo

AudioInv ==
    /\ ~audio => Spent
    /\ \A w \in Workers : RunLeaves(w) /\ HandLeaves(w)
    /\ QueueLeaves

WorkerInv == ControlInv /\ PromiseInv /\ AudioInv


-----------------------------------------------------------------------------
(* Threads.                                                                *)

LEMMA ThreadCallers ==
    /\ Callers = Threads
    /\ \A w \in Workers : \A k \in {"run", "failed", "progress"} : <<w, k>> \in Callers
    /\ \A t \in Callers : \E w \in Workers : \E k \in {"run", "failed", "progress"} : t = <<w, k>>
BY WorkerConstants DEF Threads

LEMMA CallsType == ASSUME TypeInv PROVE calls \in [Callers -> Call0]
BY DEF TypeInv, TypeOK, Call0

(* A thread of the run waits at a step that has a call; so does the failed *)
(* handler.                                                                *)
LEMMA BusyRun ==
    ASSUME ControlInv, NEW w \in Workers, calls[<<w, "run">>].at # "idle"
    PROVE  /\ Locked(w) /\ queue.state = "active"
           /\ run[w].at \in {"restarting", "revoking", "transcribing", "diarizing", "merging",
                             "finishing", "releasing"}
           /\ calls[<<w, "run">>].req.op \in RunOps(run[w].at)
           /\ \A v \in Workers : hand[v].at = "idle"
           /\ \A v \in Workers : v # w => run[v].at = "idle"
<1>1. calls[<<w, "run">>].req.op \in RunOps(run[w].at)
  BY DEF ControlInv, CallsAwaited, Awaited
<1>2. run[w].at \in {"restarting", "revoking", "transcribing", "diarizing", "merging",
                     "finishing", "releasing"}
  BY <1>1 DEF RunOps
<1>3. \A v \in Workers : run[v].at # "idle" => Locked(v)
  BY DEF ControlInv, RunsLocked
<1>4. Locked(w)
  BY <1>2, <1>3
<1>5. \A v \in Workers : v # w => run[v].at = "idle"
  BY <1>3, <1>4 DEF Locked
<1>6. queue.state = "active" /\ \A v \in Workers : hand[v].at = "idle"
  BY <1>4 DEF Locked, ControlInv, HandsAlone
<1> QED
  BY <1>1, <1>2, <1>4, <1>5, <1>6

LEMMA HandAtWork ==
    ASSUME ControlInv, NEW w \in Workers, hand[w].at # "idle"
    PROVE  /\ queue.state \notin {"active", "completed"}
           /\ \A v \in Workers : run[v].at = "idle"
           /\ \A v \in Workers : v # w => hand[v].at = "idle"
<1>1. queue.state \notin {"active", "completed"} /\ \A v \in Workers : v # w => hand[v].at = "idle"
  BY DEF ControlInv, HandsAlone
<1>2. \A v \in Workers : run[v].at = "idle"
  BY <1>1 DEF ControlInv, RunsLocked, Locked
<1> QED
  BY <1>1, <1>2

LEMMA BusyHand ==
    ASSUME ControlInv, NEW w \in Workers, calls[<<w, "failed">>].at # "idle"
    PROVE  /\ hand[w].at \in {"finishing", "noting", "releasing"}
           /\ calls[<<w, "failed">>].req.op \in HandOps(hand[w].at)
           /\ queue.state \notin {"active", "completed"}
           /\ \A v \in Workers : run[v].at = "idle"
           /\ \A v \in Workers : v # w => hand[v].at = "idle"
<1>1. calls[<<w, "failed">>].req.op \in HandOps(hand[w].at)
  BY DEF ControlInv, CallsAwaited, Awaited
<1>2. hand[w].at \in {"finishing", "noting", "releasing"}
  BY <1>1 DEF HandOps
<1> QED
  BY <1>1, <1>2, HandAtWork

(* No two threads that decide have a call under way at the same time.      *)
LEMMA OneWriter ==
    ASSUME ControlInv, NEW w \in Workers, NEW v \in Workers,
           NEW k \in {"run", "failed"}, NEW l \in {"run", "failed"},
           calls[<<w, k>>].at # "idle", calls[<<v, l>>].at # "idle"
    PROVE  w = v /\ k = l
<1>1. CASE k = "run"
  <2>1. /\ \A u \in Workers : hand[u].at = "idle"
        /\ \A u \in Workers : u # w => run[u].at = "idle"
    BY <1>1, BusyRun
  <2>2. CASE l = "run"
    BY <1>1, <2>1, <2>2, BusyRun
  <2>3. CASE l = "failed"
    BY <2>1, <2>3, BusyHand
  <2> QED
    BY <2>2, <2>3
<1>2. CASE k = "failed"
  <2>1. /\ \A u \in Workers : run[u].at = "idle"
        /\ \A u \in Workers : u # w => hand[u].at = "idle"
    BY <1>2, BusyHand
  <2>2. CASE l = "run"
    BY <2>1, <2>2, BusyRun
  <2>3. CASE l = "failed"
    BY <1>2, <2>1, <2>3, BusyHand
  <2> QED
    BY <2>2, <2>3
<1> QED
  BY <1>1, <1>2

(* What the record says when the promises hold.                            *)
LEMMA EndedIsSpent ==
    ASSUME PromiseInv, job # NoJob, isFinished(job)
    PROVE  arGalimaSalintiAudio(job) /\ sprendimasPriesRestart(job) # "REMONTUOTINA"
<1>1. job.status = "completed" => job.result # NoResult
  BY DEF PromiseInv, Promised
<1>2. sprendimasPriesRestart(job) # "REMONTUOTINA"
  BY <1>1 DEF sprendimasPriesRestart
<1> QED
  BY <1>2 DEF arGalimaSalintiAudio

LEMMA ReleasedIsSpent ==
    ASSUME PromiseInv
    PROVE  /\ MayRelease => Spent
           /\ ~MayRelease => SeenTo
BY EndedIsSpent DEF MayRelease, Spent, SeenTo, arGalimaSalintiAudio

-----------------------------------------------------------------------------
(* One step of the store.                                                  *)

LEMMA StepMoves ==
    ASSUME TypeInv, NEW t \in Callers, Step(t)
    PROVE  /\ TypeInv'
           /\ \A u \in Callers : u # t => calls'[u] = calls[u]
           /\ calls'[t].req = calls[t].req
           /\ calls'[t].at \notin {"idle", "barrier"} /\ calls[t].at \notin {"idle", "done"}
           /\ calls'[t].at = "read" => calls[t].at \in {"barrier", "reclassify"}
           /\ calls[t].req \in Request
           /\ marked' = marked
<1>1. TypeInv'
  BY TypeInvInductive DEF Next
<1>2. calls \in [Callers -> Call0]
  BY CallsType
<1> DEFINE Moved == /\ \A u \in Callers : u # t => calls'[u] = calls[u]
                    /\ calls'[t].req = calls[t].req
                    /\ calls'[t].at \notin {"idle", "barrier"}
<1>3. ASSUME NEW step \in {"read", "reread", "write", "reclassify"}, Goto(t, step)
      PROVE  Moved /\ calls'[t].at = step
  BY <1>2, <1>3 DEF Goto, Call0
<1>4. ASSUME NEW reply, Answer(t, reply) PROVE Moved /\ calls'[t].at = "done"
  BY <1>2, <1>4 DEF Answer, Call0
<1>5. ASSUME NEW step \in {"reread", "write"}, Snapshot(t, step) PROVE Moved /\ calls'[t].at = step
  BY <1>2, <1>5 DEF Snapshot, Call0
<1>6. ASSUME Reclassify(t), calls' = [calls EXCEPT ![t].at = "read", ![t].tries = @ + 1]
      PROVE  Moved /\ calls'[t].at = "read"
  BY <1>2, <1>6 DEF Call0
<1> DEFINE Known == /\ Moved
                    /\ calls[t].at \notin {"idle", "done"}
                    /\ calls'[t].at = "read" => calls[t].at \in {"barrier", "reclassify"}
                    /\ calls[t].req \in Request
                    /\ marked' = marked
<1> SUFFICES Known
  BY <1>1
<1> HIDE DEF Moved
<1>7. CASE Barrier(t)
  <2>1. /\ calls[t].at = "barrier" /\ marked' = marked
        /\ \/ Answer(t, "null")
           \/ \E step \in {"read", "reread", "write"} : Goto(t, step)
    <3>1. calls[t].req \in Request /\ calls[t].req.op \in Ops /\ calls[t].req.op # "remove"
      BY <1>7, RequestFields DEF Barrier, TypeInv, Shape
    <3> QED
      BY <1>7, <3>1 DEF Barrier, Ops
  <2>2. calls[t].req \in Request
    BY <2>1 DEF TypeInv, Shape
  <2> QED
    BY <1>3, <1>4, <2>1, <2>2
<1>8. CASE Read(t)
  <2>1. /\ calls[t].at = "read" /\ marked' = marked
        /\ \/ \E reply : Answer(t, reply)
           \/ \E step \in {"reread", "write"} : Snapshot(t, step)
    BY <1>8 DEF Read
  <2>2. calls[t].req \in Request
    BY <2>1 DEF TypeInv, Shape
  <2> QED
    BY <1>4, <1>5, <2>1, <2>2
<1>9. CASE Reread(t)
  <2>1. /\ calls[t].at = "reread" /\ marked' = marked
        /\ Answer(t, "null") \/ Snapshot(t, "write")
    BY <1>9 DEF Reread
  <2>2. calls[t].req \in Request
    BY <2>1 DEF TypeInv, Shape
  <2> QED
    BY <1>4, <1>5, <2>1, <2>2
<1>10. CASE Reclassify(t)
  <2>1. /\ calls[t].at = "reclassify" /\ marked' = marked
        /\ \/ \E reply : Answer(t, reply)
           \/ calls' = [calls EXCEPT ![t].at = "read", ![t].tries = @ + 1]
    BY <1>10 DEF Reclassify
  <2>2. calls[t].req \in Request
    BY <2>1 DEF TypeInv, Shape
  <2> QED
    BY <1>4, <1>6, <1>10, <2>1, <2>2
<1>11. CASE WriteCas(t) \/ WriteFinish(t) \/ WriteBlind(t) \/ WriteProgress(t) \/ Remove(t)
  <2>1. /\ calls[t].at = "write" /\ marked' = marked
        /\ \/ \E reply : Answer(t, reply)
           \/ Goto(t, "reclassify")
    BY <1>11 DEF WriteCas, WriteFinish, WriteBlind, WriteProgress, Remove
  <2>2. calls[t].req \in Request
    BY <2>1 DEF TypeInv, Shape
  <2> QED
    BY <1>3, <1>4, <2>1, <2>2
<1> QED
  BY <1>7, <1>8, <1>9, <1>10, <1>11 DEF Step

(* What each write makes of the fields that matter here.                   *)
LEMMA PatchFields ==
    ASSUME NEW j \in Job, NEW req \in Request, req.op \notin {"reportProgress", "remove"}
    PROVE  /\ req.op \in {"startPhase", "restart"} =>
                /\ Patched(j, req).status = "processing" /\ Patched(j, req).result = j.result
                /\ Patched(j, req).cleanup = j.cleanup
           /\ req.op = "finish" =>
                /\ Patched(j, req).status = "completed" /\ Patched(j, req).result = req.result
                /\ Patched(j, req).cleanup = j.cleanup /\ req.result \in Results
           /\ req.op = "finishFailed" =>
                /\ Patched(j, req).status = "failed" /\ Patched(j, req).result = j.result
                /\ Patched(j, req).cleanup = j.cleanup
           /\ req.op = "update" =>
                /\ Patched(j, req).status = j.status /\ Patched(j, req).result = j.result
                /\ req.patch = "audioKept" => Patched(j, req).cleanup = TRUE
           /\ Patched(j, req) \in Job
<1>1. Patched(j, req) \in Job
  BY PatchedRecord
<1>2. ASSUME NEW p \in Phases
      PROVE  /\ PhaseStarted(j, p).status = "processing" /\ PhaseStarted(j, p).result = j.result
             /\ PhaseStarted(j, p).cleanup = j.cleanup
  BY DEF PhaseStarted, Job
<1>3. CASE req.op = "startPhase"
  <2>1. Patched(j, req) = PhaseStarted(j, req.phase) /\ req.phase \in Phases
    BY <1>3, RequestFields DEF Patched
  <2> QED
    BY <1>1, <1>2, <1>3, <2>1
<1>4. CASE req.op = "restart"
  <2>1. Patched(j, req) = PhaseStarted(j, "validating") /\ "validating" \in Phases
    BY <1>4 DEF Patched, Restarted, Phases
  <2> QED
    BY <1>1, <1>2, <1>4, <2>1
<1>5. CASE req.op \in {"finish", "finishFailed"}
  <2> DEFINE s == finishStatus(req)
             r == finishResult(req)
  <2>1. Patched(j, req) = Finished(j, s, r)
    BY <1>5 DEF Patched
  <2>2. Finished(j, s, r).cleanup = j.cleanup
    BY DEF Finished, Job
  <2>3. /\ Finished(j, s, r).status = s
        /\ Finished(j, s, r).result = IF s = "completed" THEN r ELSE j.result
    BY FinishedFields
  <2>4. req.op = "finish" => s = "completed" /\ r = req.result /\ req.result \in Results
    BY RequestFields DEF finishStatus, finishResult
  <2>5. req.op = "finishFailed" => s = "failed"
    BY DEF finishStatus
  <2> HIDE DEF s, r
  <2> QED
    BY <1>1, <1>5, <2>1, <2>2, <2>3, <2>4, <2>5
<1>6. CASE req.op = "update"
  <2>1. /\ Patched(j, req) \in {AudioReleased(j), AudioKept(j), AttemptNoted(j)}
        /\ req.patch = "audioKept" => Patched(j, req) = AudioKept(j)
    BY <1>6 DEF Patched
  <2>2. ASSUME NEW k \in {AudioReleased(j), AudioKept(j), AttemptNoted(j)}
        PROVE  k.status = j.status /\ k.result = j.result
    BY DEF AudioReleased, AudioKept, AttemptNoted, Job
  <2>3. AudioKept(j).cleanup = TRUE
    BY DEF AudioKept, Job
  <2> QED
    BY <1>1, <1>6, <2>1, <2>2, <2>3
<1> QED
  BY <1>3, <1>4, <1>5, <1>6, RequestFields DEF Ops

(* A decision that goes ahead was made on a job that had not ended.        *)
LEMMA NotRefused ==
    ASSUME NEW j \in Job, NEW req \in Request, Refusal(j, req) = "none",
           req.op \in {"startPhase", "restart"} \cup FinishOps
    PROVE  ~isFinished(j)
BY DEF Refusal, startPhaseRefusal, restartRefusal, finishRefusal, assertConsistentJobRecord, FinishOps

LEMMA FailureRefusals ==
    ASSUME NEW j \in Job, NEW req \in Request, req.op = "finishFailed"
    PROVE  /\ Refusal(j, req) \in {"none", "JOB_ALREADY_TERMINAL"}
           /\ Refusal(j, req) # "none" => Seen(req, Refusal(j, req)) = "ok"
BY DEF Refusal, finishRefusal, finishStatus, finishResult, Seen

LEMMA FailureNotAnswered ==
    ASSUME NEW j, NEW req, req.op = "finishFailed"
    PROVE  idempotentiskasAtsakymas(j, finishStatus(req), finishResult(req)) = "undefined"
BY DEF idempotentiskasAtsakymas, finishStatus

(* Nothing has been promised while the job has not ended.                  *)
LEMMA NothingPromised ==
    ASSUME NEW j, Promised(j), ~isFinished(j)
    PROVE  acked = {}
BY DEF Promised, isFinished, TERMINAL

(* What the step of a thread finds ...                                     *)
Lawful(t) ==
    /\ TypeInv
    /\ job = NoJob => marked
    /\ job # NoJob => Promised(job)
    /\ calls[t].req.op # "reportProgress" => ReadHolds(calls[t])
    /\ calls[t].req.op # "remove"

(* ... what it leaves of the record and of the promises ...                *)
RecordKept(t) ==
    /\ job # NoJob => job' # NoJob
    /\ job' # NoJob => Promised(job)'
    /\ (job # NoJob /\ isFinished(job)) => job'.status = job.status /\ job'.result = job.result
    /\ (job # NoJob /\ ~isFinished(job) /\ isFinished(job)') => calls[t].req.op \in FinishOps
    /\ (job # NoJob /\ job'.cleanup # job.cleanup) => calls[t].req.op = "update"
    /\ calls[t].req.op = "reportProgress" =>
         /\ acked' = acked
         /\ job = NoJob => job' = NoJob
         /\ job # NoJob => /\ job'.status = job.status /\ job'.result = job.result
                           /\ job'.cleanup = job.cleanup

(* ... and what its call knows by then.                                    *)
CallKept(t) ==
    /\ calls[t].req.op # "reportProgress" => ReadHolds(calls[t])'
    /\ (/\ calls'[t].at = "done" /\ calls[t].req.op = "update"
        /\ calls[t].req.patch # "attemptNoted"
        /\ calls[t].req.patch = "audioReleased" => ~audio) => SeenTo'
    /\ (/\ calls'[t].at = "done" /\ calls[t].req.op = "finishFailed"
        /\ calls'[t].reply \notin {"ok", "null"}) => SeenTo'

LEMMA SameRecord ==
    ASSUME NEW t, Lawful(t), UNCHANGED <<job, acked>>
    PROVE  RecordKept(t)
BY DEF Lawful, RecordKept, Promised

LEMMA Acknowledged ==
    ASSUME NEW t \in Callers, Lawful(t), job' = job, job # NoJob, calls[t].req \in Request,
           job.status = "completed", calls[t].req.op # "reportProgress",
           calls[t].req.op = "finish" => job.result = calls[t].req.result, Ack(t)
    PROVE  RecordKept(t)
<1>1. Promised(job)'
  BY DEF Lawful, Promised, Ack
<1> QED
  BY <1>1 DEF Lawful, RecordKept

LEMMA AnswerKept ==
    ASSUME NEW t \in Callers, TypeInv, NEW reply, Answer(t, reply),
           (/\ calls[t].req.op = "update" /\ calls[t].req.patch # "attemptNoted"
            /\ calls[t].req.patch = "audioReleased" => ~audio) => SeenTo',
           (calls[t].req.op = "finishFailed" /\ reply \notin {"ok", "null"}) => SeenTo'
    PROVE  CallKept(t)
<1>1. calls'[t].at = "done" /\ calls'[t].reply = reply
  BY CallsType DEF Answer, Call0
<1>2. ReadHolds(calls[t])'
  BY <1>1 DEF ReadHolds
<1> QED
  BY <1>1, <1>2 DEF CallKept

LEMMA SnapshotKept ==
    ASSUME NEW t \in Callers, Lawful(t), NEW step \in {"reread", "write"}, Snapshot(t, step),
           job # NoJob, UNCHANGED <<job, acked>>,
           calls[t].req.op \notin {"reportProgress", "update"} => ~isFinished(job)
    PROVE  CallKept(t)
<1>1. calls'[t].at = step /\ calls'[t].snap = job /\ calls'[t].req = calls[t].req
  BY CallsType DEF Snapshot, Call0, Lawful
<1>2. Promised(job)' /\ (calls[t].req.op # "reportProgress" /\ calls[t].req.op # "update" => ~isFinished(job)')
  BY DEF Lawful, Promised
<1>3. calls[t].req.op # "reportProgress" => ReadHolds(calls[t])'
  BY <1>1, <1>2 DEF ReadHolds, Agrees, Promised
<1> QED
  BY <1>1, <1>3 DEF CallKept

LEMMA GotoKept ==
    ASSUME NEW t \in Callers, Lawful(t), NEW step \in {"read", "reread", "write", "reclassify"},
           Goto(t, step), step \in {"reread", "write"} => /\ calls[t].snap = NoJob
                                                          /\ calls[t].req.op # "restart"
    PROVE  CallKept(t)
<1>1. calls'[t].at = step /\ calls'[t].snap = calls[t].snap /\ calls'[t].req = calls[t].req
  BY CallsType DEF Goto, Call0, Lawful
<1>2. ReadHolds(calls[t])'
  BY <1>1 DEF ReadHolds
<1> QED
  BY <1>1, <1>2 DEF CallKept

LEMMA BarrierKept ==
    ASSUME NEW t \in Callers, Lawful(t), Barrier(t), audio' = audio
    PROVE  RecordKept(t) /\ CallKept(t)
<1>1. RecordKept(t)
  BY SameRecord DEF Barrier
<1>2. CASE marked
  <2>1. Answer(t, "null") /\ SeenTo'
    BY <1>2 DEF Barrier, SeenTo
  <2> QED
    BY <1>1, <2>1, AnswerKept DEF Lawful
<1>3. CASE ~marked
  <2>1. calls[t].req \in Request /\ calls[t].req.op \in Ops /\ calls[t].req.op # "remove"
    BY RequestFields DEF Barrier, Lawful, TypeInv, Shape
  <2>2. PICK step \in {"read", "reread", "write"} :
           /\ Goto(t, step)
           /\ step # "read" => calls[t].req.op \in {"update"} \cup FinishOps
    BY <1>3, <2>1 DEF Barrier, Ops, FinishOps
  <2>3. step # "read" => calls[t].snap = NoJob /\ calls[t].req.op # "restart"
    BY <2>1, <2>2 DEF Lawful, ReadHolds, FinishOps, Barrier
  <2> QED
    BY <1>1, <2>2, <2>3, GotoKept
<1> QED
  BY <1>2, <1>3

LEMMA ReadKept ==
    ASSUME NEW t \in Callers, Lawful(t), Read(t), audio' = audio
    PROVE  RecordKept(t) /\ CallKept(t)
<1> DEFINE req == calls[t].req
           answer == idempotentiskasAtsakymas(job, "completed", req.result)
<1>1. /\ req \in Request /\ req.op \in {"startPhase", "restart", "reportProgress"} \cup FinishOps
      /\ job' = job /\ marked' = marked
  BY DEF Read, Lawful, TypeInv, Shape
<1>2. job # NoJob => job \in Job
  BY RecordInView DEF Lawful
<1>3. ASSUME NEW reply, Answer(t, reply), req.op = "finishFailed" => reply \in {"ok", "null"}
      PROVE  CallKept(t)
  BY <1>1, <1>3, AnswerKept DEF Lawful, FinishOps
<1>4. CASE job = NoJob
  <2>1. Answer(t, "null") /\ acked' = acked
    BY <1>4 DEF Read
  <2> QED
    BY <1>1, <1>3, <2>1, SameRecord
<1>5. CASE job # NoJob /\ req.op = "reportProgress"
  <2>1. acked' = acked /\ (Snapshot(t, "write") \/ Answer(t, "ok"))
    BY <1>5 DEF Read
  <2> QED
    BY <1>1, <1>3, <1>5, <2>1, SameRecord, SnapshotKept
<1>6. CASE job # NoJob /\ req.op = "finish" /\ answer # "undefined"
  <2>1. Answer(t, answer) /\ (IF job.result = req.result THEN Ack(t) ELSE acked' = acked)
    BY <1>6 DEF Read
  <2>2. CallKept(t)
    BY <1>3, <1>6, <2>1
  <2>3. CASE acked' = acked
    BY <1>1, <2>2, <2>3, SameRecord
  <2>4. CASE job.result = req.result /\ Ack(t)
    <3>1. job.status = "completed"
      BY <1>6 DEF idempotentiskasAtsakymas
    <3> QED
      BY <1>1, <1>6, <2>2, <2>4, <3>1, Acknowledged
  <2> QED
    BY <2>1, <2>3, <2>4
<1>7. CASE job # NoJob /\ req.op # "reportProgress" /\ ~(req.op = "finish" /\ answer # "undefined")
  <2>1. /\ acked' = acked
        /\ \/ Refusal(job, req) # "none" /\ Answer(t, Seen(req, Refusal(job, req)))
           \/ Refusal(job, req) = "none" /\ \E step \in {"reread", "write"} : Snapshot(t, step)
    BY <1>7 DEF Read
  <2>2. RecordKept(t)
    BY <1>1, <2>1, SameRecord
  <2>3. CASE Refusal(job, req) # "none" /\ Answer(t, Seen(req, Refusal(job, req)))
    BY <1>1, <1>2, <1>3, <1>7, <2>2, <2>3, FailureRefusals
  <2>4. CASE Refusal(job, req) = "none" /\ \E step \in {"reread", "write"} : Snapshot(t, step)
    <3>1. ~isFinished(job)
      BY <1>1, <1>2, <1>7, <2>4, NotRefused
    <3> QED
      BY <1>1, <1>7, <2>1, <2>2, <2>4, <3>1, SnapshotKept
  <2> QED
    BY <2>1, <2>3, <2>4
<1> QED
  BY <1>4, <1>5, <1>6, <1>7

LEMMA RereadKept ==
    ASSUME NEW t \in Callers, Lawful(t), Reread(t), audio' = audio
    PROVE  RecordKept(t) /\ CallKept(t)
<1>1. RecordKept(t)
  BY SameRecord DEF Reread
<1>2. calls[t].req \in Request /\ calls[t].req.op \in BlindOps
  BY DEF Reread, Lawful, TypeInv, Shape
<1>3. CASE job = NoJob
  <2>1. Answer(t, "null") /\ SeenTo'
    BY <1>3 DEF Reread, SeenTo
  <2> QED
    BY <1>1, <2>1, AnswerKept DEF Lawful
<1>4. CASE job # NoJob
  <2>1. Snapshot(t, "write") /\ UNCHANGED <<job, acked>>
    BY <1>4 DEF Reread
  <2>2. calls[t].req.op # "update" => ~isFinished(job)
    <3>1. calls[t].req.op = "restart" => ReadHolds(calls[t])
      BY DEF Lawful
    <3>2. calls[t].req.op = "restart" =>
            calls[t].snap.status = job.status /\ ~isFinished(calls[t].snap)
      BY <1>4, <3>1 DEF ReadHolds, Agrees, Reread
    <3> QED
      BY <1>2, <3>2 DEF BlindOps, isFinished
  <2> QED
    BY <1>1, <1>4, <2>1, <2>2, SnapshotKept
<1> QED
  BY <1>3, <1>4

(* A write built from a record that agrees with the stored one.            *)
LEMMA Written ==
    ASSUME NEW t \in Callers, Lawful(t), NEW j \in Job, Promised(j), Agrees(j),
           calls[t].req \in Request, calls[t].req.op # "reportProgress",
           calls[t].req.op # "update" => ~isFinished(j),
           job' \in Job,
           job'.status = Patched(j, calls[t].req).status,
           job'.result = Patched(j, calls[t].req).result,
           job'.cleanup = Patched(j, calls[t].req).cleanup,
           Ack(t)
    PROVE  RecordKept(t)
<1> DEFINE req == calls[t].req
<1>1. req \in Request /\ req.op \notin {"reportProgress", "remove"} /\ job' # NoJob
  BY NoJobAssumption DEF Lawful
<1>2. req.op \in {"startPhase", "restart", "finish", "finishFailed", "update"}
  BY <1>1, RequestFields DEF Ops
<1>3. CASE req.op = "update"
  <2>1. job'.status = j.status /\ job'.result = j.result /\ acked' = acked
    BY <1>1, <1>3, PatchFields DEF Ack
  <2>2. Promised(job)'
    BY <2>1 DEF Promised
  <2>3. job # NoJob => job'.status = job.status /\ job'.result = job.result
    BY <2>1 DEF Agrees
  <2> QED
    BY <1>1, <1>3, <2>2, <2>3 DEF RecordKept, isFinished
<1>4. CASE req.op # "update"
  <2>1. ~isFinished(j) /\ acked = {}
    BY <1>4, NothingPromised
  <2>2. job # NoJob => ~isFinished(job)
    BY <2>1 DEF Agrees, isFinished
  <2>3. job'.cleanup = j.cleanup
    BY <1>1, <1>2, <1>4, PatchFields
  <2>4. CASE req.op = "finish"
    <3>1. /\ job'.status = "completed" /\ job'.result = req.result /\ req.result \in Results
          /\ acked' = acked \cup {req.result}
      BY <1>1, <2>4, PatchFields DEF Ack
    <3>2. Promised(job)'
      BY <2>1, <3>1, ResultsAssumption DEF Promised
    <3> QED
      BY <1>1, <2>2, <2>3, <2>4, <3>2 DEF RecordKept, Agrees, FinishOps
  <2>5. CASE req.op = "finishFailed"
    <3>1. job'.status = "failed" /\ acked' = acked
      BY <1>1, <2>5, PatchFields DEF Ack
    <3>2. Promised(job)'
      BY <2>1, <3>1 DEF Promised
    <3> QED
      BY <1>1, <2>2, <2>3, <2>5, <3>2 DEF RecordKept, Agrees, FinishOps
  <2>6. CASE req.op \in {"startPhase", "restart"}
    <3>1. job'.status = "processing" /\ acked' = acked
      BY <1>1, <2>6, PatchFields DEF Ack
    <3>2. Promised(job)' /\ ~isFinished(job)'
      BY <2>1, <3>1 DEF Promised, isFinished, TERMINAL
    <3> QED
      BY <1>1, <2>2, <2>3, <2>6, <3>2 DEF RecordKept, Agrees
  <2> QED
    BY <1>2, <1>4, <2>4, <2>5, <2>6
<1> QED
  BY <1>3, <1>4

LEMMA WriteCasKept ==
    ASSUME NEW t \in Callers, Lawful(t), WriteCas(t), audio' = audio
    PROVE  RecordKept(t) /\ CallKept(t)
<1> DEFINE req == calls[t].req
           snap == calls[t].snap
<1>1. /\ req \in Request /\ req.op \in {"startPhase"} \cup FinishOps
      /\ calls[t].at = "write" /\ snap \in Job
  BY DEF WriteCas, Lawful, TypeInv, Shape, Conditional, FinishOps
<1>2. ReadHolds(calls[t]) /\ snap # NoJob
  BY <1>1, NoJobAssumption DEF Lawful, FinishOps
<1>3. Promised(snap) /\ Agrees(snap) /\ ~isFinished(snap)
  BY <1>1, <1>2 DEF ReadHolds, FinishOps
<1>4. CASE job = NoJob /\ Answer(t, "null") /\ UNCHANGED <<job, acked>>
  BY <1>1, <1>4, SameRecord, AnswerKept DEF Lawful, FinishOps
<1>5. CASE job' = Patched(snap, req) /\ Answer(t, "ok") /\ Ack(t)
  <2>1. Patched(snap, req) \in Job
    BY <1>1, PatchFields DEF FinishOps
  <2>2. RecordKept(t)
    BY <1>1, <1>3, <1>5, <2>1, Written DEF FinishOps
  <2> QED
    BY <1>1, <1>5, <2>2, AnswerKept DEF Lawful, FinishOps
<1>6. CASE /\ IF req.op = "startPhase" THEN Answer(t, "CONCURRENCY_CONFLICT") ELSE Goto(t, "reclassify")
           /\ UNCHANGED <<job, acked>>
  <2>1. CASE req.op = "startPhase"
    BY <1>1, <1>6, <2>1, SameRecord, AnswerKept DEF Lawful
  <2>2. CASE req.op # "startPhase"
    BY <1>6, <2>2, SameRecord, GotoKept
  <2> QED
    BY <2>1, <2>2
<1> QED
  BY <1>4, <1>5, <1>6 DEF WriteCas

LEMMA ReclassifyKept ==
    ASSUME NEW t \in Callers, Lawful(t), Reclassify(t), audio' = audio
    PROVE  RecordKept(t) /\ CallKept(t)
<1> DEFINE req == calls[t].req
           answer == idempotentiskasAtsakymas(job, "completed", req.result)
<1>1. req \in Request /\ req.op \in FinishOps /\ job' = job
  BY DEF Reclassify, Lawful, TypeInv, Shape
<1>2. CASE job = NoJob
  <2>1. Answer(t, "null") /\ acked' = acked
    BY <1>2 DEF Reclassify
  <2> QED
    BY <1>1, <2>1, SameRecord, AnswerKept DEF Lawful, FinishOps
<1>3. CASE job # NoJob /\ req.op = "finish"
  <2>1. /\ \E reply : Answer(t, reply)
        /\ IF answer = "ok" THEN Ack(t) ELSE acked' = acked
    BY <1>3 DEF Reclassify
  <2>2. CallKept(t)
    BY <1>3, <2>1, AnswerKept DEF Lawful
  <2>3. answer = "ok" => job.status = "completed" /\ job.result = req.result
    BY DEF idempotentiskasAtsakymas
  <2> QED
    BY <1>1, <1>3, <2>1, <2>2, <2>3, SameRecord, Acknowledged
<1>4. CASE job # NoJob /\ req.op = "finishFailed"
  <2>1. /\ acked' = acked
        /\ \/ isFinished(job) /\ Answer(t, "ok")
           \/ ~isFinished(job) /\ Answer(t, "CONCURRENCY_CONFLICT")
           \/ calls' = [calls EXCEPT ![t].at = "read", ![t].tries = @ + 1]
    BY <1>4 DEF Reclassify
  <2>2. RecordKept(t)
    BY <1>1, <2>1, SameRecord
  <2>3. CASE isFinished(job) /\ Answer(t, "ok")
    BY <1>4, <2>2, <2>3, AnswerKept DEF Lawful
  <2>4. CASE ~isFinished(job) /\ Answer(t, "CONCURRENCY_CONFLICT")
    <3>1. SeenTo'
      BY <1>1, <2>4 DEF SeenTo, isFinished
    <3> QED
      BY <2>2, <2>4, <3>1, AnswerKept DEF Lawful
  <2>5. CASE calls' = [calls EXCEPT ![t].at = "read", ![t].tries = @ + 1]
    <3>1. calls'[t].at = "read"
      BY <2>5, CallsType DEF Lawful, Call0
    <3>2. CallKept(t)
      BY <3>1 DEF CallKept, ReadHolds
    <3> QED
      BY <2>2, <3>2
  <2> QED
    BY <2>1, <2>3, <2>4, <2>5
<1> QED
  BY <1>1, <1>2, <1>3, <1>4 DEF FinishOps

LEMMA WriteFinishKept ==
    ASSUME NEW t \in Callers, Lawful(t), WriteFinish(t), audio' = audio
    PROVE  RecordKept(t) /\ CallKept(t)
<1> DEFINE req == calls[t].req
           answer == idempotentiskasAtsakymas(job, finishStatus(req), finishResult(req))
<1>1. req \in Request /\ req.op \in FinishOps
  BY DEF WriteFinish, Lawful, TypeInv, Shape, FinishOps
<1>2. ASSUME NEW reply, Answer(t, reply), req.op = "finishFailed" => reply \in {"ok", "null"}
      PROVE  CallKept(t)
  BY <1>1, <1>2, AnswerKept DEF Lawful, FinishOps
<1>3. CASE job = NoJob /\ Answer(t, "null") /\ UNCHANGED <<job, acked>>
  BY <1>2, <1>3, SameRecord
<1>4. CASE /\ job # NoJob /\ answer # "undefined"
           /\ Answer(t, answer)
           /\ IF answer = "ok" THEN Ack(t) ELSE UNCHANGED acked
           /\ UNCHANGED job
  <2>1. req.op = "finish"
    BY <1>1, <1>4, FailureNotAnswered DEF FinishOps
  <2>2. CallKept(t)
    BY <1>2, <1>4, <2>1
  <2>3. answer = "ok" => job.status = "completed" /\ job.result = req.result
    BY <2>1 DEF idempotentiskasAtsakymas, finishStatus, finishResult
  <2> QED
    BY <1>1, <1>4, <2>1, <2>2, <2>3, SameRecord, Acknowledged
<1>5. CASE /\ job # NoJob /\ Refusal(job, req) # "none"
           /\ Answer(t, Seen(req, Refusal(job, req)))
           /\ UNCHANGED <<job, acked>>
  <2>1. req.op = "finishFailed" => Seen(req, Refusal(job, req)) = "ok"
    BY <1>1, <1>5, FailureRefusals, RecordInView DEF Lawful
  <2> QED
    BY <1>2, <1>5, <2>1, SameRecord
<1>6. CASE /\ job # NoJob /\ Refusal(job, req) = "none"
           /\ job' = Patched(job, req)
           /\ Answer(t, "ok")
           /\ Ack(t)
  <2>1. job \in Job /\ Promised(job) /\ Agrees(job)
    BY <1>6, RecordInView DEF Lawful, Agrees
  <2>2. ~isFinished(job)
    BY <1>1, <1>6, <2>1, NotRefused
  <2>3. Patched(job, req) \in Job
    BY <1>1, <2>1, PatchFields DEF FinishOps
  <2>4. RecordKept(t)
    BY <1>1, <1>6, <2>1, <2>2, <2>3, Written DEF FinishOps
  <2> QED
    BY <1>2, <1>6, <2>4
<1> QED
  BY <1>3, <1>4, <1>5, <1>6 DEF WriteFinish

(* The unconditional write: each backend leaves a record that agrees with  *)
(* the patch of what was read, or, in memory, of what is there.            *)
LEMMA BlindFields ==
    ASSUME NEW t \in Callers, Lawful(t), WriteBlind(t), job' # NoJob
    PROVE  \E j \in Job :
              /\ Promised(j) /\ Agrees(j)
              /\ calls[t].req.op # "update" => ~isFinished(j)
              /\ job' \in Job
              /\ job'.status = Patched(j, calls[t].req).status
              /\ job'.result = Patched(j, calls[t].req).result
              /\ job'.cleanup = Patched(j, calls[t].req).cleanup
<1> DEFINE req == calls[t].req
           snap == calls[t].snap
<1>1. /\ req \in Request /\ req.op \in {"restart", "update"} /\ calls[t].at = "write"
      /\ Backend # "memory" => snap \in Job
      /\ job' = BlindOutcome(snap, req)
      /\ snap \in Job \cup {NoJob} /\ job \in Job \cup {NoJob}
  BY CallsType DEF WriteBlind, Lawful, TypeInv, TypeOK, Shape, BlindOps, Call0
<1>2. ReadHolds(calls[t])
  BY <1>1 DEF Lawful
<1>3. snap # NoJob => /\ Promised(snap) /\ Agrees(snap)
                      /\ req.op # "update" => ~isFinished(snap)
  BY <1>1, <1>2 DEF ReadHolds
<1>4. req.op = "restart" => snap # NoJob
  BY <1>1, <1>2 DEF ReadHolds
<1>5. CASE Backend = "memory"
  <2>1. job # NoJob /\ job \in Job /\ job' = Patched(job, req)
    BY <1>1, <1>5 DEF BlindOutcome
  <2>2. Promised(job) /\ Agrees(job) /\ Patched(job, req) \in Job
    BY <1>1, <2>1, PatchFields DEF Lawful, Agrees
  <2>3. req.op # "update" => ~isFinished(job)
    BY <1>1, <1>3, <1>4, <2>1 DEF Agrees, isFinished
  <2> QED
    BY <2>1, <2>2, <2>3
<1>6. CASE Backend # "memory"
  <2>1. snap \in Job /\ snap # NoJob /\ Patched(snap, req) \in Job
    BY <1>1, <1>6, NoJobAssumption, PatchFields
  <2>2. CASE Backend = "redis"
    <3> DEFINE v == IF job = NoJob THEN 1 ELSE job.version + 1
    <3>1. v \in Nat
      BY <1>1, NextVersion
    <3>2. job' = [Patched(snap, req) EXCEPT !.version = v]
      BY <1>1, <2>2 DEF BlindOutcome
    <3> HIDE DEF v
    <3>3. /\ job' \in Job /\ job'.status = Patched(snap, req).status
          /\ job'.result = Patched(snap, req).result
          /\ job'.cleanup = Patched(snap, req).cleanup
      BY <2>1, <3>1, <3>2 DEF Job
    <3> QED
      BY <1>3, <2>1, <3>3
  <2>3. CASE Backend = "postgres"
    <3>1. /\ job # NoJob /\ job \in Job
          /\ job' = [Patched(snap, req) EXCEPT !.version = job.version + 1, !.result = job.result]
      BY <1>1, <2>3 DEF BlindOutcome
    <3>2. job.version + 1 \in Nat /\ job.result \in Results \cup {NoResult}
      BY <3>1, NextVersion DEF Job
    <3>3. /\ job' \in Job /\ job'.status = Patched(snap, req).status
          /\ job'.result = job.result
          /\ job'.cleanup = Patched(snap, req).cleanup
      BY <2>1, <3>1, <3>2 DEF Job
    <3>4. Patched(snap, req).result = snap.result /\ snap.result = job.result
      BY <1>1, <1>3, <2>1, <3>1, PatchFields DEF Agrees
    <3> QED
      BY <1>3, <2>1, <3>3, <3>4
  <2> QED
    BY <1>6, <2>2, <2>3, CallersAssumption
<1> QED
  BY <1>5, <1>6

LEMMA WriteBlindKept ==
    ASSUME NEW t \in Callers, Lawful(t), WriteBlind(t), audio' = audio
    PROVE  RecordKept(t) /\ CallKept(t)
<1> DEFINE req == calls[t].req
<1>1. /\ req \in Request /\ req.op \in {"restart", "update"}
      /\ acked' = acked /\ marked' = marked
      /\ \E reply : Answer(t, reply)
  BY DEF WriteBlind, Lawful, TypeInv, Shape, BlindOps
<1>2. Ack(t)
  BY <1>1 DEF Ack
<1>3. CASE job' = NoJob
  <2>1. job = NoJob
    <3>1. SUFFICES ASSUME job # NoJob PROVE FALSE
      OBVIOUS
    <3>2. /\ job \in Job /\ job.version + 1 \in Nat /\ job.result \in Results \cup {NoResult}
          /\ calls[t].at = "write" /\ job' = BlindOutcome(calls[t].snap, req)
          /\ Backend # "memory" => calls[t].snap \in Job
      BY <1>1, <3>1, RecordInView, NextVersion DEF WriteBlind, Lawful, TypeInv, Shape, BlindOps, Job
    <3>3. \A j \in Job : Patched(j, req) \in Job
      BY <1>1, PatchFields
    <3>4. job' \in Job
      BY <3>1, <3>2, <3>3, CallersAssumption DEF BlindOutcome, Job
    <3> QED
      BY <1>3, <3>4, NoJobAssumption
  <2>2. RecordKept(t)
    BY <1>1, <1>3, <2>1, SameRecord
  <2>3. SeenTo'
    BY <1>3 DEF SeenTo
  <2> QED
    BY <1>1, <2>2, <2>3, AnswerKept DEF Lawful
<1>4. CASE job' # NoJob
  <2>1. PICK j \in Job :
              /\ Promised(j) /\ Agrees(j)
              /\ req.op # "update" => ~isFinished(j)
              /\ job' \in Job
              /\ job'.status = Patched(j, req).status
              /\ job'.result = Patched(j, req).result
              /\ job'.cleanup = Patched(j, req).cleanup
    BY <1>4, BlindFields
  <2>2. RecordKept(t)
    BY <1>1, <1>2, <2>1, Written
  <2>3. (/\ req.op = "update" /\ req.patch # "attemptNoted"
         /\ req.patch = "audioReleased" => ~audio) => SeenTo'
    <3>1. CASE req.op = "update" /\ req.patch = "audioReleased" /\ ~audio
      BY <3>1 DEF SeenTo
    <3>2. CASE req.op = "update" /\ req.patch = "audioKept"
      <4>1. job'.cleanup
        BY <1>1, <2>1, <3>2, PatchFields
      <4> QED
        BY <4>1 DEF SeenTo
    <3>3. req.op = "update" => req.patch \in {"audioReleased", "audioKept", "attemptNoted"}
      BY <1>1, RequestFields
    <3> QED
      BY <3>1, <3>2, <3>3
  <2> QED
    BY <1>1, <2>2, <2>3, AnswerKept DEF Lawful
<1> QED
  BY <1>3, <1>4

LEMMA WriteProgressKept ==
    ASSUME NEW t \in Callers, Lawful(t), WriteProgress(t), audio' = audio
    PROVE  RecordKept(t) /\ CallKept(t)
<1> DEFINE req == calls[t].req
<1>1. /\ req \in Request /\ req.op = "reportProgress" /\ acked' = acked
      /\ \E reply : Answer(t, reply)
  BY DEF WriteProgress, Lawful, TypeInv, Shape
<1>2. CallKept(t)
  BY <1>1, AnswerKept DEF Lawful
<1>3. CASE job' = job
  BY <1>1, <1>2, <1>3, SameRecord
<1>4. CASE job # NoJob /\ job' = Progressed(job, req)
  <2>1. job \in Job /\ job' \in Job /\ job' # NoJob
    BY <1>1, <1>4, RecordInView, ProgressedRecord, NoJobAssumption DEF Lawful
  <2>2. job'.status = job.status /\ job'.result = job.result
    BY <1>4, <2>1, ProgressedFields
  <2>3. job'.cleanup = job.cleanup
    BY <1>4, <2>1 DEF Progressed, Job
  <2>4. Promised(job)'
    BY <1>1, <1>4, <2>2 DEF Promised, Lawful
  <2> QED
    BY <1>1, <1>2, <1>4, <2>1, <2>2, <2>3, <2>4 DEF RecordKept, isFinished
<1> QED
  BY <1>3, <1>4 DEF WriteProgress

LEMMA StepKept ==
    ASSUME NEW t \in Callers, Lawful(t), Step(t), audio' = audio
    PROVE  RecordKept(t) /\ CallKept(t)
BY BarrierKept, ReadKept, RereadKept, WriteCasKept, ReclassifyKept, WriteFinishKept, WriteBlindKept,
   WriteProgressKept DEF Step, Remove, Lawful

(* Every thread finds what it needs.                                       *)
LEMMA ThreadOps ==
    ASSUME ControlInv, NEW w \in Workers
    PROVE  /\ calls[<<w, "run">>].at # "idle" =>
                calls[<<w, "run">>].req.op \in {"restart", "finishFailed", "startPhase", "finish", "update"}
           /\ calls[<<w, "failed">>].at # "idle" =>
                calls[<<w, "failed">>].req.op \in {"finishFailed", "update"}
           /\ calls[<<w, "progress">>].at # "idle" => calls[<<w, "progress">>].req.op = "reportProgress"
<1>1. /\ Awaited(calls[<<w, "run">>], RunOps(run[w].at))
      /\ Awaited(calls[<<w, "failed">>], HandOps(hand[w].at))
      /\ Awaited(calls[<<w, "progress">>], {"reportProgress"})
  BY DEF ControlInv, CallsAwaited
<1> QED
  BY <1>1 DEF Awaited, RunOps, HandOps

LEMMA StoreLawful ==
    ASSUME WorkerInv, NEW t \in Callers, Step(t)
    PROVE  Lawful(t)
<1>1. PICK w \in Workers, k \in {"run", "failed", "progress"} : t = <<w, k>>
  BY ThreadCallers
<1>2. TypeInv /\ ControlInv /\ PromiseInv
  BY DEF WorkerInv, ControlInv, WorkerTypes
<1>3. calls[t].at # "idle"
  BY <1>2, StepMoves
<1>4. calls[t].req.op # "remove"
  BY <1>1, <1>2, <1>3, ThreadOps
<1>5. calls[t].req.op # "reportProgress" => ReadHolds(calls[t])
  <2>1. k = "progress" => calls[t].req.op = "reportProgress"
    BY <1>1, <1>2, <1>3, ThreadOps
  <2> QED
    BY <1>1, <1>2, <2>1 DEF PromiseInv
<1> QED
  BY <1>2, <1>4, <1>5 DEF Lawful, PromiseInv, ControlInv, EraseMarked

LEMMA StoreControl ==
    ASSUME WorkerInv, NEW t \in Threads, StoreStep(t)
    PROVE  ControlInv'
<1>1. t \in Callers /\ Step(t) /\ UNCHANGED <<queue, run, hand, audio, erase, crashes, orphaned>>
  BY ThreadCallers DEF StoreStep
<1>2. ControlInv /\ TypeInv
  BY DEF WorkerInv, ControlInv, WorkerTypes
<1>3. /\ TypeInv'
      /\ \A u \in Callers : u # t => calls'[u] = calls[u]
      /\ calls'[t].req = calls[t].req
      /\ calls[t].at # "idle" /\ marked' = marked
  BY <1>1, <1>2, StepMoves
<1>4. RecordKept(t)
  BY <1>1, StoreLawful, StepKept
<1>5. WorkerTypes'
  BY <1>1, <1>2, <1>3 DEF ControlInv, WorkerTypes
<1>6. RunsLocked' /\ HandsAlone'
  BY <1>1, <1>2 DEF ControlInv, RunsLocked, HandsAlone, Locked
<1>7. CallsAwaited'
  <2>1. ASSUME NEW u \in Callers, NEW ops, Awaited(calls[u], ops)
        PROVE  Awaited(calls'[u], ops)
    BY <1>3, <2>1 DEF Awaited
  <2>2. ASSUME NEW w \in Workers
        PROVE  /\ Awaited(calls'[<<w, "run">>], RunOps(run'[w].at))
               /\ Awaited(calls'[<<w, "failed">>], HandOps(hand'[w].at))
               /\ Awaited(calls'[<<w, "progress">>], {"reportProgress"})
    <3>1. /\ Awaited(calls[<<w, "run">>], RunOps(run[w].at))
          /\ Awaited(calls[<<w, "failed">>], HandOps(hand[w].at))
          /\ Awaited(calls[<<w, "progress">>], {"reportProgress"})
      BY <1>2 DEF ControlInv, CallsAwaited
    <3> QED
      BY <1>1, <2>1, <3>1, ThreadCallers
  <2> QED
    BY <2>2 DEF CallsAwaited, Awaited
<1>8. EraseMarked'
  BY <1>1, <1>2, <1>3, <1>4 DEF ControlInv, EraseMarked, RecordKept
<1> QED
  BY <1>5, <1>6, <1>7, <1>8 DEF ControlInv

LEMMA StorePromises ==
    ASSUME WorkerInv, NEW t \in Threads, StoreStep(t)
    PROVE  PromiseInv'
<1>1. t \in Callers /\ Step(t) /\ audio' = audio
  BY ThreadCallers DEF StoreStep
<1>2. ControlInv /\ TypeInv /\ PromiseInv
  BY DEF WorkerInv, ControlInv, WorkerTypes
<1>3. /\ \A u \in Callers : u # t => calls'[u] = calls[u]
      /\ calls[t].at # "idle"
  BY <1>1, <1>2, StepMoves
<1>4. RecordKept(t) /\ CallKept(t)
  BY <1>1, StoreLawful, StepKept
<1>5. PICK w \in Workers, k \in {"run", "failed", "progress"} : t = <<w, k>>
  BY ThreadCallers, <1>1
<1>6. ASSUME NEW v \in Workers, NEW l \in {"run", "failed"}
      PROVE  ReadHolds(calls[<<v, l>>])'
  <2> DEFINE u == <<v, l>>
  <2>1. u \in Callers /\ ReadHolds(calls[u])
    BY <1>2, ThreadCallers DEF PromiseInv
  <2>2. CASE u = t
    <3>1. calls[t].req.op # "reportProgress"
      BY <1>2, <1>3, <2>2, ThreadOps
    <3> QED
      BY <1>4, <2>2, <3>1 DEF CallKept
  <2>3. CASE u # t /\ k = "progress"
    <3>1. calls[t].req.op = "reportProgress"
      BY <1>2, <1>3, <1>5, <2>3, ThreadOps
    <3>2. /\ acked' = acked
          /\ job = NoJob => job' = NoJob
          /\ job # NoJob => /\ job'.status = job.status /\ job'.result = job.result
                            /\ job'.cleanup = job.cleanup
      BY <1>4, <3>1 DEF RecordKept
    <3>3. calls'[u] = calls[u]
      BY <1>3, <2>1, <2>3
    <3> HIDE DEF u
    <3>4. ReadHolds(calls[u])'
      BY <2>1, <3>2, <3>3 DEF ReadHolds, Promised, Agrees
    <3> QED
      BY <3>4 DEF u
  <2>4. CASE u # t /\ k # "progress"
    <3>1. calls[u].at = "idle"
      BY <1>2, <1>3, <1>5, <2>4, OneWriter
    <3>2. calls'[u].at = "idle"
      BY <1>3, <2>1, <2>4, <3>1
    <3> QED
      BY <3>2 DEF ReadHolds
  <2> QED
    BY <2>2, <2>3, <2>4
<1>7. (job # NoJob => Promised(job))'
  BY <1>4 DEF RecordKept
<1> QED
  BY <1>6, <1>7 DEF PromiseInv

LEMMA StoreAudio ==
    ASSUME WorkerInv, NEW t \in Threads, StoreStep(t)
    PROVE  AudioInv'
<1>1. t \in Callers /\ Step(t) /\ UNCHANGED <<queue, run, hand, audio, erase, crashes, orphaned>>
  BY ThreadCallers DEF StoreStep
<1>2. ControlInv /\ TypeInv /\ AudioInv /\ (job = NoJob => marked)
  BY DEF WorkerInv, ControlInv, WorkerTypes, EraseMarked
<1>3. /\ \A u \in Callers : u # t => calls'[u] = calls[u]
      /\ calls'[t].req = calls[t].req
      /\ calls[t].at # "idle" /\ marked' = marked
  BY <1>1, <1>2, StepMoves
<1>4. RecordKept(t) /\ CallKept(t)
  BY <1>1, StoreLawful, StepKept
<1>5. PICK w \in Workers, k \in {"run", "failed", "progress"} : t = <<w, k>>
  BY ThreadCallers, <1>1
<1>6. Spent => Spent'
  BY <1>2, <1>3, <1>4 DEF Spent, RecordKept, isFinished
<1>7. CASE k = "progress"
  <2>1. calls[t].req.op = "reportProgress"
    BY <1>2, <1>3, <1>5, <1>7, ThreadOps
  <2>2. SeenTo => SeenTo'
    BY <1>1, <1>2, <1>3, <1>4, <2>1 DEF SeenTo, RecordKept, isFinished
  <2>3. ASSUME NEW v \in Workers PROVE RunLeaves(v)' /\ HandLeaves(v)'
    <3>1. /\ calls'[<<v, "run">>] = calls[<<v, "run">>]
          /\ calls'[<<v, "failed">>] = calls[<<v, "failed">>]
      BY <1>3, <1>5, <1>7, ThreadCallers
    <3>2. RunLeaves(v) /\ HandLeaves(v)
      BY <1>2 DEF AudioInv
    <3>3. RunLeaves(v)'
      BY <1>1, <1>6, <2>2, <3>1, <3>2 DEF RunLeaves, Releasing
    <3>4. HandLeaves(v)'
      BY <1>1, <1>6, <2>2, <3>1, <3>2 DEF HandLeaves, Releasing, attemptsExhausted
    <3> QED
      BY <3>3, <3>4
  <2>4. QueueLeaves'
    BY <1>1, <1>2, <2>2 DEF AudioInv, QueueLeaves
  <2> QED
    BY <1>1, <1>2, <1>6, <2>3, <2>4 DEF AudioInv
<1>8. CASE k = "run"
  <2>1. /\ queue.state = "active"
        /\ run[w].at \notin {"return", "delete"}
        /\ run[w].at = "releasing" => calls[t].req.op = "update"
        /\ \A v \in Workers : hand[v].at = "idle"
        /\ \A v \in Workers : v # w => run[v].at = "idle"
    BY <1>2, <1>3, <1>5, <1>8, BusyRun DEF RunOps
  <2>2. ASSUME NEW v \in Workers PROVE RunLeaves(v)' /\ HandLeaves(v)'
    <3>1. HandLeaves(v)'
      BY <1>1, <2>1 DEF HandLeaves
    <3>2. CASE v # w
      BY <1>1, <2>1, <3>1, <3>2 DEF RunLeaves
    <3>3. CASE v = w
      <4>1. run[w].at = "releasing" => Releasing(calls[t])
        BY <1>2, <1>5, <1>8 DEF AudioInv, RunLeaves
      <4>2. run[w].at = "releasing" => Releasing(calls[t])'
        BY <1>1, <1>3, <1>4, <2>1, <4>1 DEF Releasing, CallKept
      <4> QED
        BY <1>1, <1>5, <1>8, <2>1, <3>1, <3>3, <4>2 DEF RunLeaves
    <3> QED
      BY <3>2, <3>3
  <2>3. QueueLeaves'
    BY <1>1, <2>1 DEF QueueLeaves
  <2> QED
    BY <1>1, <1>2, <1>6, <2>2, <2>3 DEF AudioInv
<1>9. CASE k = "failed"
  <2>1. /\ queue.state \notin {"active", "completed"}
        /\ hand[w].at \in {"finishing", "noting", "releasing"}
        /\ hand[w].at = "releasing" => calls[t].req.op = "update"
        /\ hand[w].at = "finishing" => calls[t].req.op = "finishFailed"
        /\ \A v \in Workers : run[v].at = "idle"
        /\ \A v \in Workers : v # w => hand[v].at = "idle"
    BY <1>2, <1>3, <1>5, <1>9, BusyHand DEF HandOps
  <2>2. ASSUME NEW v \in Workers PROVE RunLeaves(v)' /\ HandLeaves(v)'
    <3>1. RunLeaves(v)'
      BY <1>1, <2>1 DEF RunLeaves
    <3>2. CASE v # w
      BY <1>1, <2>1, <3>1, <3>2 DEF HandLeaves
    <3>3. CASE v = w
      <4>1. HandLeaves(w)
        BY <1>2 DEF AudioInv
      <4>2. hand[w].at = "releasing" => Releasing(calls[t])'
        BY <1>1, <1>3, <1>4, <1>5, <1>9, <2>1, <4>1 DEF HandLeaves, Releasing, CallKept
      <4>3. hand[w].at = "finishing" /\ calls'[t].at = "done" /\ calls'[t].reply \notin {"ok", "null"}
              => SeenTo'
        BY <1>4, <2>1 DEF CallKept
      <4>4. hand[w].at = "noting" => queue.state # "failed"
        BY <4>1 DEF HandLeaves
      <4>5. HandLeaves(w)'
        BY <1>1, <1>5, <1>9, <2>1, <4>2, <4>3, <4>4 DEF HandLeaves
      <4> QED
        BY <3>1, <3>3, <4>5
    <3> QED
      BY <3>2, <3>3
  <2>3. QueueLeaves'
    BY <1>1, <2>1 DEF QueueLeaves
  <2> QED
    BY <1>1, <1>2, <1>6, <2>2, <2>3 DEF AudioInv
<1> QED
  BY <1>7, <1>8, <1>9

LEMMA StoreInv ==
    ASSUME WorkerInv, NEW t \in Threads, StoreStep(t)
    PROVE  WorkerInv'
BY StoreControl, StorePromises, StoreAudio DEF WorkerInv

-----------------------------------------------------------------------------
(* Steps of a worker.  A thread begins a call, is done with one, or has    *)
(* none under way.                                                         *)
CallsMoved(t) ==
    /\ TypeInv'
    /\ \A u \in Callers : u # t => calls'[u] = calls[u]
    /\ calls'[t].at \in {"idle", "barrier"}
    /\ calls'[t].at = "barrier" => calls'[t].snap = NoJob

LEMMA CallBegun ==
    ASSUME TypeInv, NEW t \in Callers, NEW req \in Request, req.op # "remove",
           calls' = [calls EXCEPT ![t] = Call(req)], UNCHANGED <<job, marked, acked>>
    PROVE  CallsMoved(t) /\ calls'[t].req = req /\ calls'[t].at = "barrier"
<1>1. TypeInv'
  BY IdleTypeInv
<1>2. /\ \A u \in Callers : u # t => calls'[u] = calls[u]
      /\ calls'[t] = Call(req)
  BY CallsType
<1>3. Call(req).at = "barrier" /\ Call(req).snap = NoJob /\ Call(req).req = req
  BY DEF Call, Idle
<1> QED
  BY <1>1, <1>2, <1>3 DEF CallsMoved

LEMMA CallFreed ==
    ASSUME TypeInv, NEW t \in Callers, Free(t), UNCHANGED <<job, marked, acked>>
    PROVE  CallsMoved(t) /\ calls'[t].at = "idle"
<1>1. calls' = [calls EXCEPT ![t] = Idle]
  BY DEF Free
<1>2. TypeInv'
  BY <1>1, IdleTypeInv
<1>3. /\ \A u \in Callers : u # t => calls'[u] = calls[u]
      /\ calls'[t] = Idle
  BY <1>1, CallsType
<1>4. Idle.at = "idle"
  BY DEF Idle
<1> QED
  BY <1>2, <1>3, <1>4 DEF CallsMoved

LEMMA StoreSame ==
    ASSUME TypeInv, UNCHANGED <<job, marked, calls, acked>>
    PROVE  TypeInv'
BY DEF TypeInv, TypeOK, Shape

LEMMA NoCall ==
    ASSUME TypeInv, NEW t \in Callers, calls[t].at = "idle", UNCHANGED <<job, marked, calls, acked>>
    PROVE  CallsMoved(t) /\ calls'[t].at = "idle"
BY StoreSame DEF CallsMoved

(* The promises do not depend on where the workers are.                    *)
LEMMA PromisesMoved ==
    ASSUME PromiseInv, NEW t \in Callers, CallsMoved(t), UNCHANGED <<job, acked>>
    PROVE  PromiseInv'
<1>1. ASSUME NEW u \in Callers, ReadHolds(calls[u])
      PROVE  ReadHolds(calls[u])'
  <2>1. CASE u = t
    BY <2>1 DEF ReadHolds, CallsMoved
  <2>2. CASE u # t
    <3>1. calls'[u] = calls[u]
      BY <2>2 DEF CallsMoved
    <3> QED
      BY <1>1, <3>1 DEF ReadHolds, Promised, Agrees
  <2> QED
    BY <2>1, <2>2
<1>2. ASSUME NEW w \in Workers
      PROVE  ReadHolds(calls[<<w, "run">>])' /\ ReadHolds(calls[<<w, "failed">>])'
  BY <1>1, ThreadCallers DEF PromiseInv
<1>3. (job # NoJob => Promised(job))'
  BY DEF PromiseInv, Promised
<1> QED
  BY <1>2, <1>3 DEF PromiseInv

LEMMA PromisesSame ==
    ASSUME PromiseInv, UNCHANGED <<job, calls, acked>>
    PROVE  PromiseInv'
BY DEF PromiseInv, Promised, ReadHolds, Agrees

(* The processor function of a worker moves on, and nothing else happens.  *)
RunMoved(w) ==
    /\ run[w].at # "idle" /\ run'[w].at # "idle"
    /\ run' \in [Workers -> RunRec]
    /\ \A v \in Workers : v # w => run'[v] = run[v]
    /\ CallsMoved(<<w, "run">>)
    /\ Awaited(calls'[<<w, "run">>], RunOps(run'[w].at))

LEMMA RunKeeps ==
    ASSUME WorkerInv, NEW w \in Workers, RunMoved(w), UNCHANGED <<job, marked, acked, queue, hand>>,
           UNCHANGED <<erase, crashes, orphaned>>, audio' \in BOOLEAN, audio => audio' \/ Spent,
           run'[w].at = "delete" => Spent,
           run'[w].at = "return" => SeenTo',
           run'[w].at = "releasing" /\ calls'[<<w, "run">>].req.op = "update" =>
             /\ calls'[<<w, "run">>].req.patch # "attemptNoted"
             /\ calls'[<<w, "run">>].req.patch = "audioReleased" => ~audio'
    PROVE  WorkerInv'
<1> DEFINE t == <<w, "run">>
<1>1. /\ t \in Callers /\ CallsMoved(t)
      /\ ControlInv /\ WorkerTypes /\ PromiseInv /\ AudioInv
  BY ThreadCallers DEF WorkerInv, ControlInv, RunMoved
<1>2. /\ \A v \in Workers : hand[v].at = "idle"
      /\ \A v \in Workers : v # w => run[v].at = "idle"
      /\ queue.state = "active" /\ Locked(w)
  BY <1>1 DEF ControlInv, RunsLocked, HandsAlone, Locked, RunMoved
<1>3. WorkerTypes'
  BY <1>1 DEF WorkerTypes, RunMoved, CallsMoved
<1>4. RunsLocked' /\ HandsAlone' /\ EraseMarked'
  BY <1>1, <1>2 DEF ControlInv, RunsLocked, HandsAlone, EraseMarked, Locked, RunMoved
<1>5. CallsAwaited'
  <2>1. ASSUME NEW v \in Workers
        PROVE  /\ Awaited(calls'[<<v, "run">>], RunOps(run'[v].at))
               /\ Awaited(calls'[<<v, "failed">>], HandOps(hand'[v].at))
               /\ Awaited(calls'[<<v, "progress">>], {"reportProgress"})
    <3>1. /\ Awaited(calls[<<v, "run">>], RunOps(run[v].at))
          /\ Awaited(calls[<<v, "failed">>], HandOps(hand[v].at))
          /\ Awaited(calls[<<v, "progress">>], {"reportProgress"})
      BY <1>1 DEF ControlInv, CallsAwaited
    <3>2. /\ calls'[<<v, "failed">>] = calls[<<v, "failed">>]
          /\ calls'[<<v, "progress">>] = calls[<<v, "progress">>]
          /\ v # w => calls'[<<v, "run">>] = calls[<<v, "run">>] /\ run'[v] = run[v]
      BY <1>1, ThreadCallers DEF CallsMoved, RunMoved
    <3>3. CASE v = w
      BY <3>1, <3>2, <3>3 DEF RunMoved
    <3>4. CASE v # w
      BY <3>1, <3>2, <3>4
    <3> QED
      BY <3>3, <3>4
  <2> QED
    BY <2>1 DEF CallsAwaited, Awaited
<1>6. PromiseInv'
  BY <1>1, PromisesMoved
<1>7. AudioInv'
  <2>1. Spent => Spent'
    BY DEF Spent, isFinished
  <2>2. ASSUME NEW v \in Workers PROVE RunLeaves(v)' /\ HandLeaves(v)'
    <3>1. HandLeaves(v)'
      BY <1>2 DEF HandLeaves
    <3>2. CASE v # w
      BY <1>2, <3>1, <3>2 DEF RunLeaves, RunMoved
    <3>3. CASE v = w
      <4>1. run'[w].at = "releasing" => Releasing(calls[t])'
        BY <1>1 DEF Releasing, CallsMoved
      <4>2. RunLeaves(w)'
        BY <2>1, <4>1 DEF RunLeaves
      <4> QED
        BY <3>1, <3>3, <4>2
    <3> QED
      BY <3>2, <3>3
  <2>3. QueueLeaves'
    BY <1>2 DEF QueueLeaves
  <2>4. ~audio' => Spent'
    BY <1>1, <2>1 DEF AudioInv
  <2> QED
    BY <2>2, <2>3, <2>4 DEF AudioInv
<1> QED
  BY <1>3, <1>4, <1>5, <1>6, <1>7 DEF WorkerInv, ControlInv

(* So does its failed handler, to the end of it or not.                    *)
HandMoved(w) ==
    /\ hand[w].at # "idle"
    /\ hand' \in [Workers -> HandRec]
    /\ \A v \in Workers : v # w => hand'[v] = hand[v]
    /\ CallsMoved(<<w, "failed">>)
    /\ Awaited(calls'[<<w, "failed">>], HandOps(hand'[w].at))

LEMMA HandKeeps ==
    ASSUME WorkerInv, NEW w \in Workers, HandMoved(w), UNCHANGED <<job, marked, acked, queue, run>>,
           UNCHANGED <<erase, crashes, orphaned>>, audio' \in BOOLEAN, audio => audio' \/ Spent,
           hand'[w].at = "delete" => Spent,
           hand'[w].at = "releasing" /\ calls'[<<w, "failed">>].req.op = "update" =>
             /\ calls'[<<w, "failed">>].req.patch # "attemptNoted"
             /\ calls'[<<w, "failed">>].req.patch = "audioReleased" => ~audio',
           hand'[w].at = "noting" => queue.state # "failed",
           hand'[w].at # "start",
           hand'[w].at = "idle" /\ queue.state = "failed" => SeenTo'
    PROVE  WorkerInv'
<1> DEFINE t == <<w, "failed">>
<1>1. /\ t \in Callers /\ CallsMoved(t)
      /\ ControlInv /\ WorkerTypes /\ PromiseInv /\ AudioInv
  BY ThreadCallers DEF WorkerInv, ControlInv, HandMoved
<1>2. /\ queue.state \notin {"active", "completed"}
      /\ \A v \in Workers : run[v].at = "idle"
      /\ \A v \in Workers : v # w => hand[v].at = "idle"
  BY <1>1, HandAtWork DEF HandMoved
<1>3. WorkerTypes'
  BY <1>1 DEF WorkerTypes, HandMoved, CallsMoved
<1>4. RunsLocked' /\ HandsAlone' /\ EraseMarked'
  BY <1>1, <1>2 DEF ControlInv, RunsLocked, HandsAlone, EraseMarked, Locked, HandMoved
<1>5. CallsAwaited'
  <2>1. ASSUME NEW v \in Workers
        PROVE  /\ Awaited(calls'[<<v, "run">>], RunOps(run'[v].at))
               /\ Awaited(calls'[<<v, "failed">>], HandOps(hand'[v].at))
               /\ Awaited(calls'[<<v, "progress">>], {"reportProgress"})
    <3>1. /\ Awaited(calls[<<v, "run">>], RunOps(run[v].at))
          /\ Awaited(calls[<<v, "failed">>], HandOps(hand[v].at))
          /\ Awaited(calls[<<v, "progress">>], {"reportProgress"})
      BY <1>1 DEF ControlInv, CallsAwaited
    <3>2. /\ calls'[<<v, "run">>] = calls[<<v, "run">>]
          /\ calls'[<<v, "progress">>] = calls[<<v, "progress">>]
          /\ v # w => calls'[<<v, "failed">>] = calls[<<v, "failed">>] /\ hand'[v] = hand[v]
      BY <1>1, ThreadCallers DEF CallsMoved, HandMoved
    <3>3. CASE v = w
      BY <3>1, <3>2, <3>3 DEF HandMoved
    <3>4. CASE v # w
      BY <3>1, <3>2, <3>4
    <3> QED
      BY <3>3, <3>4
  <2> QED
    BY <2>1 DEF CallsAwaited, Awaited
<1>6. PromiseInv'
  BY <1>1, PromisesMoved
<1>7. AudioInv'
  <2>1. Spent => Spent'
    BY DEF Spent, isFinished
  <2>2. ASSUME NEW v \in Workers PROVE RunLeaves(v)' /\ HandLeaves(v)'
    <3>1. RunLeaves(v)'
      BY <1>2 DEF RunLeaves
    <3>2. CASE v # w
      BY <1>2, <3>1, <3>2 DEF HandLeaves, HandMoved
    <3>3. CASE v = w
      <4>1. hand'[w].at = "releasing" => Releasing(calls[t])'
        BY <1>1 DEF Releasing, CallsMoved
      <4>2. calls'[t].at # "done"
        BY <1>1 DEF CallsMoved
      <4>3. HandLeaves(w)'
        BY <2>1, <4>1, <4>2 DEF HandLeaves
      <4> QED
        BY <3>1, <3>3, <4>3
    <3> QED
      BY <3>2, <3>3
  <2>3. QueueLeaves'
    <3>1. hand'[w].at = "idle" /\ queue.state = "failed" => SeenTo'
      OBVIOUS
    <3> QED
      BY <1>2, <3>1 DEF QueueLeaves
  <2>4. ~audio' => Spent'
    BY <1>1, <2>1 DEF AudioInv
  <2> QED
    BY <2>2, <2>3, <2>4 DEF AudioInv
<1> QED
  BY <1>3, <1>4, <1>5, <1>6, <1>7 DEF WorkerInv, ControlInv

-----------------------------------------------------------------------------
(* The steps of the processor function.                                    *)

LEMMA Requests ==
    /\ [op |-> "restart"] \in Request /\ [op |-> "finishFailed"] \in Request
    /\ \A p \in Phases : [op |-> "startPhase", phase |-> p] \in Request
    /\ \A r \in Results : [op |-> "finish", result |-> r] \in Request
    /\ \A p \in Phases : \A n \in Progress :
         [op |-> "reportProgress", phase |-> p, current |-> n] \in Request
    /\ \A x \in {"audioReleased", "audioKept", "attemptNoted"} :
         [op |-> "update", patch |-> x] \in Request
BY DEF Request

LEMMA Answers ==
    ASSUME TypeInv, NEW t \in Callers
    PROVE  calls[t].reply \in Replies
BY CallsType DEF Call0

LEMMA NoCallAt ==
    ASSUME ControlInv, NEW w \in Workers
    PROVE  /\ run[w].at \notin {"restarting", "revoking", "transcribing", "diarizing", "merging",
                                "finishing", "releasing"} => calls[<<w, "run">>].at = "idle"
           /\ hand[w].at \notin {"finishing", "noting", "releasing"} => calls[<<w, "failed">>].at = "idle"
BY BusyRun, BusyHand

RunGoes(w, step) ==
    /\ run' \in [Workers -> RunRec] /\ run'[w].at = step
    /\ \A v \in Workers : v # w => run'[v] = run[v]

LEMMA RunToGoes ==
    ASSUME WorkerTypes, NEW w \in Workers, NEW step \in RunSteps, RunTo(w, step)
    PROVE  RunGoes(w, step)
<1>1. run \in [Workers -> RunRec]
  BY DEF WorkerTypes
<1>2. run' = [run EXCEPT ![w] = [run[w] EXCEPT !.at = step]]
  BY <1>1 DEF RunTo
<1>3. [run[w] EXCEPT !.at = step] \in RunRec
  BY <1>1 DEF RunRec
<1> QED
  BY <1>1, <1>2, <1>3 DEF RunGoes, RunRec

LEMMA ThrowGoes ==
    ASSUME WorkerTypes, NEW w \in Workers, NEW why \in {"retryable", "fatal"} \cup Replies, Throw(w, why)
    PROVE  RunGoes(w, "throw")
<1>1. run \in [Workers -> RunRec]
  BY DEF WorkerTypes
<1> DEFINE r == [run[w] EXCEPT !.at = "throw", !.why = why]
<1>2. run' = [run EXCEPT ![w] = r]
  BY <1>1 DEF Throw
<1>3. r \in RunRec /\ r.at = "throw"
  BY <1>1 DEF RunRec, RunSteps
<1> HIDE DEF r
<1> QED
  BY <1>1, <1>2, <1>3 DEF RunGoes

LEMMA ValueGoes ==
    ASSUME WorkerTypes, NEW w \in Workers, NEW r \in Results,
           run' = [run EXCEPT ![w].at = "finishing", ![w].value = r]
    PROVE  RunGoes(w, "finishing")
<1>1. run \in [Workers -> RunRec]
  BY DEF WorkerTypes
<1> DEFINE q == [run[w] EXCEPT !.at = "finishing", !.value = r]
<1>2. run' = [run EXCEPT ![w] = q]
  BY <1>1
<1>3. q \in RunRec /\ q.at = "finishing"
  BY <1>1 DEF RunRec, RunSteps
<1> HIDE DEF q
<1> QED
  BY <1>1, <1>2, <1>3 DEF RunGoes

(* The run goes on without a call, after one, or to wait for one.          *)
LEMMA RunWithout ==
    ASSUME WorkerInv, NEW w \in Workers, run[w].at # "idle",
           NEW step \in RunSteps \ {"idle", "releasing"}, RunGoes(w, step), OnlyRun,
           Free(<<w, "run">>) \/ (UNCHANGED calls /\ calls[<<w, "run">>].at = "idle"),
           step = "delete" => Spent,
           step = "return" => SeenTo
    PROVE  WorkerInv'
<1> DEFINE t == <<w, "run">>
<1>1. t \in Callers /\ TypeInv /\ WorkerTypes
  BY ThreadCallers DEF WorkerInv, ControlInv, WorkerTypes
<1>2. UNCHANGED <<job, marked, acked, queue, hand, audio, erase, crashes, orphaned>>
  BY DEF OnlyRun
<1>3. CallsMoved(t) /\ calls'[t].at = "idle"
  BY <1>1, <1>2, CallFreed, NoCall
<1>4. RunMoved(w)
  BY <1>1, <1>3 DEF RunMoved, RunGoes, Awaited
<1>5. step = "return" => SeenTo'
  BY <1>2 DEF SeenTo, isFinished
<1>6. audio' \in BOOLEAN
  BY <1>1, <1>2 DEF WorkerTypes
<1>7. run'[w].at = step
  BY DEF RunGoes
<1> QED
  BY <1>2, <1>4, <1>5, <1>6, <1>7, RunKeeps

LEMMA RunWaits ==
    ASSUME WorkerInv, NEW w \in Workers, run[w].at # "idle",
           NEW step \in RunSteps \ {"idle", "delete", "return"}, RunGoes(w, step), OnlyRun,
           NEW req \in Request, req.op \in RunOps(step),
           calls' = [calls EXCEPT ![<<w, "run">>] = Call(req)],
           req.op = "update" => req.patch = "audioKept"
    PROVE  WorkerInv'
<1> DEFINE t == <<w, "run">>
<1>1. t \in Callers /\ TypeInv /\ WorkerTypes
  BY ThreadCallers DEF WorkerInv, ControlInv, WorkerTypes
<1>2. UNCHANGED <<job, marked, acked, queue, hand, audio, erase, crashes, orphaned>>
  BY DEF OnlyRun
<1>3. req.op # "remove"
  BY DEF RunOps
<1>4. CallsMoved(t) /\ calls'[t].req = req
  BY <1>1, <1>2, <1>3, CallBegun
<1>5. RunMoved(w)
  BY <1>1, <1>4 DEF RunMoved, RunGoes, Awaited
<1>6. audio' \in BOOLEAN
  BY <1>1, <1>2 DEF WorkerTypes
<1>7. run'[w].at = step
  BY DEF RunGoes
<1>8. calls'[t].req.op = "update" =>
        calls'[t].req.patch # "attemptNoted" /\ calls'[t].req.patch # "audioReleased"
  BY <1>4
<1> QED
  BY <1>2, <1>5, <1>6, <1>7, <1>8, RunKeeps

LEMMA RunParts ==
    ASSUME WorkerInv
    PROVE  ControlInv /\ PromiseInv /\ AudioInv /\ WorkerTypes /\ TypeInv
BY DEF WorkerInv, ControlInv, WorkerTypes

LEMMA EnterInv ==
    ASSUME WorkerInv, NEW w \in Workers, Enter(w)
    PROVE  WorkerInv'
<1>1. PICK step \in {"return", "inspect"} :
        RunTo(w, step) /\ run[w].at = "enter" /\ UNCHANGED calls /\ OnlyRun /\ (step = "return" => marked)
  BY DEF Enter
<1>2. calls[<<w, "run">>].at = "idle"
  BY <1>1, RunParts, NoCallAt
<1>3. step \in RunSteps \ {"idle", "releasing"} /\ RunGoes(w, step)
  BY <1>1, RunParts, RunToGoes DEF RunSteps
<1>4. step = "return" => SeenTo
  BY <1>1 DEF SeenTo
<1> QED
  BY <1>1, <1>2, <1>3, <1>4, RunWithout

LEMMA InspectInv ==
    ASSUME WorkerInv, NEW w \in Workers, Inspect(w)
    PROVE  WorkerInv'
<1> DEFINE t == <<w, "run">>
<1>1. run[w].at = "inspect" /\ OnlyRun
      /\ \/ Throw(w, "retryable") /\ UNCHANGED calls
         \/ RunTo(w, "restarting") /\ Start(t, [op |-> "restart"])
         \/ RunTo(w, "lookup") /\ UNCHANGED calls
  BY DEF Inspect
<1>2. calls[t].at = "idle"
  BY <1>1, RunParts, NoCallAt
<1>3. CASE Throw(w, "retryable") /\ UNCHANGED calls
  <2>1. RunGoes(w, "throw")
    BY <1>3, RunParts, ThrowGoes
  <2> QED
    BY <1>1, <1>2, <1>3, <2>1, RunWithout DEF RunSteps
<1>4. CASE RunTo(w, "restarting") /\ Start(t, [op |-> "restart"])
  <2>1. RunGoes(w, "restarting")
    BY <1>4, RunParts, RunToGoes DEF RunSteps
  <2>2. [op |-> "restart"].op \in RunOps("restarting")
    BY DEF RunOps
  <2> QED
    BY <1>1, <1>4, <2>1, <2>2, RunWaits, Requests DEF RunSteps, Start
<1>5. CASE RunTo(w, "lookup") /\ UNCHANGED calls
  <2>1. RunGoes(w, "lookup")
    BY <1>5, RunParts, RunToGoes DEF RunSteps
  <2> QED
    BY <1>1, <1>2, <1>5, <2>1, RunWithout DEF RunSteps
<1> QED
  BY <1>1, <1>3, <1>4, <1>5

LEMMA RestartingInv ==
    ASSUME WorkerInv, NEW w \in Workers, Restarting(w)
    PROVE  WorkerInv'
<1> DEFINE t == <<w, "run">>
<1>1. run[w].at = "restarting" /\ OnlyRun /\ Free(t)
      /\ (RunTo(w, "authorize") \/ Throw(w, calls[t].reply))
  BY DEF Restarting
<1>2. calls[t].reply \in Replies
  BY RunParts, ThreadCallers, Answers
<1>3. RunGoes(w, "authorize") \/ RunGoes(w, "throw")
  BY <1>1, <1>2, RunParts, RunToGoes, ThrowGoes DEF RunSteps
<1> QED
  BY <1>1, <1>3, RunWithout DEF RunSteps

LEMMA AuthorizeInv ==
    ASSUME WorkerInv, NEW w \in Workers, Authorize(w)
    PROVE  WorkerInv'
<1> DEFINE t == <<w, "run">>
<1>1. run[w].at = "authorize" /\ OnlyRun
  BY DEF Authorize
<1>2. calls[t].at = "idle"
  BY <1>1, RunParts, NoCallAt
<1>3. CASE RunTo(w, "load") /\ UNCHANGED calls
  <2>1. RunGoes(w, "load")
    BY <1>3, RunParts, RunToGoes DEF RunSteps
  <2> QED
    BY <1>1, <1>2, <1>3, <2>1, RunWithout DEF RunSteps
<1>4. CASE RunTo(w, "revoking") /\ Start(t, [op |-> "finishFailed"])
  <2>1. RunGoes(w, "revoking")
    BY <1>4, RunParts, RunToGoes DEF RunSteps
  <2>2. [op |-> "finishFailed"].op \in RunOps("revoking")
    BY DEF RunOps
  <2> QED
    BY <1>1, <1>4, <2>1, <2>2, RunWaits, Requests DEF RunSteps, Start
<1> QED
  BY <1>3, <1>4 DEF Authorize

LEMMA RevokingInv ==
    ASSUME WorkerInv, NEW w \in Workers, Revoking(w)
    PROVE  WorkerInv'
<1> DEFINE t == <<w, "run">>
<1>1. run[w].at = "revoking" /\ OnlyRun /\ Free(t)
      /\ (RunTo(w, "lookup") \/ Throw(w, calls[t].reply))
  BY DEF Revoking
<1>2. calls[t].reply \in Replies
  BY RunParts, ThreadCallers, Answers
<1>3. RunGoes(w, "lookup") \/ RunGoes(w, "throw")
  BY <1>1, <1>2, RunParts, RunToGoes, ThrowGoes DEF RunSteps
<1> QED
  BY <1>1, <1>3, RunWithout DEF RunSteps

LEMMA LoadInv ==
    ASSUME WorkerInv, NEW w \in Workers, Load(w)
    PROVE  WorkerInv'
<1> DEFINE t == <<w, "run">>
           req == [op |-> "startPhase", phase |-> "transcribing"]
<1>1. run[w].at = "load" /\ OnlyRun
      /\ \/ RunTo(w, "transcribing") /\ Start(t, req)
         \/ Throw(w, "retryable") /\ UNCHANGED calls
  BY DEF Load
<1>2. calls[t].at = "idle"
  BY <1>1, RunParts, NoCallAt
<1>3. CASE RunTo(w, "transcribing") /\ Start(t, req)
  <2>1. RunGoes(w, "transcribing")
    BY <1>3, RunParts, RunToGoes DEF RunSteps
  <2>2. req \in Request /\ req.op \in RunOps("transcribing") /\ req.op # "update"
    BY Requests DEF RunOps, Phases
  <2>3. calls' = [calls EXCEPT ![t] = Call(req)]
    BY <1>3 DEF Start
  <2> HIDE DEF req
  <2> QED
    BY <1>1, <2>1, <2>2, <2>3, RunWaits DEF RunSteps
<1>4. CASE Throw(w, "retryable") /\ UNCHANGED calls
  <2>1. RunGoes(w, "throw")
    BY <1>4, RunParts, ThrowGoes
  <2> QED
    BY <1>1, <1>2, <1>4, <2>1, RunWithout DEF RunSteps
<1> QED
  BY <1>1, <1>3, <1>4

(* pradetiFaze() throws only what jobPhase refused.                        *)
LEMMA ThrownInv ==
    ASSUME WorkerInv, NEW w \in Workers, run[w].at # "idle", OnlyRun,
           Throw(w, calls[<<w, "run">>].reply), Free(<<w, "run">>)
    PROVE  WorkerInv'
<1>1. calls[<<w, "run">>].reply \in Replies
  BY RunParts, ThreadCallers, Answers
<1>2. RunGoes(w, "throw")
  BY <1>1, RunParts, ThrowGoes
<1> QED
  BY <1>2, RunWithout DEF RunSteps

LEMMA TranscribingInv ==
    ASSUME WorkerInv, NEW w \in Workers, Transcribing(w)
    PROVE  WorkerInv'
<1>1. run[w].at = "transcribing" /\ OnlyRun /\ Free(<<w, "run">>)
      /\ (RunTo(w, "provider") \/ Throw(w, calls[<<w, "run">>].reply))
  BY DEF Transcribing, PhaseAnswered
<1>2. CASE RunTo(w, "provider")
  <2>1. RunGoes(w, "provider")
    BY <1>2, RunParts, RunToGoes DEF RunSteps
  <2> QED
    BY <1>1, <2>1, RunWithout DEF RunSteps
<1> QED
  BY <1>1, <1>2, ThrownInv

LEMMA FinishWithInv ==
    ASSUME WorkerInv, NEW w \in Workers, run[w].at # "idle", OnlyRun,
           NEW r \in Results, FinishWith(w, r, <<w, "run">>)
    PROVE  WorkerInv'
<1> DEFINE req == [op |-> "finish", result |-> r]
<1>1. RunGoes(w, "finishing") /\ calls' = [calls EXCEPT ![<<w, "run">>] = Call(req)]
  BY RunParts, ValueGoes DEF FinishWith
<1>2. req \in Request /\ req.op \in RunOps("finishing") /\ req.op # "update"
  BY Requests DEF RunOps
<1> HIDE DEF req
<1> QED
  BY <1>1, <1>2, RunWaits DEF RunSteps

LEMMA PhaseInv ==
    ASSUME WorkerInv, NEW w \in Workers, run[w].at # "idle", OnlyRun,
           NEW p \in {"diarizing", "merging"}, RunGoes(w, p),
           calls' = [calls EXCEPT ![<<w, "run">>] = Call([op |-> "startPhase", phase |-> p])]
    PROVE  WorkerInv'
<1> DEFINE req == [op |-> "startPhase", phase |-> p]
<1>1. req \in Request /\ req.op \in RunOps(p) /\ req.op # "update"
  BY Requests DEF RunOps, Phases
<1>2. calls' = [calls EXCEPT ![<<w, "run">>] = Call(req)]
  OBVIOUS
<1> HIDE DEF req
<1> QED
  BY <1>1, <1>2, RunWaits DEF RunSteps

LEMMA ProvideInv ==
    ASSUME WorkerInv, NEW w \in Workers, Provide(w)
    PROVE  WorkerInv'
<1> DEFINE t == <<w, "run">>
<1>1. run[w].at = "provider" /\ OnlyRun
  BY DEF Provide
<1>2. calls[t].at = "idle"
  BY <1>1, RunParts, NoCallAt
<1>3. ASSUME NEW why \in {"retryable", "fatal"}, Throw(w, why), UNCHANGED calls PROVE WorkerInv'
  <2>1. RunGoes(w, "throw")
    BY <1>3, RunParts, ThrowGoes
  <2> QED
    BY <1>1, <1>2, <1>3, <2>1, RunWithout DEF RunSteps
<1>4. ASSUME NEW r \in Results, FinishWith(w, r, t) PROVE WorkerInv'
  BY <1>1, <1>4, FinishWithInv
<1>5. CASE RunTo(w, "diarizing") /\ Start(t, [op |-> "startPhase", phase |-> "diarizing"])
  <2>1. RunGoes(w, "diarizing")
    BY <1>5, RunParts, RunToGoes DEF RunSteps
  <2> QED
    BY <1>1, <1>5, <2>1, PhaseInv DEF Start
<1> QED
  BY <1>3, <1>4, <1>5 DEF Provide

LEMMA DiarizingInv ==
    ASSUME WorkerInv, NEW w \in Workers, Diarizing(w)
    PROVE  WorkerInv'
<1>1. run[w].at = "diarizing" /\ OnlyRun
  BY DEF Diarizing, PhaseAnswered
<1>2. CASE /\ run' = [run EXCEPT ![w].at = "merging"]
           /\ calls' = [calls EXCEPT ![<<w, "run">>] = Call([op |-> "startPhase", phase |-> "merging"])]
  <2>1. RunGoes(w, "merging")
    BY <1>2, RunParts, RunToGoes DEF RunSteps, RunTo
  <2> QED
    BY <1>1, <1>2, <2>1, PhaseInv
<1>3. CASE Throw(w, calls[<<w, "run">>].reply) /\ Free(<<w, "run">>)
  BY <1>1, <1>3, ThrownInv
<1>4. CASE Throw(w, "retryable") /\ Free(<<w, "run">>)
  <2>1. RunGoes(w, "throw")
    BY <1>4, RunParts, ThrowGoes
  <2> QED
    BY <1>1, <1>4, <2>1, RunWithout DEF RunSteps
<1> QED
  BY <1>2, <1>3, <1>4 DEF Diarizing, PhaseAnswered

LEMMA MergingInv ==
    ASSUME WorkerInv, NEW w \in Workers, Merging(w)
    PROVE  WorkerInv'
<1>1. run[w].at = "merging" /\ OnlyRun
      /\ \/ \E r \in Results : FinishWith(w, r, <<w, "run">>)
         \/ Throw(w, calls[<<w, "run">>].reply) /\ Free(<<w, "run">>)
  BY DEF Merging, PhaseAnswered
<1> QED
  BY <1>1, FinishWithInv, ThrownInv

LEMMA FinishingInv ==
    ASSUME WorkerInv, NEW w \in Workers, Finishing(w)
    PROVE  WorkerInv'
<1> DEFINE t == <<w, "run">>
<1>1. run[w].at = "finishing" /\ OnlyRun /\ Free(t)
      /\ \/ RunTo(w, "lookup")
         \/ Throw(w, calls[t].reply)
         \/ \E why \in {"retryable", "fatal"} : Throw(w, why)
  BY DEF Finishing
<1>2. calls[t].reply \in Replies
  BY RunParts, ThreadCallers, Answers
<1>3. RunGoes(w, "lookup") \/ RunGoes(w, "throw")
  BY <1>1, <1>2, RunParts, RunToGoes, ThrowGoes DEF RunSteps
<1> QED
  BY <1>1, <1>3, RunWithout DEF RunSteps

-----------------------------------------------------------------------------
(* The steps of the failed handler, and the clean-up both take.            *)

HandGoes(w, step) ==
    /\ hand' \in [Workers -> HandRec] /\ hand'[w].at = step
    /\ \A v \in Workers : v # w => hand'[v] = hand[v]

LEMMA HandToGoes ==
    ASSUME WorkerTypes, NEW w \in Workers, NEW step \in HandSteps, HandTo(w, step)
    PROVE  HandGoes(w, step)
<1>1. hand \in [Workers -> HandRec]
  BY DEF WorkerTypes
<1>2. hand' = [hand EXCEPT ![w] = [hand[w] EXCEPT !.at = step]]
  BY <1>1 DEF HandTo
<1>3. [hand[w] EXCEPT !.at = step] \in HandRec
  BY <1>1 DEF HandRec
<1> QED
  BY <1>1, <1>2, <1>3 DEF HandGoes, HandRec

LEMMA HandWithout ==
    ASSUME WorkerInv, NEW w \in Workers, hand[w].at # "idle",
           NEW step \in {"idle", "lookup", "delete"}, HandGoes(w, step), OnlyHand,
           Free(<<w, "failed">>) \/ (UNCHANGED calls /\ calls[<<w, "failed">>].at = "idle"),
           step = "delete" => Spent,
           step = "idle" /\ queue.state = "failed" => SeenTo
    PROVE  WorkerInv'
<1> DEFINE t == <<w, "failed">>
<1>1. t \in Callers /\ TypeInv /\ WorkerTypes
  BY ThreadCallers, RunParts
<1>2. UNCHANGED <<job, marked, acked, queue, run, audio, erase, crashes, orphaned>>
  BY DEF OnlyHand
<1>3. CallsMoved(t) /\ calls'[t].at = "idle"
  BY <1>1, <1>2, CallFreed, NoCall
<1>4. HandMoved(w)
  BY <1>1, <1>3 DEF HandMoved, HandGoes, Awaited
<1>5. step = "idle" /\ queue.state = "failed" => SeenTo'
  BY <1>2 DEF SeenTo, isFinished
<1>6. audio' \in BOOLEAN
  BY <1>1, <1>2 DEF WorkerTypes
<1>7. hand'[w].at = step
  BY DEF HandGoes
<1> QED
  BY <1>2, <1>4, <1>5, <1>6, <1>7, HandKeeps

LEMMA HandWaits ==
    ASSUME WorkerInv, NEW w \in Workers, hand[w].at # "idle",
           NEW step \in {"finishing", "noting", "releasing"}, HandGoes(w, step), OnlyHand,
           NEW req \in Request, req.op \in HandOps(step),
           calls' = [calls EXCEPT ![<<w, "failed">>] = Call(req)],
           step = "releasing" => req.patch = "audioKept",
           step = "noting" => queue.state # "failed"
    PROVE  WorkerInv'
<1> DEFINE t == <<w, "failed">>
<1>1. t \in Callers /\ TypeInv /\ WorkerTypes
  BY ThreadCallers, RunParts
<1>2. UNCHANGED <<job, marked, acked, queue, run, audio, erase, crashes, orphaned>>
  BY DEF OnlyHand
<1>3. req.op # "remove"
  BY DEF HandOps
<1>4. CallsMoved(t) /\ calls'[t].req = req
  BY <1>1, <1>2, <1>3, CallBegun
<1>5. HandMoved(w)
  BY <1>1, <1>4 DEF HandMoved, HandGoes, Awaited
<1>6. audio' \in BOOLEAN
  BY <1>1, <1>2 DEF WorkerTypes
<1>7. hand'[w].at = step
  BY DEF HandGoes
<1>8. hand'[w].at = "releasing" =>
        calls'[t].req.patch # "attemptNoted" /\ calls'[t].req.patch # "audioReleased"
  BY <1>4, <1>7
<1> QED
  BY <1>2, <1>5, <1>6, <1>7, <1>8, HandKeeps

LEMMA LookupInv ==
    ASSUME WorkerInv, NEW w \in Workers, Lookup(w)
    PROVE  WorkerInv'
<1>1. /\ MayRelease => Spent
      /\ ~MayRelease => SeenTo
  BY RunParts, ReleasedIsSpent
<1>2. CASE /\ run[w].at = "lookup"
           /\ RunTo(w, IF MayRelease THEN "delete" ELSE "return")
           /\ UNCHANGED calls /\ OnlyRun
  <2>1. calls[<<w, "run">>].at = "idle"
    BY <1>2, RunParts, NoCallAt
  <2>2. CASE MayRelease
    <3>1. RunGoes(w, "delete")
      BY <1>2, <2>2, RunParts, RunToGoes DEF RunSteps
    <3> QED
      BY <1>1, <1>2, <2>1, <2>2, <3>1, RunWithout DEF RunSteps
  <2>3. CASE ~MayRelease
    <3>1. RunGoes(w, "return")
      BY <1>2, <2>3, RunParts, RunToGoes DEF RunSteps
    <3> QED
      BY <1>1, <1>2, <2>1, <2>3, <3>1, RunWithout DEF RunSteps
  <2> QED
    BY <2>2, <2>3
<1>3. CASE /\ hand[w].at = "lookup"
           /\ HandTo(w, IF MayRelease THEN "delete" ELSE "idle")
           /\ UNCHANGED calls /\ OnlyHand
  <2>1. calls[<<w, "failed">>].at = "idle"
    BY <1>3, RunParts, NoCallAt
  <2>2. CASE MayRelease
    <3>1. HandGoes(w, "delete")
      BY <1>3, <2>2, RunParts, HandToGoes DEF HandSteps
    <3> QED
      BY <1>1, <1>3, <2>1, <2>2, <3>1, HandWithout
  <2>3. CASE ~MayRelease
    <3>1. HandGoes(w, "idle")
      BY <1>3, <2>3, RunParts, HandToGoes DEF HandSteps
    <3> QED
      BY <1>1, <1>3, <2>1, <2>3, <3>1, HandWithout
  <2> QED
    BY <2>2, <2>3
<1> QED
  BY <1>2, <1>3 DEF Lookup

LEMMA LookupFailsInv ==
    ASSUME WorkerInv, NEW w \in Workers, LookupFails(w)
    PROVE  WorkerInv'
<1> DEFINE req == [op |-> "update", patch |-> "audioKept"]
<1>1. /\ req \in Request /\ req.patch = "audioKept"
      /\ req.op \in RunOps("releasing") /\ req.op \in HandOps("releasing")
  BY Requests DEF RunOps, HandOps
<1>2. CASE /\ run[w].at = "lookup"
           /\ RunTo(w, "releasing") /\ calls' = [calls EXCEPT ![<<w, "run">>] = Call(req)]
           /\ OnlyRun
  <2>1. RunGoes(w, "releasing")
    BY <1>2, RunParts, RunToGoes DEF RunSteps
  <2> HIDE DEF req
  <2> QED
    BY <1>1, <1>2, <2>1, RunWaits DEF RunSteps
<1>3. CASE /\ hand[w].at = "lookup"
           /\ HandTo(w, "releasing") /\ calls' = [calls EXCEPT ![<<w, "failed">>] = Call(req)]
           /\ OnlyHand
  <2>1. HandGoes(w, "releasing")
    BY <1>3, RunParts, HandToGoes DEF HandSteps
  <2> HIDE DEF req
  <2> QED
    BY <1>1, <1>3, <2>1, HandWaits
<1> QED
  BY <1>2, <1>3 DEF LookupFails, Start

LEMMA DeleteInv ==
    ASSUME WorkerInv, NEW w \in Workers, Delete(w)
    PROVE  WorkerInv'
<1>1. WorkerTypes /\ TypeInv /\ RunLeaves(w) /\ HandLeaves(w)
  BY RunParts DEF AudioInv
<1>2. ASSUME NEW t \in Callers, RemoveFile(t), UNCHANGED <<job, marked, acked>>
      PROVE  /\ CallsMoved(t) /\ calls'[t].req.op = "update" /\ audio' \in BOOLEAN
             /\ calls'[t].req.patch # "attemptNoted"
             /\ calls'[t].req.patch = "audioReleased" => ~audio'
  <2>1. PICK x \in {"audioReleased", "audioKept"} :
           /\ calls' = [calls EXCEPT ![t] = Call([op |-> "update", patch |-> x])]
           /\ x = "audioReleased" => audio' = FALSE
           /\ x = "audioKept" => audio' = audio
    BY <1>2 DEF RemoveFile, Start
  <2>2. CallsMoved(t) /\ calls'[t].req = [op |-> "update", patch |-> x]
    BY <1>1, <1>2, <2>1, CallBegun, Requests
  <2>3. calls'[t].req.op = "update" /\ calls'[t].req.patch = x
    BY <2>2
  <2>4. audio' \in BOOLEAN /\ (x = "audioReleased" => ~audio')
    BY <1>1, <2>1 DEF WorkerTypes
  <2> QED
    BY <2>2, <2>3, <2>4
<1>3. CASE /\ run[w].at = "delete"
           /\ RemoveFile(<<w, "run">>) /\ RunTo(w, "releasing") /\ UNCHANGED hand
           /\ UNCHANGED <<job, marked, acked, queue, erase, crashes, orphaned>>
  <2> DEFINE t == <<w, "run">>
  <2>1. /\ CallsMoved(t) /\ calls'[t].req.op = "update" /\ audio' \in BOOLEAN
        /\ calls'[t].req.patch # "attemptNoted"
        /\ calls'[t].req.patch = "audioReleased" => ~audio'
    BY <1>2, <1>3, ThreadCallers
  <2>2. RunGoes(w, "releasing")
    BY <1>1, <1>3, RunToGoes DEF RunSteps
  <2>3. RunMoved(w) /\ run'[w].at = "releasing"
    BY <1>3, <2>1, <2>2 DEF RunMoved, RunGoes, Awaited, RunOps
  <2>4. Spent
    BY <1>1, <1>3 DEF RunLeaves
  <2> QED
    BY <1>3, <2>1, <2>3, <2>4, RunKeeps
<1>4. CASE /\ hand[w].at = "delete"
           /\ RemoveFile(<<w, "failed">>) /\ HandTo(w, "releasing") /\ UNCHANGED run
           /\ UNCHANGED <<job, marked, acked, queue, erase, crashes, orphaned>>
  <2> DEFINE t == <<w, "failed">>
  <2>1. /\ CallsMoved(t) /\ calls'[t].req.op = "update" /\ audio' \in BOOLEAN
        /\ calls'[t].req.patch # "attemptNoted"
        /\ calls'[t].req.patch = "audioReleased" => ~audio'
    BY <1>2, <1>4, ThreadCallers
  <2>2. HandGoes(w, "releasing")
    BY <1>1, <1>4, HandToGoes DEF HandSteps
  <2>3. HandMoved(w) /\ hand'[w].at = "releasing"
    BY <1>4, <2>1, <2>2 DEF HandMoved, HandGoes, Awaited, HandOps
  <2>4. Spent
    BY <1>1, <1>4 DEF HandLeaves
  <2> QED
    BY <1>4, <2>1, <2>3, <2>4, HandKeeps
<1> QED
  BY <1>3, <1>4 DEF Delete

LEMMA ReleasedInv ==
    ASSUME WorkerInv, NEW w \in Workers, Released(w)
    PROVE  WorkerInv'
<1>1. RunLeaves(w) /\ HandLeaves(w)
  BY RunParts DEF AudioInv
<1>2. CASE /\ run[w].at = "releasing" /\ calls[<<w, "run">>].at = "done"
           /\ RunTo(w, "return") /\ Free(<<w, "run">>) /\ OnlyRun
  <2>1. RunGoes(w, "return")
    BY <1>2, RunParts, RunToGoes DEF RunSteps
  <2>2. SeenTo
    BY <1>1, <1>2 DEF RunLeaves, Releasing
  <2> QED
    BY <1>2, <2>1, <2>2, RunWithout DEF RunSteps
<1>3. CASE /\ hand[w].at = "releasing" /\ calls[<<w, "failed">>].at = "done"
           /\ HandTo(w, "idle") /\ Free(<<w, "failed">>) /\ OnlyHand
  <2>1. HandGoes(w, "idle")
    BY <1>3, RunParts, HandToGoes DEF HandSteps
  <2>2. SeenTo
    BY <1>1, <1>3 DEF HandLeaves, Releasing
  <2> QED
    BY <1>3, <2>1, <2>2, HandWithout
<1> QED
  BY <1>2, <1>3 DEF Released

LEMMA HandleFailureInv ==
    ASSUME WorkerInv, NEW w \in Workers, HandleFailure(w)
    PROVE  WorkerInv'
<1> DEFINE t == <<w, "failed">>
<1>1. hand[w].at = "start" /\ OnlyHand /\ HandLeaves(w)
  BY RunParts DEF HandleFailure, AudioInv
<1>2. CASE HandTo(w, "finishing") /\ Start(t, [op |-> "finishFailed"])
  <2>1. HandGoes(w, "finishing")
    BY <1>2, RunParts, HandToGoes DEF HandSteps
  <2>2. [op |-> "finishFailed"].op \in HandOps("finishing")
    BY DEF HandOps
  <2> QED
    BY <1>1, <1>2, <2>1, <2>2, HandWaits, Requests DEF Start
<1>3. CASE /\ ~attemptsExhausted(hand[w])
           /\ HandTo(w, "noting") /\ Start(t, [op |-> "update", patch |-> "attemptNoted"])
  <2> DEFINE req == [op |-> "update", patch |-> "attemptNoted"]
  <2>1. HandGoes(w, "noting")
    BY <1>3, RunParts, HandToGoes DEF HandSteps
  <2>2. req.op \in HandOps("noting") /\ req \in Request
    BY Requests DEF HandOps
  <2>3. queue.state # "failed"
    BY <1>1, <1>3 DEF HandLeaves
  <2>4. calls' = [calls EXCEPT ![t] = Call(req)]
    BY <1>3 DEF Start
  <2> HIDE DEF req
  <2> QED
    BY <1>1, <2>1, <2>2, <2>3, <2>4, HandWaits
<1> QED
  BY <1>2, <1>3 DEF HandleFailure

LEMMA FailureFinishedInv ==
    ASSUME WorkerInv, NEW w \in Workers, FailureFinished(w)
    PROVE  WorkerInv'
<1> DEFINE t == <<w, "failed">>
<1>1. /\ hand[w].at = "finishing" /\ calls[t].at = "done" /\ Free(t) /\ OnlyHand
      /\ \/ HandTo(w, "lookup")
         \/ calls[t].reply \notin {"ok", "null"} /\ HandTo(w, "idle")
  BY DEF FailureFinished
<1>2. CASE HandTo(w, "lookup")
  <2>1. HandGoes(w, "lookup")
    BY <1>2, RunParts, HandToGoes DEF HandSteps
  <2> QED
    BY <1>1, <2>1, HandWithout
<1>3. CASE calls[t].reply \notin {"ok", "null"} /\ HandTo(w, "idle")
  <2>1. HandGoes(w, "idle")
    BY <1>3, RunParts, HandToGoes DEF HandSteps
  <2>2. SeenTo
    BY <1>1, <1>3, RunParts DEF AudioInv, HandLeaves
  <2> QED
    BY <1>1, <2>1, <2>2, HandWithout
<1> QED
  BY <1>1, <1>2, <1>3

LEMMA FailureNotedInv ==
    ASSUME WorkerInv, NEW w \in Workers, FailureNoted(w)
    PROVE  WorkerInv'
<1>1. hand[w].at = "noting" /\ HandTo(w, "idle") /\ Free(<<w, "failed">>) /\ OnlyHand
  BY DEF FailureNoted
<1>2. HandGoes(w, "idle")
  BY <1>1, RunParts, HandToGoes DEF HandSteps
<1>3. queue.state # "failed"
  BY <1>1, RunParts DEF AudioInv, HandLeaves
<1> QED
  BY <1>1, <1>2, <1>3, HandWithout

-----------------------------------------------------------------------------
(* BullMQ, the progress reports, a crash.                                  *)

LEMMA CallsStay ==
    ASSUME CallsAwaited, UNCHANGED calls, NEW w \in Workers,
           run'[w] = run[w] \/ calls[<<w, "run">>].at = "idle",
           hand'[w] = hand[w] \/ calls[<<w, "failed">>].at = "idle"
    PROVE  /\ Awaited(calls'[<<w, "run">>], RunOps(run'[w].at))
           /\ Awaited(calls'[<<w, "failed">>], HandOps(hand'[w].at))
           /\ Awaited(calls'[<<w, "progress">>], {"reportProgress"})
<1>1. /\ Awaited(calls[<<w, "run">>], RunOps(run[w].at))
      /\ Awaited(calls[<<w, "failed">>], HandOps(hand[w].at))
      /\ Awaited(calls[<<w, "progress">>], {"reportProgress"})
  BY DEF CallsAwaited
<1> QED
  BY <1>1 DEF Awaited

(* A step that only changes whose turn it is: what the workers, their      *)
(* handlers and BullMQ's record say has to hold of the new turn.           *)
LEMMA TurnKeeps ==
    ASSUME WorkerInv, UNCHANGED <<job, marked, calls, acked>>, UNCHANGED <<audio, erase, crashes, orphaned>>,
           queue' \in QueueRec, run' \in [Workers -> RunRec], hand' \in [Workers -> HandRec],
           (queue.state \in {"waiting", "active"} => queue.made < MaxAttempts)',
           RunsLocked', HandsAlone', queue'.state # "removed",
           \A w \in Workers : run'[w] = run[w] \/ calls[<<w, "run">>].at = "idle",
           \A w \in Workers : hand'[w] = hand[w] \/ calls[<<w, "failed">>].at = "idle",
           \A w \in Workers : RunLeaves(w)' /\ HandLeaves(w)',
           QueueLeaves'
    PROVE  WorkerInv'
<1>1. ControlInv /\ WorkerTypes /\ PromiseInv /\ AudioInv /\ TypeInv
  BY RunParts
<1>2. WorkerTypes'
  BY <1>1, StoreSame DEF WorkerTypes
<1>3. CallsAwaited'
  <2>1. ASSUME NEW w \in Workers
        PROVE  /\ Awaited(calls'[<<w, "run">>], RunOps(run'[w].at))
               /\ Awaited(calls'[<<w, "failed">>], HandOps(hand'[w].at))
               /\ Awaited(calls'[<<w, "progress">>], {"reportProgress"})
    BY <1>1, CallsStay DEF ControlInv
  <2> QED
    BY <2>1 DEF CallsAwaited, Awaited
<1>4. EraseMarked'
  BY <1>1 DEF ControlInv, EraseMarked
<1>5. PromiseInv'
  BY <1>1, PromisesSame
<1>6. AudioInv'
  <2>1. ~audio' => Spent'
    BY <1>1 DEF AudioInv, Spent, isFinished
  <2> QED
    BY <2>1 DEF AudioInv
<1> QED
  BY <1>2, <1>3, <1>4, <1>5, <1>6 DEF WorkerInv, ControlInv

LEMMA SeenToSame ==
    ASSUME UNCHANGED <<job, marked, calls, audio>>
    PROVE  /\ SeenTo' <=> SeenTo
           /\ Spent' <=> Spent
BY DEF SeenTo, Spent, isFinished

LEMMA TakeInv ==
    ASSUME OneAtATime, WorkerInv, NEW w \in Workers, Take(w)
    PROVE  WorkerInv'
<1>1. /\ queue.state = "waiting" /\ run[w].at = "idle"
      /\ \A v \in Workers : hand[v].at = "idle"
      /\ queue' = [queue EXCEPT !.state = "active", !.owner = w]
      /\ RunTo(w, "enter")
      /\ UNCHANGED <<job, marked, calls, acked, hand, audio, erase, crashes, orphaned>>
  BY DEF Take, OneAtATime
<1>2. ControlInv /\ WorkerTypes /\ AudioInv
  BY RunParts
<1>3. \A v \in Workers : run[v].at = "idle"
  BY <1>1, <1>2 DEF ControlInv, RunsLocked, Locked
<1>4. RunGoes(w, "enter")
  BY <1>1, <1>2, RunToGoes DEF RunSteps
<1>5. /\ queue'.state = "active" /\ queue'.owner = w /\ queue'.made = queue.made /\ queue' \in QueueRec
  BY <1>1, <1>2 DEF WorkerTypes, QueueRec
<1>6. run' \in [Workers -> RunRec] /\ hand' \in [Workers -> HandRec]
  BY <1>1, <1>2, <1>4 DEF RunGoes, WorkerTypes
<1>7. (queue.state \in {"waiting", "active"} => queue.made < MaxAttempts)'
  BY <1>1, <1>2, <1>5 DEF WorkerTypes
<1>8. RunsLocked' /\ HandsAlone'
  BY <1>1, <1>3, <1>4, <1>5 DEF RunsLocked, HandsAlone, Locked, RunGoes
<1>9. ASSUME NEW v \in Workers
      PROVE  /\ run'[v] = run[v] \/ calls[<<v, "run">>].at = "idle"
             /\ hand'[v] = hand[v]
             /\ RunLeaves(v)' /\ HandLeaves(v)'
  <2>1. calls[<<v, "run">>].at = "idle"
    BY <1>2, <1>3, NoCallAt
  <2>2. run'[v].at \in {"idle", "enter"}
    BY <1>3, <1>4 DEF RunGoes
  <2> QED
    BY <1>1, <2>1, <2>2 DEF RunLeaves, HandLeaves
<1>10. QueueLeaves'
  BY <1>5 DEF QueueLeaves
<1> QED
  BY <1>1, <1>5, <1>6, <1>7, <1>8, <1>9, <1>10, TurnKeeps

LEMMA ReturnInv ==
    ASSUME WorkerInv, NEW w \in Workers, Return(w)
    PROVE  WorkerInv'
<1>1. /\ run[w].at = "return"
      /\ run' = [run EXCEPT ![w] = RunIdle]
      /\ UNCHANGED <<job, marked, calls, acked, hand, audio, erase, crashes, orphaned>>
  BY DEF Return
<1>2. ControlInv /\ WorkerTypes /\ AudioInv
  BY RunParts
<1>3. /\ Locked(w) /\ queue.state = "active"
      /\ \A v \in Workers : hand[v].at = "idle"
      /\ \A v \in Workers : v # w => run[v].at = "idle"
  BY <1>1, <1>2 DEF ControlInv, RunsLocked, HandsAlone, Locked
<1>4. queue' = [queue EXCEPT !.state = "completed", !.owner = NoWorker]
  BY <1>3 DEF Return
<1>5. queue'.state = "completed" /\ queue' \in QueueRec
  BY <1>2, <1>4 DEF WorkerTypes, QueueRec
<1>6. RunIdle \in RunRec /\ RunIdle.at = "idle"
  BY DEF RunIdle, RunRec, RunSteps
<1>7. run' \in [Workers -> RunRec] /\ hand' \in [Workers -> HandRec] /\ \A v \in Workers : run'[v].at = "idle"
  BY <1>1, <1>2, <1>3, <1>6 DEF WorkerTypes
<1>8. SeenTo'
  <2>1. SeenTo
    BY <1>1, <1>2 DEF AudioInv, RunLeaves
  <2> QED
    BY <1>1, <2>1, SeenToSame
<1>9. RunsLocked' /\ HandsAlone' /\ QueueLeaves'
  BY <1>1, <1>3, <1>5, <1>7, <1>8 DEF RunsLocked, HandsAlone, QueueLeaves
<1>10. ASSUME NEW v \in Workers
      PROVE  /\ run'[v] = run[v] \/ calls[<<v, "run">>].at = "idle"
             /\ hand'[v] = hand[v]
             /\ RunLeaves(v)' /\ HandLeaves(v)'
  <2>1. calls[<<v, "run">>].at = "idle"
    BY <1>1, <1>2, <1>3, NoCallAt
  <2> QED
    BY <1>1, <1>3, <1>7, <2>1 DEF RunLeaves, HandLeaves
<1> QED
  BY <1>1, <1>5, <1>7, <1>9, <1>10, TurnKeeps

LEMMA FailInv ==
    ASSUME WorkerInv, NEW w \in Workers, Fail(w)
    PROVE  WorkerInv'
<1> DEFINE fatal == run[w].why = "fatal"
           last == LastAttempt
           h == [at |-> "start", fatal |-> fatal, last |-> last]
           state == IF fatal \/ last THEN "failed" ELSE "waiting"
<1>1. /\ run[w].at = "throw"
      /\ run' = [run EXCEPT ![w] = RunIdle]
      /\ UNCHANGED <<job, marked, calls, acked, audio, erase, crashes, orphaned>>
  BY DEF Fail
<1>2. ControlInv /\ WorkerTypes /\ AudioInv
  BY RunParts
<1>3. /\ Locked(w) /\ queue.state = "active"
      /\ \A v \in Workers : hand[v].at = "idle"
      /\ \A v \in Workers : v # w => run[v].at = "idle"
  BY <1>1, <1>2 DEF ControlInv, RunsLocked, HandsAlone, Locked
<1>4. /\ queue' = [queue EXCEPT !.state = state, !.owner = NoWorker, !.made = queue.made + 1]
      /\ hand' = [hand EXCEPT ![w] = h]
  BY <1>3 DEF Fail
<1>5. /\ h \in HandRec /\ h.at = "start" /\ h.fatal = fatal /\ h.last = last
  BY DEF HandRec, HandSteps, LastAttempt
<1>6. attemptsExhausted(h) = (fatal \/ last)
  BY <1>5 DEF attemptsExhausted
<1>7. /\ queue.made \in Nat /\ MaxAttempts \in Nat /\ queue.made < MaxAttempts
      /\ queue.made + 1 \in 0 .. MaxAttempts
      /\ ~last => queue.made + 1 < MaxAttempts
  BY <1>2, <1>3, WorkerConstants DEF WorkerTypes, QueueRec, LastAttempt
<1>8. state \in {"failed", "waiting"} /\ (state = "failed" <=> (fatal \/ last))
  OBVIOUS
<1> HIDE DEF h, state, last, fatal
<1>9. /\ queue' \in QueueRec /\ queue'.state = state /\ queue'.made = queue.made + 1
  BY <1>2, <1>4, <1>7, <1>8 DEF WorkerTypes, QueueRec
<1>10. RunIdle \in RunRec /\ RunIdle.at = "idle"
  BY DEF RunIdle, RunRec, RunSteps
<1>11. /\ run' \in [Workers -> RunRec] /\ \A v \in Workers : run'[v].at = "idle"
       /\ hand' \in [Workers -> HandRec] /\ hand'[w] = h
       /\ \A v \in Workers : v # w => hand'[v] = hand[v]
  BY <1>1, <1>2, <1>3, <1>4, <1>5, <1>10 DEF WorkerTypes
<1>12. (queue.state \in {"waiting", "active"} => queue.made < MaxAttempts)'
  BY <1>7, <1>8, <1>9
<1>13. RunsLocked' /\ HandsAlone' /\ QueueLeaves'
  BY <1>3, <1>5, <1>8, <1>9, <1>11 DEF RunsLocked, HandsAlone, QueueLeaves
<1>14. ASSUME NEW v \in Workers
       PROVE  /\ run'[v] = run[v] \/ calls[<<v, "run">>].at = "idle"
              /\ hand'[v] = hand[v] \/ calls[<<v, "failed">>].at = "idle"
              /\ RunLeaves(v)' /\ HandLeaves(v)'
  <2>1. calls[<<v, "run">>].at = "idle" /\ calls[<<v, "failed">>].at = "idle"
    BY <1>1, <1>2, <1>3, NoCallAt
  <2>2. RunLeaves(v)'
    BY <1>11 DEF RunLeaves
  <2>3. HandLeaves(v)'
    <3>1. CASE v # w
      BY <1>3, <1>11, <3>1 DEF HandLeaves
    <3>2. CASE v = w
      <4>1. hand'[v] = h /\ h.at = "start" /\ (~attemptsExhausted(h) => queue'.state # "failed")
        BY <1>5, <1>6, <1>8, <1>9, <1>11, <3>2
      <4> QED
        BY <4>1 DEF HandLeaves, attemptsExhausted
    <3> QED
      BY <3>1, <3>2
  <2> QED
    BY <2>1, <2>2, <2>3
<1> QED
  BY <1>1, <1>8, <1>9, <1>11, <1>12, <1>13, <1>14, TurnKeeps

LEMMA StallInv ==
    ASSUME OneAtATime, WorkerInv, Stall
    PROVE  WorkerInv'
<1>1. /\ queue.state = "active" /\ run[queue.owner].at = "idle"
      /\ UNCHANGED <<job, marked, calls, acked, run, audio, erase, crashes, orphaned>>
  BY DEF Stall, OneAtATime
<1>2. ControlInv /\ WorkerTypes /\ AudioInv
  BY RunParts
<1>3. /\ \A v \in Workers : run[v].at = "idle"
      /\ \A v \in Workers : hand[v].at = "idle"
  BY <1>1, <1>2 DEF ControlInv, RunsLocked, HandsAlone, Locked
<1>4. queue.made < MaxAttempts /\ queue \in QueueRec /\ MaxStalls \in Nat
  BY <1>1, <1>2, WorkerConstants DEF WorkerTypes
<1>5. \A v \in Workers : calls[<<v, "run">>].at = "idle" /\ calls[<<v, "failed">>].at = "idle"
  BY <1>2, <1>3, NoCallAt
<1>6. run' \in [Workers -> RunRec] /\ \A v \in Workers : RunLeaves(v)'
  BY <1>1, <1>2, <1>3 DEF WorkerTypes, RunLeaves
<1>7. CASE /\ queue.stalls < MaxStalls
           /\ queue' = [queue EXCEPT !.state = "waiting", !.owner = NoWorker, !.stalls = queue.stalls + 1]
           /\ UNCHANGED hand
  <2>1. queue' \in QueueRec /\ queue'.state = "waiting" /\ queue'.made = queue.made
    <3>1. queue.stalls \in 0 .. MaxStalls
      BY <1>4 DEF QueueRec
    <3>2. queue.stalls + 1 \in 0 .. MaxStalls
      BY <1>4, <1>7, <3>1
    <3> QED
      BY <1>4, <1>7, <3>2 DEF QueueRec
  <2>2. hand' \in [Workers -> HandRec] /\ \A v \in Workers : HandLeaves(v)'
    BY <1>2, <1>3, <1>7 DEF WorkerTypes, HandLeaves
  <2>3. RunsLocked' /\ HandsAlone' /\ QueueLeaves'
    BY <1>1, <1>3, <1>7, <2>1 DEF RunsLocked, HandsAlone, QueueLeaves
  <2> QED
    BY <1>1, <1>4, <1>5, <1>6, <1>7, <2>1, <2>2, <2>3, TurnKeeps
<1>8. ASSUME NEW w \in Workers,
             queue' = [queue EXCEPT !.state = "failed", !.owner = NoWorker],
             hand' = [hand EXCEPT ![w] = [at |-> "start", fatal |-> TRUE, last |-> FALSE]]
      PROVE  WorkerInv'
  <2> DEFINE h == [at |-> "start", fatal |-> TRUE, last |-> FALSE]
  <2>1. queue' \in QueueRec /\ queue'.state = "failed"
    BY <1>4, <1>8 DEF QueueRec
  <2>2. h \in HandRec /\ h.at = "start" /\ h.fatal
    BY DEF HandRec, HandSteps
  <2> HIDE DEF h
  <2>3. /\ hand' \in [Workers -> HandRec] /\ hand'[w] = h
        /\ \A v \in Workers : v # w => hand'[v].at = "idle"
    BY <1>2, <1>3, <1>8, <2>2 DEF WorkerTypes, h
  <2>4. \A v \in Workers : HandLeaves(v)'
    <3>1. SUFFICES ASSUME NEW v \in Workers PROVE HandLeaves(v)'
      OBVIOUS
    <3>2. hand'[v].at = "idle" \/ (hand'[v].at = "start" /\ hand'[v].fatal)
      BY <2>2, <2>3
    <3> QED
      BY <3>2 DEF HandLeaves, attemptsExhausted
  <2>5. RunsLocked' /\ HandsAlone' /\ QueueLeaves'
    BY <1>1, <1>3, <2>1, <2>2, <2>3 DEF RunsLocked, HandsAlone, QueueLeaves
  <2> QED
    BY <1>1, <1>5, <1>6, <2>1, <2>3, <2>4, <2>5, TurnKeeps
<1> QED
  BY <1>7, <1>8 DEF Stall

(* A progress report only moves its own call.                              *)
LEMMA ProgressKeeps ==
    ASSUME WorkerInv, NEW w \in Workers, CallsMoved(<<w, "progress">>),
           Awaited(calls'[<<w, "progress">>], {"reportProgress"}),
           UNCHANGED run, OnlyRun
    PROVE  WorkerInv'
<1> DEFINE t == <<w, "progress">>
<1>1. /\ t \in Callers /\ ControlInv /\ WorkerTypes /\ PromiseInv /\ AudioInv
      /\ UNCHANGED <<job, marked, acked, queue, run, hand, audio, erase, crashes, orphaned>>
  BY RunParts, ThreadCallers DEF OnlyRun
<1>2. ASSUME NEW v \in Workers
      PROVE  /\ calls'[<<v, "run">>] = calls[<<v, "run">>]
             /\ calls'[<<v, "failed">>] = calls[<<v, "failed">>]
             /\ v # w => calls'[<<v, "progress">>] = calls[<<v, "progress">>]
  BY ThreadCallers DEF CallsMoved
<1>3. WorkerTypes'
  BY <1>1 DEF WorkerTypes, CallsMoved
<1>4. RunsLocked' /\ HandsAlone' /\ EraseMarked'
  BY <1>1 DEF ControlInv, RunsLocked, HandsAlone, EraseMarked, Locked
<1>5. CallsAwaited'
  <2>1. ASSUME NEW v \in Workers
        PROVE  /\ Awaited(calls'[<<v, "run">>], RunOps(run'[v].at))
               /\ Awaited(calls'[<<v, "failed">>], HandOps(hand'[v].at))
               /\ Awaited(calls'[<<v, "progress">>], {"reportProgress"})
    <3>1. /\ Awaited(calls[<<v, "run">>], RunOps(run[v].at))
          /\ Awaited(calls[<<v, "failed">>], HandOps(hand[v].at))
          /\ Awaited(calls[<<v, "progress">>], {"reportProgress"})
      BY <1>1 DEF ControlInv, CallsAwaited
    <3>2. CASE v = w
      BY <1>1, <1>2, <3>1, <3>2
    <3>3. CASE v # w
      BY <1>1, <1>2, <3>1, <3>3
    <3> QED
      BY <3>2, <3>3
  <2> QED
    BY <2>1 DEF CallsAwaited, Awaited
<1>6. PromiseInv'
  BY <1>1, PromisesMoved
<1>7. AudioInv'
  <2>1. (SeenTo <=> SeenTo') /\ (Spent <=> Spent')
    BY <1>1 DEF SeenTo, Spent, isFinished
  <2>2. ASSUME NEW v \in Workers PROVE RunLeaves(v)' /\ HandLeaves(v)'
    <3>1. RunLeaves(v) /\ HandLeaves(v)
      BY <1>1 DEF AudioInv
    <3>2. RunLeaves(v)'
      BY <1>1, <1>2, <2>1, <3>1 DEF RunLeaves, Releasing
    <3>3. HandLeaves(v)'
      BY <1>1, <1>2, <2>1, <3>1 DEF HandLeaves, Releasing, attemptsExhausted
    <3> QED
      BY <3>2, <3>3
  <2>3. QueueLeaves' /\ (~audio' => Spent')
    BY <1>1, <2>1 DEF AudioInv, QueueLeaves
  <2> QED
    BY <2>2, <2>3 DEF AudioInv
<1> QED
  BY <1>3, <1>4, <1>5, <1>6, <1>7 DEF WorkerInv, ControlInv

LEMMA ReportInv ==
    ASSUME WorkerInv, NEW w \in Workers, Report(w) \/ Reported(w)
    PROVE  WorkerInv'
<1> DEFINE t == <<w, "progress">>
<1>1. t \in Callers /\ TypeInv
  BY ThreadCallers, RunParts
<1>2. CASE Report(w)
  <2>1. PICK n \in Progress :
          Start(t, [op |-> "reportProgress", phase |-> "transcribing", current |-> n])
    BY <1>2 DEF Report
  <2> DEFINE req == [op |-> "reportProgress", phase |-> "transcribing", current |-> n]
  <2>2. req \in Request /\ req.op = "reportProgress"
    BY Requests DEF Phases
  <2>3. calls' = [calls EXCEPT ![t] = Call(req)] /\ UNCHANGED run /\ OnlyRun
    BY <1>2, <2>1 DEF Report, Start
  <2> HIDE DEF req
  <2>4. CallsMoved(t) /\ calls'[t].req = req
    BY <1>1, <2>2, <2>3, CallBegun DEF OnlyRun
  <2> QED
    BY <2>2, <2>3, <2>4, ProgressKeeps DEF Awaited
<1>3. CASE Reported(w)
  <2>1. Free(t) /\ UNCHANGED run /\ OnlyRun
    BY <1>3 DEF Reported
  <2>2. CallsMoved(t) /\ calls'[t].at = "idle"
    BY <1>1, <2>1, CallFreed DEF OnlyRun
  <2> QED
    BY <2>1, <2>2, ProgressKeeps DEF Awaited
<1> QED
  BY <1>2, <1>3

LEMMA CrashInv ==
    ASSUME WorkerInv, NEW w \in Workers, Crash(w)
    PROVE  WorkerInv'
<1>1. /\ crashes < MaxCrashes /\ crashes' = crashes + 1
      /\ orphaned' = (orphaned \/ hand[w].at # "idle")
      /\ run' = [run EXCEPT ![w] = RunIdle]
      /\ hand' = [hand EXCEPT ![w] = HandIdle]
      /\ calls' = [t \in Threads |-> IF t[1] = w THEN Idle ELSE calls[t]]
      /\ UNCHANGED <<job, marked, acked, queue, audio, erase>>
  BY DEF Crash
<1>2. ControlInv /\ WorkerTypes /\ PromiseInv /\ AudioInv /\ TypeInv
  BY RunParts
<1>3. /\ RunIdle \in RunRec /\ RunIdle.at = "idle" /\ HandIdle \in HandRec /\ HandIdle.at = "idle"
      /\ Idle \in Call0 /\ Idle.at = "idle" /\ Shape(Idle)
  BY DEF RunIdle, RunRec, RunSteps, HandIdle, HandRec, HandSteps, Idle, Call0, Steps, Replies, Shape
<1>4. /\ run' \in [Workers -> RunRec] /\ run'[w].at = "idle"
      /\ hand' \in [Workers -> HandRec] /\ hand'[w].at = "idle"
      /\ \A v \in Workers : v # w => run'[v] = run[v] /\ hand'[v] = hand[v]
  BY <1>1, <1>2, <1>3 DEF WorkerTypes
<1>5. ASSUME NEW v \in Workers, NEW k \in {"run", "failed", "progress"}
      PROVE  calls'[<<v, k>>] = IF v = w THEN Idle ELSE calls[<<v, k>>]
  BY <1>1, WorkerConstants DEF Threads
<1>6. TypeInv'
  <2>1. calls' \in [Callers -> Call0]
    BY <1>1, <1>2, <1>3, CallsType, WorkerConstants
  <2>2. \A t \in Callers : Shape(calls'[t])
    BY <1>1, <1>2, <1>3, WorkerConstants DEF TypeInv
  <2>3. TypeOK'
    BY <1>1, <1>2, <2>1 DEF TypeInv, TypeOK, Call0
  <2> QED
    BY <2>2, <2>3 DEF TypeInv, Shape, Conditional
<1>7. WorkerTypes'
  <2>1. crashes' \in 0 .. MaxCrashes /\ orphaned' \in BOOLEAN
    BY <1>1, <1>2, WorkerConstants DEF WorkerTypes
  <2> QED
    BY <1>1, <1>2, <1>4, <1>6, <2>1 DEF WorkerTypes
<1>8. RunsLocked' /\ HandsAlone' /\ EraseMarked'
  BY <1>1, <1>2, <1>4 DEF ControlInv, RunsLocked, HandsAlone, EraseMarked, Locked
<1>9. CallsAwaited'
  <2>1. ASSUME NEW v \in Workers
        PROVE  /\ Awaited(calls'[<<v, "run">>], RunOps(run'[v].at))
               /\ Awaited(calls'[<<v, "failed">>], HandOps(hand'[v].at))
               /\ Awaited(calls'[<<v, "progress">>], {"reportProgress"})
    <3>1. /\ Awaited(calls[<<v, "run">>], RunOps(run[v].at))
          /\ Awaited(calls[<<v, "failed">>], HandOps(hand[v].at))
          /\ Awaited(calls[<<v, "progress">>], {"reportProgress"})
      BY <1>2 DEF ControlInv, CallsAwaited
    <3>2. CASE v = w
      BY <1>3, <1>5, <3>2 DEF Awaited
    <3>3. CASE v # w
      BY <1>4, <1>5, <3>1, <3>3
    <3> QED
      BY <3>2, <3>3
  <2> QED
    BY <2>1 DEF CallsAwaited, Awaited
<1>10. PromiseInv'
  <2>1. ASSUME NEW v \in Workers, NEW k \in {"run", "failed"} PROVE ReadHolds(calls[<<v, k>>])'
    <3>1. ReadHolds(calls[<<v, k>>])
      BY <1>2 DEF PromiseInv
    <3>2. CASE v = w
      <4>1. calls'[<<v, k>>].at = "idle"
        BY <1>3, <1>5, <3>2
      <4> QED
        BY <4>1 DEF ReadHolds
    <3>3. CASE v # w
      <4>1. calls'[<<v, k>>] = calls[<<v, k>>]
        BY <1>5, <3>3
      <4> QED
        BY <1>1, <3>1, <4>1 DEF ReadHolds, Promised, Agrees
    <3> QED
      BY <3>2, <3>3
  <2>2. (job # NoJob => Promised(job))'
    BY <1>1, <1>2 DEF PromiseInv, Promised
  <2> QED
    BY <2>1, <2>2 DEF PromiseInv
<1>11. AudioInv'
  <2>1. (SeenTo <=> SeenTo') /\ (Spent <=> Spent')
    BY <1>1 DEF SeenTo, Spent, isFinished
  <2>2. ASSUME NEW v \in Workers PROVE RunLeaves(v)' /\ HandLeaves(v)'
    <3>1. RunLeaves(v) /\ HandLeaves(v)
      BY <1>2 DEF AudioInv
    <3>2. CASE v = w
      BY <1>4, <3>2 DEF RunLeaves, HandLeaves
    <3>3. CASE v # w
      <4>1. /\ calls'[<<v, "run">>] = calls[<<v, "run">>]
            /\ calls'[<<v, "failed">>] = calls[<<v, "failed">>]
            /\ run'[v] = run[v] /\ hand'[v] = hand[v]
        BY <1>4, <1>5, <3>3
      <4>2. RunLeaves(v)'
        BY <1>1, <2>1, <3>1, <4>1 DEF RunLeaves, Releasing
      <4>3. HandLeaves(v)'
        BY <1>1, <2>1, <3>1, <4>1 DEF HandLeaves, Releasing, attemptsExhausted
      <4> QED
        BY <4>2, <4>3
    <3> QED
      BY <3>2, <3>3
  <2>3. QueueLeaves'
    <3>1. ~orphaned' /\ (\A v \in Workers : hand'[v].at = "idle") =>
             ~orphaned /\ \A v \in Workers : hand[v].at = "idle"
      BY <1>1, <1>4
    <3> QED
      BY <1>1, <1>2, <2>1, <3>1 DEF AudioInv, QueueLeaves
  <2>4. ~audio' => Spent'
    BY <1>1, <1>2, <2>1 DEF AudioInv
  <2> QED
    BY <2>2, <2>3, <2>4 DEF AudioInv
<1> QED
  BY <1>7, <1>8, <1>9, <1>10, <1>11 DEF WorkerInv, ControlInv

-----------------------------------------------------------------------------
(* The erasure: once the mark is up nothing is owed.                       *)

LEMMA EraseKeeps ==
    ASSUME WorkerInv, TypeInv', marked', UNCHANGED <<calls, acked, run, hand>>,
           UNCHANGED <<crashes, orphaned>>,
           job' \in {job, NoJob}, audio' \in {audio, FALSE}, erase' \in EraseSteps,
           \/ queue' = queue
           \/ queue.state # "active" /\ queue' = [queue EXCEPT !.state = "removed"]
    PROVE  WorkerInv'
<1>1. ControlInv /\ WorkerTypes /\ PromiseInv /\ AudioInv
  BY RunParts
<1>2. WorkerTypes'
  <2>1. /\ queue' \in QueueRec /\ queue'.made = queue.made
        /\ queue'.state \in {queue.state, "removed"}
    BY <1>1 DEF WorkerTypes, QueueRec
  <2>2. audio' \in BOOLEAN
    BY <1>1 DEF WorkerTypes
  <2> QED
    BY <1>1, <2>1, <2>2 DEF WorkerTypes
<1>3. queue'.state = "active" \/ queue'.state = "completed" => queue' = queue
  BY <1>1 DEF WorkerTypes, QueueRec
<1>4. queue'.state \in {queue.state, "removed"}
  BY <1>1 DEF WorkerTypes, QueueRec
<1>5. RunsLocked' /\ HandsAlone' /\ EraseMarked'
  BY <1>1, <1>3 DEF ControlInv, RunsLocked, HandsAlone, EraseMarked, Locked
<1>6. CallsAwaited'
  BY <1>1 DEF ControlInv, CallsAwaited, Awaited
<1>7. PromiseInv'
  <2>1. ASSUME NEW w \in Workers
        PROVE  ReadHolds(calls[<<w, "run">>])' /\ ReadHolds(calls[<<w, "failed">>])'
    <3>1. ReadHolds(calls[<<w, "run">>]) /\ ReadHolds(calls[<<w, "failed">>])
      BY <1>1 DEF PromiseInv
    <3> QED
      BY <3>1 DEF ReadHolds, Promised, Agrees
  <2>2. (job # NoJob => Promised(job))'
    BY <1>1 DEF PromiseInv, Promised
  <2> QED
    BY <2>1, <2>2 DEF PromiseInv
<1>8. AudioInv'
  <2>1. SeenTo' /\ Spent'
    BY DEF SeenTo, Spent
  <2>2. ASSUME NEW v \in Workers PROVE RunLeaves(v)' /\ HandLeaves(v)'
    <3>1. RunLeaves(v) /\ HandLeaves(v)
      BY <1>1 DEF AudioInv
    <3>2. ~audio => ~audio'
      BY <1>1 DEF WorkerTypes
    <3>3. RunLeaves(v)'
      BY <2>1, <3>1, <3>2 DEF RunLeaves, Releasing
    <3>4. HandLeaves(v)'
      BY <1>4, <2>1, <3>1, <3>2 DEF HandLeaves, Releasing, attemptsExhausted
    <3> QED
      BY <3>3, <3>4
  <2> QED
    BY <2>1, <2>2 DEF AudioInv, QueueLeaves
<1> QED
  BY <1>2, <1>5, <1>6, <1>7, <1>8 DEF WorkerInv, ControlInv

LEMMA EraseInv ==
    ASSUME WorkerInv, EraseMark \/ EraseQueue \/ EraseAudio \/ EraseRecord
    PROVE  WorkerInv'
<1>1. ControlInv /\ WorkerTypes /\ TypeInv
  BY RunParts
<1>2. erase # "idle" => marked
  BY <1>1 DEF ControlInv, EraseMarked
<1>3. CASE EraseMark
  <2>1. /\ marked' /\ erase' = "queue"
        /\ UNCHANGED <<job, calls, acked, queue, run, hand, audio, crashes, orphaned>>
    BY <1>3 DEF EraseMark, MarkDeleted
  <2>2. TypeInv'
    BY <1>1, <2>1 DEF TypeInv, TypeOK, Shape
  <2> QED
    BY <2>1, <2>2, EraseKeeps DEF EraseSteps
<1>4. CASE EraseQueue
  <2>1. /\ marked' /\ erase' \in EraseSteps
        /\ UNCHANGED <<job, marked, calls, acked, run, hand, audio, crashes, orphaned>>
        /\ \/ queue' = queue
           \/ queue.state # "active" /\ queue' = [queue EXCEPT !.state = "removed"]
    BY <1>2, <1>4 DEF EraseQueue, EraseSteps
  <2>2. TypeInv'
    BY <1>1, <2>1, StoreSame
  <2> QED
    BY <2>1, <2>2, EraseKeeps
<1>5. CASE EraseAudio
  <2>1. /\ marked' /\ audio' = FALSE
        /\ UNCHANGED <<job, marked, calls, acked, queue, run, hand, erase, crashes, orphaned>>
    BY <1>2, <1>5 DEF EraseAudio
  <2>2. TypeInv' /\ erase' \in EraseSteps
    BY <1>1, <2>1, StoreSame DEF WorkerTypes
  <2> QED
    BY <2>1, <2>2, EraseKeeps
<1>6. CASE EraseRecord
  <2>1. /\ marked' /\ erase' \in EraseSteps /\ job' \in {job, NoJob}
        /\ UNCHANGED <<marked, calls, acked, queue, run, hand, audio, crashes, orphaned>>
    BY <1>2, <1>6 DEF EraseRecord, EraseSteps
  <2>2. TypeInv'
    BY <1>1, <2>1 DEF TypeInv, TypeOK, Shape
  <2> QED
    BY <2>1, <2>2, EraseKeeps
<1> QED
  BY <1>3, <1>4, <1>5, <1>6

-----------------------------------------------------------------------------
(* Together.                                                               *)

LEMMA WorkerInit == WInit => WorkerInv
<1> SUFFICES ASSUME WInit PROVE WorkerInv
  OBVIOUS
<1>1. /\ job = newJob(JobType) /\ marked = FALSE /\ acked = {}
      /\ calls = [c \in Callers |-> Idle]
      /\ queue = [state |-> "waiting", owner |-> NoWorker, made |-> 0, stalls |-> 0]
      /\ run = [w \in Workers |-> RunIdle] /\ hand = [w \in Workers |-> HandIdle]
      /\ audio = TRUE /\ erase = "idle" /\ crashes = 0 /\ orphaned = FALSE
  BY DEF WInit, Init
<1>2. TypeInv
  <2>1. Idle \in Call0 /\ Shape(Idle)
    BY DEF Idle, Call0, Shape, Steps, Replies
  <2>2. calls \in [Callers -> Call0] /\ \A c \in Callers : Shape(calls[c])
    BY <1>1, <2>1
  <2>3. job \in Job /\ marked \in BOOLEAN /\ acked \subseteq Results
    BY <1>1, NewRecord
  <2> QED
    BY <2>2, <2>3 DEF TypeInv, TypeOK, Call0
<1>3. /\ RunIdle \in RunRec /\ RunIdle.at = "idle" /\ HandIdle \in HandRec /\ HandIdle.at = "idle"
  BY DEF RunIdle, RunRec, RunSteps, HandIdle, HandRec, HandSteps
<1>4. /\ run \in [Workers -> RunRec] /\ hand \in [Workers -> HandRec]
      /\ \A w \in Workers : run[w].at = "idle" /\ hand[w].at = "idle"
  BY <1>1, <1>3
<1>5. \A c \in Callers : calls[c].at = "idle"
  BY <1>1 DEF Idle
<1>6. WorkerTypes
  <2>1. queue \in QueueRec /\ queue.made < MaxAttempts
    BY <1>1, WorkerConstants DEF QueueRec
  <2>2. crashes \in 0 .. MaxCrashes
    BY <1>1, WorkerConstants
  <2> QED
    BY <1>1, <1>2, <1>4, <2>1, <2>2 DEF WorkerTypes, EraseSteps
<1>7. RunsLocked /\ HandsAlone
  BY <1>1, <1>4 DEF RunsLocked, HandsAlone
<1>8. CallsAwaited
  BY <1>5, ThreadCallers DEF CallsAwaited, Awaited
<1>9. job # NoJob /\ job.status = "queued"
  BY <1>1, NewRecord, NoJobAssumption DEF newJob
<1>10. EraseMarked
  BY <1>1, <1>9 DEF EraseMarked
<1>11. PromiseInv
  BY <1>1, <1>5, <1>9, ThreadCallers DEF PromiseInv, ReadHolds, Promised
<1>12. AudioInv
  BY <1>1, <1>4 DEF AudioInv, RunLeaves, HandLeaves, QueueLeaves
<1> QED
  BY <1>6, <1>7, <1>8, <1>10, <1>11, <1>12 DEF WorkerInv, ControlInv

LEMMA WorkerNext ==
    ASSUME OneAtATime, WorkerInv, [WNext]_wvars
    PROVE  WorkerInv'
<1>1. ASSUME NEW t \in Threads, StoreStep(t) PROVE WorkerInv'
  BY <1>1, StoreInv
<1>2. ASSUME NEW w \in Workers, RunStep(w) PROVE WorkerInv'
  BY <1>2, EnterInv, InspectInv, RestartingInv, AuthorizeInv, RevokingInv, LoadInv, TranscribingInv,
     ProvideInv, DiarizingInv, MergingInv, FinishingInv, LookupInv, LookupFailsInv, DeleteInv,
     ReleasedInv, ReturnInv, FailInv, HandleFailureInv, FailureFinishedInv, FailureNotedInv
     DEF RunStep
<1>3. ASSUME NEW w \in Workers, Take(w) \/ Report(w) \/ Reported(w) \/ Crash(w) PROVE WorkerInv'
  BY <1>3, TakeInv, ReportInv, CrashInv
<1>4. CASE Stall
  BY <1>4, StallInv
<1>5. CASE EraseMark \/ EraseQueue \/ EraseAudio \/ EraseRecord
  BY <1>5, EraseInv
<1>6. CASE UNCHANGED wvars
  <2>1. /\ UNCHANGED <<job, marked, calls, acked, queue, run, hand, audio, erase, crashes, orphaned>>
    BY <1>6 DEF wvars
  <2>2. ControlInv'
    <3>1. TypeInv'
      BY <2>1, RunParts, StoreSame
    <3> QED
      BY <2>1, <3>1, RunParts DEF ControlInv, WorkerTypes, RunsLocked, HandsAlone, CallsAwaited,
         Awaited, EraseMarked, Locked
  <2>3. PromiseInv'
    BY <2>1, RunParts, PromisesSame
  <2>4. AudioInv'
    BY <2>1, RunParts DEF AudioInv, RunLeaves, HandLeaves, QueueLeaves, Releasing, Spent, SeenTo,
       isFinished, attemptsExhausted
  <2> QED
    BY <2>2, <2>3, <2>4 DEF WorkerInv
<1> QED
  BY <1>1, <1>2, <1>3, <1>4, <1>5, <1>6 DEF WNext

(* The invariant: one worker at a time, what it read still true when it    *)
(* writes, and nobody gone before the audio is seen to.                    *)
THEOREM WorkerInvariant ==
    ASSUME OneAtATime
    PROVE  WSpec => []WorkerInv
<1>1. WorkerInv /\ [WNext]_wvars => WorkerInv'
  BY WorkerNext
<1> QED
  BY <1>1, WorkerInit, PTL DEF WSpec

(* The worker's variables, and every store call it has under way, keep     *)
(* their types; a job is attempted no more often than MaxAttempts.         *)
THEOREM WorkerTypesKept ==
    ASSUME OneAtATime
    PROVE  WSpec => []WTypeOK
<1>1. WorkerInv => WTypeOK
  BY DEF WorkerInv, ControlInv, WorkerTypes, TypeInv, WTypeOK, RunRec, HandRec, QueueRec
<1> QED
  BY <1>1, WorkerInvariant, PTL

(* A result that finish(COMPLETED) answered stays the job's result through *)
(* retries, stalled deliveries, crashes, late failed handlers and the      *)
(* unconditional writes of restart() and update(), on every backend.       *)
THEOREM WorkerKeepsResult ==
    ASSUME OneAtATime
    PROVE  WSpec => []AckedResultKept
<1>1. WorkerInv => AckedResultKept
  BY DEF WorkerInv, PromiseInv, Promised, AckedResultKept
<1> QED
  BY <1>1, WorkerInvariant, PTL

(* The source audio is gone only from a job that has ended with what it    *)
(* promised, is gone itself or is being erased.                            *)
THEOREM AudioIsKept ==
    ASSUME OneAtATime
    PROVE  WSpec => []AudioBarrier
<1>1. WorkerInv => AudioBarrier
  <2> SUFFICES ASSUME WorkerInv PROVE AudioBarrier
    OBVIOUS
  <2>1. audio \/ job = NoJob \/ marked \/ isFinished(job)
    BY DEF WorkerInv, AudioInv, Spent
  <2> QED
    BY <2>1, RunParts, EndedIsSpent DEF AudioBarrier
<1> QED
  BY <1>1, WorkerInvariant, PTL

(* When all is quiet, an ended job that still has its source audio says    *)
(* so: the clean-up is noted in the record, unless a worker died inside    *)
(* its failed handler.                                                     *)
THEOREM AudioIsSeenTo ==
    ASSUME OneAtATime
    PROVE  WSpec => []NoSilentAudio
<1>1. WorkerInv => NoSilentAudio
  <2> SUFFICES ASSUME WorkerInv, Settled, ~orphaned, ~marked, job # NoJob, isFinished(job), audio
               PROVE  job.cleanup
    BY DEF NoSilentAudio
  <2>1. queue.state \in {"completed", "failed", "removed"} /\ \A w \in Workers : hand[w].at = "idle"
    BY DEF Settled
  <2>2. queue.state # "removed" /\ QueueLeaves
    BY DEF WorkerInv, ControlInv, EraseMarked, AudioInv
  <2>3. SeenTo
    BY <2>1, <2>2 DEF QueueLeaves
  <2> QED
    BY <2>3 DEF SeenTo
<1> QED
  BY <1>1, WorkerInvariant, PTL

LEMMA EndsOnceStep ==
    ASSUME WorkerInv, [WNext]_wvars, job # NoJob, isFinished(job), job' # NoJob
    PROVE  job'.status = job.status /\ job'.result = job.result
<1>1. ASSUME NEW t \in Threads, StoreStep(t)
      PROVE  job'.status = job.status /\ job'.result = job.result
  <2>1. RecordKept(t)
    BY <1>1, ThreadCallers, StoreLawful, StepKept DEF StoreStep
  <2> QED
    BY <2>1 DEF RecordKept
<1>2. ASSUME NEW w \in Workers, RunStep(w) PROVE job' = job
  BY <1>2 DEF RunStep, OnlyRun, OnlyHand, Enter, Inspect, Restarting, Authorize, Revoking, Load,
     Transcribing, PhaseAnswered, Provide, Diarizing, Merging, Finishing, Lookup, LookupFails,
     Delete, Released, Return, Fail, HandleFailure, FailureFinished, FailureNoted
<1>3. ASSUME NEW w \in Workers, Take(w) \/ Report(w) \/ Reported(w) \/ Crash(w) PROVE job' = job
  BY <1>3 DEF Take, Report, Reported, Crash, OnlyRun
<1>4. CASE Stall \/ EraseMark \/ EraseQueue \/ EraseAudio
  BY <1>4 DEF Stall, EraseMark, MarkDeleted, EraseQueue, EraseAudio
<1>5. CASE EraseRecord
  BY <1>5 DEF EraseRecord
<1>6. CASE UNCHANGED wvars
  BY <1>6 DEF wvars
<1> QED
  BY <1>1, <1>2, <1>3, <1>4, <1>5, <1>6 DEF WNext

(* A job ends once: nothing a worker, a late handler or a repeated         *)
(* delivery does takes an ended job back to running or gives it another    *)
(* end.                                                                    *)
THEOREM JobEndsOnce ==
    ASSUME OneAtATime
    PROVE  WSpec => EndsOnce
<1> DEFINE Once == (job # NoJob /\ isFinished(job)) =>
                     \/ job' = NoJob
                     \/ job'.status = job.status /\ job'.result = job.result
<1>1. WorkerInv /\ [WNext]_wvars => [Once]_wvars
  <2> SUFFICES ASSUME WorkerInv, [WNext]_wvars PROVE Once
    OBVIOUS
  <2> QED
    BY EndsOnceStep
<1>2. WSpec => [][WNext]_wvars
  BY PTL DEF WSpec
<1> HIDE DEF Once
<1>3. WSpec => [][Once]_wvars
  BY <1>1, <1>2, WorkerInvariant, PTL
<1> QED
  BY <1>3 DEF Once, EndsOnce

=============================================================================
