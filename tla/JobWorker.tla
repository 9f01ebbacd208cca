----------------------------- MODULE JobWorker ------------------------------
(***************************************************************************)
(* The queue worker (workers/index.js) around the job store: one           *)
(* transcription job, its BullMQ record, its source audio, the worker      *)
(* processes that may hold it, their "failed" handlers, and the API        *)
(* process that erases it.                                                 *)
(*                                                                         *)
(* Three threads of a worker can have a store call under way: the          *)
(* processor function ("run"), the progress report it does not wait for    *)
(* ("progress") and the "failed" event handler ("failed"), which BullMQ    *)
(* does not wait for either.                                               *)
(***************************************************************************)
EXTENDS JobStore

CONSTANTS
    Workers, NoWorker,
    MaxAttempts,      \* attempts of the BullMQ job
    MaxStalls,        \* maxStalledCount
    MaxCrashes,       \* bound: worker processes that die
    Diarize,          \* the request asks for diarization
    Reporting,        \* the provider reports progress
    LiveStalls,       \* a live worker may lose its lock (late renewal)
    HandlersSettle,   \* the retry delay outlasts the failed handler
    Erasing           \* the API erases the job at some moment

Threads == Workers \X {"run", "progress", "failed"}

ASSUME WorkerConstants ==
    /\ Callers = Threads
    /\ NoWorker \notin Workers
    /\ JobType = "transcription"
    /\ MaxAttempts \in Nat \ {0} /\ MaxStalls \in Nat /\ MaxCrashes \in Nat
    /\ {Diarize, Reporting, LiveStalls, HandlersSettle, Erasing} \subseteq BOOLEAN

VARIABLES
    queue,   \* the BullMQ job: state, lock holder, attemptsMade, stalled count
    run,     \* run[w]: where worker w's processor function is
    hand,    \* hand[w]: where worker w's "failed" handler is
    audio,   \* the source file exists
    erase,   \* where the API's erasure is
    crashes,
    orphaned \* history: a worker died with a failed handler under way

wvars == <<job, marked, calls, acked, queue, run, hand, audio, erase, crashes, orphaned>>
storeVars == <<job, marked, acked>>

RunSteps == {"idle", "enter", "inspect", "restarting", "authorize", "revoking", "load",
             "transcribing", "provider", "diarizing", "merging", "finishing",
             "lookup", "delete", "releasing", "return", "throw"}
HandSteps == {"idle", "start", "finishing", "noting", "lookup", "delete", "releasing"}
EraseSteps == {"idle", "queue", "audio", "record", "done", "failed"}

RunIdle == [at |-> "idle", value |-> NoResult, why |-> "none"]
HandIdle == [at |-> "idle", fatal |-> FALSE, last |-> FALSE]

WTypeOK ==
    /\ TypeOK
    /\ queue \in [state : {"waiting", "active", "completed", "failed", "removed"},
                  owner : Workers \cup {NoWorker}, made : 0 .. MaxAttempts, stalls : 0 .. MaxStalls]
    /\ run \in [Workers -> [at : RunSteps, value : Results \cup {NoResult},
                            why : {"none", "retryable", "fatal"} \cup Replies]]
    /\ hand \in [Workers -> [at : HandSteps, fatal : BOOLEAN, last : BOOLEAN]]
    /\ audio \in BOOLEAN /\ erase \in EraseSteps
    /\ crashes \in 0 .. MaxCrashes /\ orphaned \in BOOLEAN

WInit ==
    /\ Init
    /\ queue = [state |-> "waiting", owner |-> NoWorker, made |-> 0, stalls |-> 0]
    /\ run = [w \in Workers |-> RunIdle]
    /\ hand = [w \in Workers |-> HandIdle]
    /\ audio = TRUE
    /\ erase = "idle"
    /\ crashes = 0
    /\ orphaned = FALSE

-----------------------------------------------------------------------------
(* Moving one worker along.                                                *)

RunTo(w, step) == run' = [run EXCEPT ![w].at = step]
Throw(w, why) == run' = [run EXCEPT ![w].at = "throw", ![w].why = why]
HandTo(w, step) == hand' = [hand EXCEPT ![w].at = step]

Start(t, req) == calls[t].at = "idle" /\ calls' = [calls EXCEPT ![t] = Call(req)]
Free(t) == calls' = [calls EXCEPT ![t] = Idle]

(* The answers of the store that are values; every other one is thrown.    *)
NotThrown == {"ok", "null", "CONCURRENCY_CONFLICT"}

Locked(w) == queue.state = "active" /\ queue.owner = w

OnlyRun == UNCHANGED <<job, marked, acked, queue, hand, audio, erase, crashes, orphaned>>
OnlyHand == UNCHANGED <<job, marked, acked, queue, run, audio, erase, crashes, orphaned>>

-----------------------------------------------------------------------------
(* The processor function, await by await.                                 *)

Take(w) ==
    /\ queue.state = "waiting" /\ run[w].at = "idle"
    /\ HandlersSettle => \A v \in Workers : hand[v].at = "idle"
    /\ queue' = [queue EXCEPT !.state = "active", !.owner = w]
    /\ RunTo(w, "enter")
    /\ UNCHANGED <<job, marked, calls, acked, hand, audio, erase, crashes, orphaned>>

(* An erased job is skipped without touching anything.                     *)
Enter(w) ==
    /\ run[w].at = "enter"
    /\ RunTo(w, IF marked THEN "return" ELSE "inspect")
    /\ UNCHANGED calls /\ OnlyRun

(* What an earlier attempt, or another worker, left: an ended job is not   *)
(* run again, only its audio is cleaned up.                                *)
Inspect(w) ==
    /\ run[w].at = "inspect"
    /\ LET decision == IF job = NoJob THEN "VYKDYTI" ELSE sprendimasPriesRestart(job) IN
       CASE decision = "REMONTUOTINA" -> Throw(w, "retryable") /\ UNCHANGED calls
         [] decision = "VYKDYTI" -> RunTo(w, "restarting") /\ Start(<<w, "run">>, [op |-> "restart"])
         [] OTHER -> RunTo(w, "lookup") /\ UNCHANGED calls
    /\ OnlyRun

Restarting(w) ==
    LET t == <<w, "run">> IN
    /\ run[w].at = "restarting"
    /\ calls[t].at = "done"
    /\ IF calls[t].reply = "ok" THEN RunTo(w, "authorize") ELSE Throw(w, calls[t].reply)
    /\ Free(t)
    /\ OnlyRun

(* authorizeJobOrAudit(): allowed; or denied, or the decision could not be *)
(* made or audited, which ends the job as failed.                          *)
Authorize(w) ==
    /\ run[w].at = "authorize"
    /\ \/ RunTo(w, "load") /\ UNCHANGED calls
       \/ RunTo(w, "revoking") /\ Start(<<w, "run">>, [op |-> "finishFailed"])
    /\ OnlyRun

(* The answer of finishFailed() is not looked at here: the barrier before  *)
(* the audio decides.                                                      *)
Revoking(w) ==
    LET t == <<w, "run">> IN
    /\ run[w].at = "revoking"
    /\ calls[t].at = "done"
    /\ IF calls[t].reply \in NotThrown
       THEN RunTo(w, "lookup") ELSE Throw(w, calls[t].reply)
    /\ Free(t)
    /\ OnlyRun

Load(w) ==
    /\ run[w].at = "load"
    /\ IF audio THEN RunTo(w, "transcribing")
                     /\ Start(<<w, "run">>, [op |-> "startPhase", phase |-> "transcribing"])
       ELSE Throw(w, "retryable") /\ UNCHANGED calls
    /\ OnlyRun

(* pradetiFaze(): a lost version race or a missing record does not stop    *)
(* the pipeline; an error of jobPhase does.                                *)
PhaseAnswered(w, step, next(_)) ==
    LET t == <<w, "run">> IN
    /\ run[w].at = step
    /\ calls[t].at = "done"
    /\ IF calls[t].reply \in NotThrown THEN next(t)
       ELSE Throw(w, calls[t].reply) /\ Free(t)
    /\ OnlyRun

Transcribing(w) ==
    PhaseAnswered(w, "transcribing", LAMBDA t : RunTo(w, "provider") /\ Free(t))

(* onProgress: fire and forget.  Young bounds the reports of a run.        *)
Report(w) ==
    /\ Reporting /\ Young /\ run[w].at = "provider"
    /\ \E n \in Progress :
         Start(<<w, "progress">>, [op |-> "reportProgress", phase |-> "transcribing", current |-> n])
    /\ UNCHANGED run /\ OnlyRun

Reported(w) ==
    LET t == <<w, "progress">> IN
    calls[t].at = "done" /\ Free(t) /\ UNCHANGED run /\ OnlyRun

FinishWith(w, r, t) ==
    /\ run' = [run EXCEPT ![w].at = "finishing", ![w].value = r]
    /\ calls' = [calls EXCEPT ![t] = Call([op |-> "finish", result |-> r])]

(* The provider fails, its result is over a limit (an unrecoverable        *)
(* error), or it transcribes.                                              *)
Provide(w) ==
    LET t == <<w, "run">> IN
    /\ run[w].at = "provider"
    /\ \/ \E why \in {"retryable", "fatal"} : Throw(w, why) /\ UNCHANGED calls
       \/ ~Diarize /\ \E r \in Results : FinishWith(w, r, t)
       \/ Diarize /\ RunTo(w, "diarizing") /\ Start(t, [op |-> "startPhase", phase |-> "diarizing"])
    /\ OnlyRun

Diarizing(w) ==
    \/ PhaseAnswered(w, "diarizing", LAMBDA t :
         /\ run' = [run EXCEPT ![w].at = "merging"]
         /\ calls' = [calls EXCEPT ![t] = Call([op |-> "startPhase", phase |-> "merging"])])
    \/ /\ run[w].at = "diarizing"
       /\ calls[<<w, "run">>].reply \in NotThrown
       /\ Throw(w, "retryable") /\ Free(<<w, "run">>) /\ OnlyRun

Merging(w) ==
    PhaseAnswered(w, "merging", LAMBDA t : \E r \in Results : FinishWith(w, r, t))

(* Only the job object itself lets the run go on to its audio; every       *)
(* other answer is thrown.  Or the artefact store fails before anything is *)
(* committed, for now or for good.                                         *)
Finishing(w) ==
    LET t == <<w, "run">> IN
    /\ run[w].at = "finishing"
    /\ \/ /\ calls[t].at = "done"
          /\ IF calls[t].reply = "ok" THEN RunTo(w, "lookup") ELSE Throw(w, calls[t].reply)
       \/ /\ calls[t].at = "write"
          /\ \E why \in {"retryable", "fatal"} : Throw(w, why)
    /\ Free(t)
    /\ OnlyRun

(* salintiAudioSuBarjeru() and releaseAudio(): look the job up, remove the *)
(* file if the job has ended or is gone, then note it in the record.       *)
MayRelease == job = NoJob \/ arGalimaSalintiAudio(job)

RemoveFile(t) ==
    \/ audio' = FALSE /\ Start(t, [op |-> "update", patch |-> "audioReleased"])
    \/ audio /\ UNCHANGED audio /\ Start(t, [op |-> "update", patch |-> "audioKept"])

Lookup(w) ==
    \/ /\ run[w].at = "lookup"
       /\ RunTo(w, IF MayRelease THEN "delete" ELSE "return")
       /\ UNCHANGED calls /\ OnlyRun
    \/ /\ hand[w].at = "lookup"
       /\ HandTo(w, IF MayRelease THEN "delete" ELSE "idle")
       /\ UNCHANGED calls /\ OnlyHand

(* When the job cannot be looked up nothing is removed, and the clean-up   *)
(* is noted for later.                                                     *)
LookupFails(w) ==
    \/ /\ run[w].at = "lookup"
       /\ RunTo(w, "releasing") /\ Start(<<w, "run">>, [op |-> "update", patch |-> "audioKept"])
       /\ OnlyRun
    \/ /\ hand[w].at = "lookup"
       /\ HandTo(w, "releasing") /\ Start(<<w, "failed">>, [op |-> "update", patch |-> "audioKept"])
       /\ OnlyHand

Delete(w) ==
    \/ /\ run[w].at = "delete"
       /\ RemoveFile(<<w, "run">>) /\ RunTo(w, "releasing") /\ UNCHANGED hand
       /\ UNCHANGED <<job, marked, acked, queue, erase, crashes, orphaned>>
    \/ /\ hand[w].at = "delete"
       /\ RemoveFile(<<w, "failed">>) /\ HandTo(w, "releasing") /\ UNCHANGED run
       /\ UNCHANGED <<job, marked, acked, queue, erase, crashes, orphaned>>

Released(w) ==
    \/ /\ run[w].at = "releasing" /\ calls[<<w, "run">>].at = "done"
       /\ RunTo(w, "return") /\ Free(<<w, "run">>) /\ OnlyRun
    \/ /\ hand[w].at = "releasing" /\ calls[<<w, "failed">>].at = "done"
       /\ HandTo(w, "idle") /\ Free(<<w, "failed">>) /\ OnlyHand

-----------------------------------------------------------------------------
(* What BullMQ makes of the end of a run.  A worker that lost its lock can *)
(* neither complete nor fail the queue job.                                *)
Return(w) ==
    /\ run[w].at = "return"
    /\ queue' = IF Locked(w) THEN [queue EXCEPT !.state = "completed", !.owner = NoWorker] ELSE queue
    /\ run' = [run EXCEPT ![w] = RunIdle]
    /\ UNCHANGED <<job, marked, calls, acked, hand, audio, erase, crashes, orphaned>>

LastAttempt == queue.made + 1 >= MaxAttempts

Fail(w) ==
    LET fatal == run[w].why = "fatal"
        last == LastAttempt IN
    /\ run[w].at = "throw"
    /\ run' = [run EXCEPT ![w] = RunIdle]
    /\ \/ /\ Locked(w) /\ hand[w].at = "idle"
          /\ queue' = [queue EXCEPT !.state = IF fatal \/ last THEN "failed" ELSE "waiting",
                                    !.owner = NoWorker, !.made = @ + 1]
          /\ hand' = [hand EXCEPT ![w] = [at |-> "start", fatal |-> fatal, last |-> last]]
       \/ /\ ~Locked(w)
          /\ UNCHANGED <<queue, hand>>
    /\ UNCHANGED <<job, marked, calls, acked, audio, erase, crashes, orphaned>>

(* The lock expired: the holder died, or lives and renewed it too late.    *)
(* Past the limit BullMQ fails the job as unrecoverable.                   *)
Stall ==
    /\ queue.state = "active"
    /\ LiveStalls \/ run[queue.owner].at = "idle"
    /\ \/ /\ queue.stalls < MaxStalls
          /\ queue' = [queue EXCEPT !.state = "waiting", !.owner = NoWorker, !.stalls = @ + 1]
          /\ UNCHANGED hand
       \/ /\ queue.stalls = MaxStalls
          /\ queue' = [queue EXCEPT !.state = "failed", !.owner = NoWorker]
          /\ \E w \in Workers : hand[w].at = "idle"
                                /\ hand' = [hand EXCEPT ![w] = [at |-> "start", fatal |-> TRUE, last |-> FALSE]]
    /\ UNCHANGED <<job, marked, calls, acked, run, audio, erase, crashes, orphaned>>

-----------------------------------------------------------------------------
(* The "failed" handler: only a final failure ends the job and frees its   *)
(* audio, and only if the end was committed.                               *)
attemptsExhausted_AttemptsOnly(h) == h.last

attemptsExhausted(h) == h.fatal \/ h.last

HandleFailure(w) ==
    /\ hand[w].at = "start"
    /\ IF attemptsExhausted(hand[w])
       THEN HandTo(w, "finishing") /\ Start(<<w, "failed">>, [op |-> "finishFailed"])
       ELSE HandTo(w, "noting") /\ Start(<<w, "failed">>, [op |-> "update", patch |-> "attemptNoted"])
    /\ OnlyHand

FailureFinished(w) ==
    LET t == <<w, "failed">> IN
    /\ hand[w].at = "finishing"
    /\ calls[t].at = "done"
    /\ HandTo(w, IF calls[t].reply \in {"ok", "null"} THEN "lookup" ELSE "idle")
    /\ Free(t)
    /\ OnlyHand

FailureNoted(w) ==
    LET t == <<w, "failed">> IN
    /\ hand[w].at = "noting"
    /\ calls[t].at = "done"
    /\ HandTo(w, "idle")
    /\ Free(t)
    /\ OnlyHand

-----------------------------------------------------------------------------
(* deleteJobArtefacts() and eraseJob(): the mark first, then the queue     *)
(* job, which BullMQ refuses to remove while it is locked, then the audio; *)
(* the record goes only if every step before it succeeded.  The owner may  *)
(* ask for it once the job has ended; an administrator's override does not *)
(* look at the status, so it may come at any moment.                       *)
EraseMark_NoMark ==
    /\ Erasing /\ erase = "idle" /\ job # NoJob
    /\ erase' = "queue"
    /\ UNCHANGED <<job, marked, calls, acked, queue, run, hand, audio, crashes, orphaned>>

EraseMark ==
    /\ Erasing /\ erase = "idle" /\ job # NoJob
    /\ MarkDeleted
    /\ erase' = "queue"
    /\ UNCHANGED <<queue, run, hand, audio, crashes, orphaned>>

EraseQueue ==
    /\ erase = "queue"
    /\ IF queue.state = "active" THEN erase' = "audio" /\ UNCHANGED queue
       ELSE erase' = "record" /\ queue' = [queue EXCEPT !.state = "removed"]
    /\ UNCHANGED <<job, marked, calls, acked, run, hand, audio, crashes, orphaned>>

EraseAudio ==
    /\ erase \in {"audio", "record"} /\ audio
    /\ audio' = FALSE
    /\ UNCHANGED <<job, marked, calls, acked, queue, run, hand, erase, crashes, orphaned>>

EraseRecord ==
    /\ erase \in {"audio", "record"} /\ ~audio
    /\ IF erase = "record" THEN erase' = "done" /\ job' = NoJob ELSE erase' = "failed" /\ UNCHANGED job
    /\ UNCHANGED <<marked, calls, acked, queue, run, hand, audio, crashes, orphaned>>

(* A worker process dies with everything it had under way.                 *)
Crash(w) ==
    /\ crashes < MaxCrashes
    /\ run[w].at # "idle" \/ hand[w].at # "idle"
    /\ crashes' = crashes + 1
    /\ orphaned' = (orphaned \/ hand[w].at # "idle")
    /\ run' = [run EXCEPT ![w] = RunIdle]
    /\ hand' = [hand EXCEPT ![w] = HandIdle]
    /\ calls' = [t \in Threads |-> IF t[1] = w THEN Idle ELSE calls[t]]
    /\ UNCHANGED <<job, marked, acked, queue, audio, erase>>

-----------------------------------------------------------------------------
StoreStep(t) == Step(t) /\ UNCHANGED <<queue, run, hand, audio, erase, crashes, orphaned>>

RunStep(w) ==
    \/ Enter(w) \/ Inspect(w) \/ Restarting(w) \/ Authorize(w) \/ Revoking(w)
    \/ Load(w) \/ Transcribing(w) \/ Provide(w) \/ Diarizing(w) \/ Merging(w)
    \/ Finishing(w) \/ Lookup(w) \/ LookupFails(w) \/ Delete(w) \/ Released(w) \/ Return(w) \/ Fail(w)
    \/ HandleFailure(w) \/ FailureFinished(w) \/ FailureNoted(w)

WNext ==
    \/ \E t \in Threads : StoreStep(t)
    \/ \E w \in Workers : RunStep(w) \/ Take(w) \/ Report(w) \/ Reported(w) \/ Crash(w)
    \/ Stall
    \/ EraseMark \/ EraseQueue \/ EraseAudio \/ EraseRecord

(* A process goes on with what it has begun, some worker picks up a        *)
(* waiting job, and an expired lock is noticed.  Nothing makes a worker    *)
(* fail, report progress or crash, and nobody has to erase the job.        *)
Fairness ==
    /\ \A t \in Threads : WF_wvars(StoreStep(t))
    /\ \A w \in Workers : WF_wvars(RunStep(w)) /\ WF_wvars(Reported(w))
    /\ WF_wvars(\E w \in Workers : Take(w))
    /\ WF_wvars(Stall)
    /\ WF_wvars(EraseQueue \/ EraseAudio \/ EraseRecord)

WSpec == WInit /\ [][WNext]_wvars /\ Fairness

-----------------------------------------------------------------------------
(* The source audio is removed only when nothing will need it again: the   *)
(* job has ended with what it promised, is gone, or is being erased.       *)
AudioBarrier ==
    audio \/ job = NoJob \/ marked \/ (isFinished(job) /\ sprendimasPriesRestart(job) # "REMONTUOTINA")

(* A job ends once: no attempt, late handler or repeated delivery takes an *)
(* ended job back to running or gives it another end.                      *)
EndsOnce ==
    [][ (job # NoJob /\ isFinished(job)) =>
            \/ job' = NoJob
            \/ job'.status = job.status /\ job'.result = job.result ]_wvars

Settled ==
    /\ queue.state \in {"completed", "failed", "removed"}
    /\ \A w \in Workers : run[w].at = "idle" /\ hand[w].at = "idle"
    /\ erase \in {"idle", "done", "failed"}

(* When all is quiet, an ended job has no source audio left, or its record *)
(* says that the removal is to be repeated.  A worker that died inside its *)
(* failed handler leaves the audio to the retention sweep.                 *)
NoSilentAudio ==
    (Settled /\ ~orphaned /\ ~marked /\ job # NoJob /\ isFinished(job) /\ audio) => job.cleanup

(* Every job ends, is erased, or lost its failed handler to a crash:       *)
(* nobody waits for ever on a job that says "processing".                  *)
EveryJobEnds == <>(job = NoJob \/ marked \/ isFinished(job) \/ orphaned)
=============================================================================
