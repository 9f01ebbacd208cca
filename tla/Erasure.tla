------------------------------ MODULE Erasure -------------------------------
(***************************************************************************)
(* Erasing one job: the erasure mark (utils/deletionTombstones) that bars  *)
(* the job and elects one executor, and everything that may execute: the   *)
(* DELETE route of each API replica (services/lifecycleService.js), the    *)
(* retention sweep (utils/retentionSweeper.js) and the clean-up of a job   *)
(* whose record is gone (services/adminJobService.js).  The operator moves *)
(* a stuck mark by hand (services/erasureMarkService.js).                  *)
(*                                                                         *)
(* The mark carries a random claim token.  The code asks of it only        *)
(* whether it is null; the model stores the executor that drew it, so that *)
(* the properties can say whose claim it is.                               *)
(***************************************************************************)
EXTENDS Naturals, FiniteSets

CONSTANTS
    Replicas,     \* executors that serve the DELETE route
    Sweepers,     \* executors that run the retention sweep
    Cleaners,     \* executors that clean up after a record that is gone
    NoClaim,      \* claim_token IS NULL
    MaxAttempts   \* bound: the operator retries while fewer failures are recorded

Executors == Replicas \cup Sweepers \cup Cleaners

ASSUME KindsAssumption ==
    /\ Replicas \cap Sweepers = {} /\ Replicas \cap Cleaners = {} /\ Sweepers \cap Cleaners = {}
    /\ NoClaim \notin Executors
    /\ "nobody" \notin Executors /\ "operator" \notin Executors
ASSUME AttemptsAssumption == MaxAttempts \in Nat \ {0}

Items == {"queue", "audio", "results", "record"}

(* What a confirmed erasure is about.                                      *)
Content == {"results", "record"}

VARIABLES
    mark,      \* the erasure_marks row: status ("none": no row), claim, attempts
    left,      \* what still exists of the job
    writing,   \* a result attempt of the job is still "pending"
    exec,      \* exec[e]: where executor e is
    widowed,   \* history: the executor that drew the mark's claim has died
    confirmed  \* history: who confirmed the mark "deleted"

vars == <<mark, left, writing, exec, widowed, confirmed>>

MarkStatuses == {"none", "pending", "failed", "deleted"}
ExecSteps == {"idle", "barrier", "mark", "claim", "queue", "audio", "results", "record", "audit", "complete"}

NoMark == [status |-> "none", claim |-> NoClaim, attempts |-> 0]
ExecIdle == [at |-> "idle", owns |-> FALSE, critical |-> FALSE]

TypeOK ==
    /\ mark \in [status : MarkStatuses, claim : Executors \cup {NoClaim}, attempts : 0 .. MaxAttempts]
    /\ left \subseteq Items
    /\ writing \in BOOLEAN
    /\ exec \in [Executors -> [at : ExecSteps, owns : BOOLEAN, critical : BOOLEAN]]
    /\ widowed \in BOOLEAN
    /\ confirmed \in {"nobody", "operator"} \cup Executors

(* An ended job: its audio was released or not, and the run that ended it  *)
(* may have left an attempt to write its result.                           *)
Init ==
    /\ mark = NoMark
    /\ left \in {Items, Items \ {"queue", "audio"}}
    /\ writing \in BOOLEAN
    /\ exec = [e \in Executors |-> ExecIdle]
    /\ widowed = FALSE
    /\ confirmed = "nobody"

-----------------------------------------------------------------------------
(* The mark's transitions: conditional on the status, and each one drops   *)
(* the claim.                                                              *)

allowedSources(status) ==
    CASE status \in {"deleted", "failed"} -> {"pending"}
      [] status = "pending" -> {"failed"}

Moved(status) ==
    [status |-> status, claim |-> NoClaim,
     attempts |-> IF status = "failed" THEN mark.attempts + 1 ELSE mark.attempts]

transition(from, status, by) ==
    /\ mark' = IF mark.status \in from THEN Moved(status) ELSE mark
    /\ confirmed' = IF mark.status \in from /\ status = "deleted" THEN by ELSE confirmed

complete(e, status) == transition(allowedSources(status), status, e)

ExecTo(e, step) == exec' = [exec EXCEPT ![e].at = step]
Finish(e) == exec' = [exec EXCEPT ![e] = ExecIdle]

-----------------------------------------------------------------------------
(* How each kind of executor comes to ask for the mark.                    *)

(* The route looked the record up.                                         *)
AskReplica(e) ==
    /\ e \in Replicas /\ "record" \in left
    /\ exec' = [exec EXCEPT ![e] = [ExecIdle EXCEPT !.at = "barrier"]]

(* listExpired(): the record is old and no audio clean-up is pending.      *)
AskSweeper(e) ==
    /\ e \in Sweepers /\ "record" \in left /\ "audio" \notin left
    /\ exec' = [exec EXCEPT ![e] = [ExecIdle EXCEPT !.at = "mark"]]

AskCleaner(e) ==
    /\ e \in Cleaners /\ "record" \notin left
    /\ exec' = [exec EXCEPT ![e] = [ExecIdle EXCEPT !.at = "mark"]]

Ask(e) ==
    /\ exec[e].at = "idle"
    /\ AskReplica(e) \/ AskSweeper(e) \/ AskCleaner(e)
    /\ UNCHANGED <<mark, left, writing, widowed, confirmed>>

(* deleteJobArtefacts(): a failed or confirmed mark is only reported.      *)
Barrier_NoMark(e) ==
    /\ exec[e].at = "barrier"
    /\ IF mark.status \in {"failed", "deleted"} THEN Finish(e) ELSE ExecTo(e, "queue")
    /\ UNCHANGED <<mark, left, writing, widowed, confirmed>>

Barrier(e) ==
    /\ exec[e].at = "barrier"
    /\ IF mark.status \in {"failed", "deleted"} THEN Finish(e) ELSE ExecTo(e, "mark")
    /\ UNCHANGED <<mark, left, writing, widowed, confirmed>>

(* What each kind does without the claim.  A replica stops only at a mark  *)
(* that is pending; the others always stop.                                *)
GoesOnWithout(e, status) == e \in Replicas /\ status # "pending"

FirstStep(e) == IF e \in Sweepers THEN "results" ELSE "queue"

Began(e) == /\ exec' = [exec EXCEPT ![e] = [ExecIdle EXCEPT !.at = FirstStep(e), !.owns = TRUE]]
            /\ widowed' = FALSE

(* claimForDeletion(): mark() inserts the row, or finds it.                *)
Mark(e) ==
    /\ exec[e].at = "mark"
    /\ IF mark.status = "none"
       THEN mark' = [status |-> "pending", claim |-> e, attempts |-> 0] /\ Began(e)
       ELSE /\ UNCHANGED <<mark, widowed>>
            /\ IF mark.status = "pending" THEN ExecTo(e, "claim")
               ELSE IF GoesOnWithout(e, mark.status) THEN ExecTo(e, FirstStep(e)) ELSE Finish(e)
    /\ UNCHANGED <<left, writing, confirmed>>

(* claimRetry(): a pending mark without a claim, as the operator's retry   *)
(* leaves it.                                                              *)
claimable_AnyPending == mark.status = "pending"

claimable == mark.status = "pending" /\ mark.claim = NoClaim

Claim(e) ==
    /\ exec[e].at = "claim"
    /\ IF claimable
       THEN mark' = [mark EXCEPT !.claim = e] /\ Began(e)
       ELSE UNCHANGED <<mark, widowed>> /\ Finish(e)
    /\ UNCHANGED <<left, writing, confirmed>>

-----------------------------------------------------------------------------
(* eraseJob(): queue, audio, results; each may fail, and goes on.  The     *)
(* sweep erases the results only, and stops when it cannot.  Where the     *)
(* record is gone the audio is known only from the queue job.              *)

After(step) == CASE step = "queue" -> "audio" [] step = "audio" -> "results" [] step = "results" -> "record"

EraseItem(e) ==
    /\ exec[e].at \in {"queue", "audio", "results"}
    /\ \/ /\ left' = left \ {exec[e].at}
          /\ exec' = [exec EXCEPT ![e].at = After(@)]
       \/ /\ exec[e].at \in left
          /\ exec' = [exec EXCEPT ![e].at = IF e \in Sweepers THEN "complete" ELSE After(@),
                                  ![e].critical = TRUE]
          /\ UNCHANGED left
       \/ /\ e \in Cleaners /\ exec[e].at = "audio"
          /\ ExecTo(e, After("audio"))
          /\ UNCHANGED left
    /\ UNCHANGED <<mark, writing, widowed, confirmed>>

(* The record goes last, and only after everything else went.  What        *)
(* eraseJob() writes instead, deletion_pending, never reaches a job that   *)
(* is barred.                                                              *)
SkipRecord(e) ==
    /\ exec[e].at = "record" /\ exec[e].critical
    /\ ExecTo(e, IF e \in Cleaners THEN "complete" ELSE "audit")
    /\ UNCHANGED <<mark, left, writing, widowed, confirmed>>

(* store.remove(): refused while an attempt to write the result is still   *)
(* pending.  eraseJob() looks again and takes the refusal for a failure;   *)
(* the sweep only counts.                                                  *)
CountsRefusal_Nobody(e) == FALSE

CountsRefusal(e) == e \notin Sweepers

EraseRecord(e) ==
    LET refused == "record" \in left /\ writing
        next == IF e \in Replicas THEN "audit" ELSE "complete" IN
    /\ exec[e].at = "record" /\ ~exec[e].critical
    /\ \/ /\ left' = IF refused THEN left ELSE left \ {"record"}
          /\ exec' = [exec EXCEPT ![e].at = next, ![e].critical = refused /\ CountsRefusal(e)]
       \/ /\ exec' = [exec EXCEPT ![e].at = next, ![e].critical = TRUE]
          /\ UNCHANGED left
    /\ UNCHANGED <<mark, writing, widowed, confirmed>>

(* The lifecycle event is written before the mark is settled.  When it     *)
(* cannot be, the executor that holds the claim gives the mark up.         *)
GiveUp_Silently(e) == UNCHANGED <<mark, confirmed>>

GiveUp(e) == IF exec[e].owns THEN complete(e, "failed") ELSE UNCHANGED <<mark, confirmed>>

Audit(e) ==
    /\ exec[e].at = "audit"
    /\ \/ ExecTo(e, "complete") /\ UNCHANGED <<mark, confirmed>>
       \/ GiveUp(e) /\ Finish(e)
    /\ UNCHANGED <<left, writing, widowed>>

(* complete(): whoever asks; the claim is not compared.                    *)
Complete(e) ==
    /\ exec[e].at = "complete"
    /\ complete(e, IF exec[e].critical THEN "failed" ELSE "deleted")
    /\ Finish(e)
    /\ UNCHANGED <<left, writing, widowed>>

-----------------------------------------------------------------------------
(* The operator, the end of an attempt, a crash, and the retention of the  *)
(* marks themselves.                                                       *)

Retry ==
    /\ mark.status = "failed"
    /\ mark.attempts < MaxAttempts
    /\ transition({"failed"}, "pending", "operator")
    /\ UNCHANGED <<left, writing, exec, widowed>>

Release ==
    /\ mark.status = "pending"
    /\ transition({"pending"}, "failed", "operator")
    /\ UNCHANGED <<left, writing, exec, widowed>>

ForceResolve ==
    /\ mark.status \in {"pending", "failed"}
    /\ transition({"pending", "failed"}, "deleted", "operator")
    /\ UNCHANGED <<left, writing, exec, widowed>>

AttemptEnds == writing /\ writing' = FALSE /\ UNCHANGED <<mark, left, exec, widowed, confirmed>>

Crash(e) ==
    /\ exec[e].at # "idle"
    /\ Finish(e)
    /\ widowed' = (widowed \/ mark.claim = e)
    /\ UNCHANGED <<mark, left, writing, confirmed>>

(* purgeExpired(): a confirmed mark outlives every request and every late  *)
(* queue message of its job.                                               *)
Purge ==
    /\ mark.status = "deleted"
    /\ \A e \in Executors : exec[e].at = "idle"
    /\ mark' = NoMark /\ confirmed' = "nobody"
    /\ UNCHANGED <<left, writing, exec, widowed>>

ExecStep(e) ==
    \/ Barrier(e) \/ Mark(e) \/ Claim(e)
    \/ EraseItem(e) \/ SkipRecord(e) \/ EraseRecord(e) \/ Audit(e) \/ Complete(e)

Next ==
    \/ \E e \in Executors : Ask(e) \/ ExecStep(e) \/ Crash(e)
    \/ Retry \/ Release \/ ForceResolve
    \/ AttemptEnds \/ Purge

Spec == Init /\ [][Next]_vars

-----------------------------------------------------------------------------
AtWork(e) == exec[e].at \in {"queue", "audio", "results", "record", "audit", "complete"}

(* A mark that an executor confirmed tells the truth: neither the record   *)
(* nor a result is left.  The sweep's own confirmations are stated apart.  *)
ConfirmedMeansGone ==
    (mark.status = "deleted" /\ confirmed \in Executors \ Sweepers) => left \cap Content = {}

(* A claim always has somebody behind it: its executor is at work, or it   *)
(* died.  No failure of a step, of the audit or of a rival leaves a        *)
(* pending mark that every later request would take for "in progress".     *)
ClaimIsHeld ==
    (mark.status = "pending" /\ mark.claim # NoClaim) =>
        (exec[mark.claim].owns /\ AtWork(mark.claim)) \/ widowed

(* Nothing of a job is removed before the job is barred (#19).             *)
BarredBeforeErased == [][left' # left => mark.status # "none"]_vars

(* A claim is never taken over: it ends with a transition of the mark, and *)
(* only then can another executor draw one.                                *)
ClaimNeverStolen ==
    [][ (mark.claim # NoClaim /\ mark'.claim # mark.claim) => mark'.claim = NoClaim ]_vars
=============================================================================
