---------------------------- MODULE Erasure_proofs --------------------------
(***************************************************************************)
(* What the erasure mark guarantees for any number of replicas, sweepers   *)
(* and cleaners.  One inductive invariant carries all of it: the types,    *)
(* where a claim may stand, how far an executor has got when it is         *)
(* neither failed nor a sweeper, and that nobody is at work on a job that  *)
(* is not barred.                                                          *)
(*                                                                         *)
(* And, in the second part, that erasures outlive copies and recoveries    *)
(* (DisasterRecovery).  What a recovery does to the data is proved without *)
(* a hypothesis; that marks outlive the copies needs CopiesWithinMargin.   *)
(***************************************************************************)
EXTENDS Erasure, DisasterRecovery, TLAPS

USE KindsAssumption, AttemptsAssumption DEF Executors

Exec0 == [at : ExecSteps, owns : BOOLEAN, critical : BOOLEAN]

(* A step an executor gets to without a failure leaves nothing before it.  *)
StepsDone ==
    \A e \in Executors \ Sweepers :
        ~exec[e].critical =>
            /\ exec[e].at \in {"record", "audit", "complete"} => "results" \notin left
            /\ exec[e].at \in {"audit", "complete"} => "record" \notin left

ClaimPlaced ==
    /\ mark.status = "none" => mark.claim = NoClaim
    /\ mark.status = "pending" => mark.attempts < MaxAttempts

NobodyUnbarred == \A e \in Executors : AtWork(e) => mark.status # "none"

IInv ==
    /\ TypeOK
    /\ StepsDone
    /\ ClaimPlaced
    /\ NobodyUnbarred
    /\ ClaimIsHeld
    /\ ConfirmedMeansGone

LEMMA IdleExec ==
    /\ ExecIdle \in Exec0 /\ ExecIdle.at = "idle"
    /\ \A step \in ExecSteps :
         /\ [ExecIdle EXCEPT !.at = step] \in Exec0
         /\ [ExecIdle EXCEPT !.at = step].at = step
         /\ [ExecIdle EXCEPT !.at = step, !.owns = TRUE] \in Exec0
         /\ [ExecIdle EXCEPT !.at = step, !.owns = TRUE].at = step
         /\ [ExecIdle EXCEPT !.at = step, !.owns = TRUE].owns = TRUE
BY DEF ExecIdle, Exec0, ExecSteps

LEMMA ExecUpdate ==
    ASSUME TypeOK, NEW e \in Executors, NEW x \in Exec0, exec' = [exec EXCEPT ![e] = x]
    PROVE  /\ exec' \in [Executors -> Exec0]
           /\ exec'[e] = x
           /\ \A d \in Executors : d # e => exec'[d] = exec[d]
BY DEF TypeOK, Exec0

LEMMA ExecToUpdate ==
    ASSUME TypeOK, NEW e \in Executors, NEW step \in ExecSteps, ExecTo(e, step)
    PROVE  \E x \in Exec0 : /\ exec' = [exec EXCEPT ![e] = x]
                            /\ x.at = step /\ x.owns = exec[e].owns /\ x.critical = exec[e].critical
<1> DEFINE x == [exec[e] EXCEPT !.at = step]
<1>1. exec \in [Executors -> Exec0]
  BY DEF TypeOK, Exec0
<1>2. x \in Exec0 /\ x.at = step /\ x.owns = exec[e].owns /\ x.critical = exec[e].critical
  BY <1>1 DEF Exec0
<1>3. exec' = [exec EXCEPT ![e] = x]
  BY DEF ExecTo
<1> QED
  BY <1>2, <1>3

LEMMA InitIInv == Init => IInv
<1> SUFFICES ASSUME Init PROVE IInv
  OBVIOUS
<1>1. mark = [status |-> "none", claim |-> NoClaim, attempts |-> 0] /\ confirmed = "nobody"
  BY DEF Init, NoMark
<1>2. \A e \in Executors : exec[e] = [at |-> "idle", owns |-> FALSE, critical |-> FALSE]
  BY DEF Init, ExecIdle
<1>3. TypeOK
  <2>1. exec \in [Executors -> Exec0]
    BY IdleExec DEF Init
  <2>2. mark \in [status : MarkStatuses, claim : Executors \cup {NoClaim}, attempts : 0 .. MaxAttempts]
    BY <1>1 DEF MarkStatuses
  <2>3. left \subseteq Items /\ writing \in BOOLEAN /\ widowed \in BOOLEAN
    BY DEF Init
  <2> QED
    BY <1>1, <2>1, <2>2, <2>3 DEF TypeOK, Exec0
<1>4. StepsDone /\ ClaimPlaced /\ NobodyUnbarred /\ ClaimIsHeld /\ ConfirmedMeansGone
  BY <1>1, <1>2 DEF StepsDone, ClaimPlaced, NobodyUnbarred, ClaimIsHeld, ConfirmedMeansGone, AtWork
<1> QED
  BY <1>3, <1>4 DEF IInv

(* A transition of the mark, by whoever asks for it.                       *)
LEMMA TransitionMark ==
    ASSUME IInv, NEW from \in SUBSET {"pending", "failed"}, NEW status \in {"pending", "failed", "deleted"},
           NEW by, transition(from, status, by),
           status = "pending" => from = {"failed"} /\ mark.attempts < MaxAttempts,
           status = "failed" => from = {"pending"}
    PROVE  /\ mark' = mark \/ mark'.claim = NoClaim
           /\ mark' \in [status : MarkStatuses, claim : Executors \cup {NoClaim}, attempts : 0 .. MaxAttempts]
           /\ ClaimPlaced'
           /\ mark.status # "none" => mark'.status # "none"
           /\ mark' = mark \/ mark'.status = status
<1>1. mark \in [status : MarkStatuses, claim : Executors \cup {NoClaim}, attempts : 0 .. MaxAttempts]
  BY DEF IInv, TypeOK
<1>2. CASE mark.status \notin from
  BY <1>1, <1>2 DEF transition, IInv, ClaimPlaced
<1>3. CASE mark.status \in from
  <2>1. mark' = Moved(status)
    BY <1>3 DEF transition
  <2>2. mark.attempts \in 0 .. MaxAttempts /\ (status = "failed" => mark.attempts + 1 \in 0 .. MaxAttempts)
    BY <1>1, <1>3 DEF IInv, ClaimPlaced
  <2> QED
    BY <1>1, <2>1, <2>2 DEF Moved, MarkStatuses, ClaimPlaced
<1> QED
  BY <1>2, <1>3

(* An executor that starts, stops or changes its step before or after its  *)
(* work leaves the mark and the job as they are.                           *)
LEMMA OutsideWork ==
    ASSUME IInv, NEW e \in Executors, NEW x \in Exec0,
           exec' = [exec EXCEPT ![e] = x], x.at \in {"idle", "barrier", "mark", "claim"},
           UNCHANGED <<mark, left, writing, confirmed>>, widowed' \in BOOLEAN,
           widowed' = widowed \/ widowed' = TRUE,
           mark.claim = e => widowed' \/ ~AtWork(e)
    PROVE  IInv'
<1>1. /\ exec' \in [Executors -> Exec0] /\ exec'[e] = x
      /\ \A d \in Executors : d # e => exec'[d] = exec[d]
  BY ExecUpdate DEF IInv
<1>2. TypeOK' /\ ClaimPlaced'
  BY <1>1 DEF IInv, TypeOK, Exec0, ClaimPlaced
<1>3. StepsDone'
  BY <1>1 DEF IInv, StepsDone
<1>4. NobodyUnbarred'
  BY <1>1 DEF IInv, NobodyUnbarred, AtWork
<1>5. ClaimIsHeld'
  BY <1>1, <1>2 DEF IInv, ClaimIsHeld, AtWork, TypeOK
<1>6. ConfirmedMeansGone'
  BY DEF IInv, ConfirmedMeansGone
<1> QED
  BY <1>2, <1>3, <1>4, <1>5, <1>6 DEF IInv

(* An executor goes to work on a job that is barred: on the claim it has   *)
(* just drawn, or without one.                                             *)
LEMMA IntoWork ==
    ASSUME IInv, NEW e \in Executors, NEW x \in Exec0, exec[e].at \in {"mark", "claim"},
           exec' = [exec EXCEPT ![e] = x], x.at \in {"queue", "results"},
           UNCHANGED <<left, writing, confirmed>>,
           \/ /\ mark.status = "none" /\ mark' = [status |-> "pending", claim |-> e, attempts |-> 0]
              /\ x.owns /\ widowed' = FALSE
           \/ /\ claimable /\ mark' = [mark EXCEPT !.claim = e]
              /\ x.owns /\ widowed' = FALSE
           \/ mark.status # "none" /\ mark' = mark /\ widowed' = widowed
    PROVE  IInv'
<1>1. /\ exec' \in [Executors -> Exec0] /\ exec'[e] = x
      /\ \A d \in Executors : d # e => exec'[d] = exec[d]
  BY ExecUpdate DEF IInv
<1>2. mark \in [status : MarkStatuses, claim : Executors \cup {NoClaim}, attempts : 0 .. MaxAttempts]
      /\ widowed' \in BOOLEAN
  BY DEF IInv, TypeOK
<1>3. /\ mark' \in [status : MarkStatuses, claim : Executors \cup {NoClaim}, attempts : 0 .. MaxAttempts]
      /\ mark'.status = mark.status \/ (mark.status = "none" /\ mark'.status = "pending")
      /\ mark'.status # "none"
      /\ ClaimPlaced'
      /\ mark' = mark \/ mark'.claim = e
  BY <1>2 DEF claimable, MarkStatuses, IInv, ClaimPlaced
<1>4. TypeOK'
  BY <1>1, <1>2, <1>3 DEF IInv, TypeOK, Exec0
<1>5. StepsDone'
  BY <1>1 DEF IInv, StepsDone
<1>6. NobodyUnbarred'
  BY <1>3 DEF NobodyUnbarred
<1>7. ClaimIsHeld'
  <2>1. CASE mark' = mark
    BY <1>1, <2>1 DEF IInv, ClaimIsHeld, AtWork, claimable
  <2>2. CASE mark' # mark
    BY <1>1, <1>3, <2>2 DEF ClaimIsHeld, AtWork
  <2> QED
    BY <2>1, <2>2
<1>8. ConfirmedMeansGone'
  BY <1>3 DEF IInv, ConfirmedMeansGone
<1> QED
  BY <1>3, <1>4, <1>5, <1>6, <1>7, <1>8 DEF IInv

LEMMA AskIInv == ASSUME IInv, NEW e \in Executors, Ask(e) PROVE IInv'
<1>1. PICK step \in {"barrier", "mark"} : exec' = [exec EXCEPT ![e] = [ExecIdle EXCEPT !.at = step]]
  BY DEF Ask, AskReplica, AskSweeper, AskCleaner
<1>2. \E x \in Exec0 : exec' = [exec EXCEPT ![e] = x] /\ x.at \in {"barrier", "mark"}
  <2>1. step \in ExecSteps
    BY DEF ExecSteps
  <2>2. [ExecIdle EXCEPT !.at = step] \in Exec0 /\ [ExecIdle EXCEPT !.at = step].at = step
    BY <2>1, IdleExec
  <2> QED
    BY <1>1, <2>2
<1>3. ~AtWork(e) /\ UNCHANGED <<mark, left, writing, widowed, confirmed>>
  BY DEF Ask, AtWork
<1> QED
  BY <1>2, <1>3, OutsideWork DEF IInv, TypeOK

LEMMA BarrierIInv == ASSUME IInv, NEW e \in Executors, Barrier(e) PROVE IInv'
<1>1. ~AtWork(e) /\ UNCHANGED <<mark, left, writing, widowed, confirmed>>
  BY DEF Barrier, AtWork
<1>2. \E x \in Exec0 : exec' = [exec EXCEPT ![e] = x] /\ x.at \in {"idle", "mark"}
  BY IdleExec, ExecToUpdate DEF Barrier, Finish, ExecSteps, IInv
<1> QED
  BY <1>1, <1>2, OutsideWork DEF IInv, TypeOK

LEMMA BeganUpdate ==
    ASSUME NEW e \in Executors, Began(e)
    PROVE  /\ \E x \in Exec0 : exec' = [exec EXCEPT ![e] = x] /\ x.at \in {"queue", "results"} /\ x.owns
           /\ widowed' = FALSE
BY IdleExec DEF Began, FirstStep, ExecSteps

LEMMA MarkIInv == ASSUME IInv, NEW e \in Executors, Mark(e) PROVE IInv'
<1>1. exec[e].at = "mark" /\ ~AtWork(e) /\ UNCHANGED <<left, writing, confirmed>> /\ widowed \in BOOLEAN
  BY DEF Mark, AtWork, IInv, TypeOK
<1>2. CASE mark.status = "none"
  <2>1. mark' = [status |-> "pending", claim |-> e, attempts |-> 0] /\ Began(e)
    BY <1>2 DEF Mark
  <2> QED
    BY <1>1, <1>2, <2>1, BeganUpdate, IntoWork
<1>3. CASE mark.status # "none" /\ (ExecTo(e, "claim") \/ Finish(e))
  <2>1. \E x \in Exec0 : exec' = [exec EXCEPT ![e] = x] /\ x.at \in {"idle", "claim"}
    BY <1>3, IdleExec, ExecToUpdate DEF Finish, ExecSteps, IInv
  <2>2. UNCHANGED <<mark, widowed>>
    BY <1>3 DEF Mark
  <2> QED
    BY <1>1, <2>1, <2>2, OutsideWork
<1>4. CASE mark.status # "none" /\ ExecTo(e, FirstStep(e))
  <2>1. FirstStep(e) \in {"queue", "results"} /\ FirstStep(e) \in ExecSteps
    BY DEF FirstStep, ExecSteps
  <2>2. \E x \in Exec0 : exec' = [exec EXCEPT ![e] = x] /\ x.at \in {"queue", "results"}
    BY <1>4, <2>1, ExecToUpdate DEF IInv
  <2>3. UNCHANGED <<mark, widowed>>
    BY <1>4 DEF Mark
  <2> QED
    BY <1>1, <1>4, <2>2, <2>3, IntoWork
<1> QED
  BY <1>2, <1>3, <1>4 DEF Mark

LEMMA ClaimIInv == ASSUME IInv, NEW e \in Executors, Claim(e) PROVE IInv'
<1>1. exec[e].at = "claim" /\ ~AtWork(e) /\ UNCHANGED <<left, writing, confirmed>> /\ widowed \in BOOLEAN
  BY DEF Claim, AtWork, IInv, TypeOK
<1>2. CASE claimable
  <2>1. mark' = [mark EXCEPT !.claim = e] /\ Began(e)
    BY <1>2 DEF Claim
  <2> QED
    BY <1>1, <1>2, <2>1, BeganUpdate, IntoWork
<1>3. CASE ~claimable
  <2>1. UNCHANGED <<mark, widowed>> /\ exec' = [exec EXCEPT ![e] = ExecIdle]
    BY <1>3 DEF Claim, Finish
  <2> QED
    BY <1>1, <2>1, IdleExec, OutsideWork
<1> QED
  BY <1>2, <1>3

LEMMA EraseItemIInv == ASSUME IInv, NEW e \in Executors, EraseItem(e) PROVE IInv'
<1>1. TypeOK'
  BY DEF IInv, TypeOK, ClaimPlaced, MarkStatuses, ExecSteps, Items, EraseItem, ExecTo, After
<1>2. StepsDone'
  BY DEF IInv, TypeOK, StepsDone, EraseItem, ExecTo, After
<1>3. ClaimPlaced'
  BY DEF IInv, TypeOK, ClaimPlaced, EraseItem, ExecTo, After
<1>4. NobodyUnbarred'
  BY DEF IInv, TypeOK, NobodyUnbarred, AtWork, EraseItem, ExecTo, After
<1>5. ClaimIsHeld'
  BY DEF IInv, TypeOK, ClaimIsHeld, AtWork, EraseItem, ExecTo, After
<1>6. ConfirmedMeansGone'
  BY DEF IInv, TypeOK, ConfirmedMeansGone, StepsDone, Content, EraseItem, ExecTo, After
<1> QED
  BY <1>1, <1>2, <1>3, <1>4, <1>5, <1>6 DEF IInv

LEMMA SkipRecordIInv == ASSUME IInv, NEW e \in Executors, SkipRecord(e) PROVE IInv'
<1>1. TypeOK'
  BY DEF IInv, TypeOK, ClaimPlaced, MarkStatuses, ExecSteps, Items, SkipRecord, ExecTo
<1>2. StepsDone'
  BY DEF IInv, TypeOK, StepsDone, SkipRecord, ExecTo
<1>3. ClaimPlaced'
  BY DEF IInv, TypeOK, ClaimPlaced, SkipRecord, ExecTo
<1>4. NobodyUnbarred'
  BY DEF IInv, TypeOK, NobodyUnbarred, AtWork, SkipRecord, ExecTo
<1>5. ClaimIsHeld'
  BY DEF IInv, TypeOK, ClaimIsHeld, AtWork, SkipRecord, ExecTo
<1>6. ConfirmedMeansGone'
  BY DEF IInv, TypeOK, ConfirmedMeansGone, StepsDone, Content, SkipRecord, ExecTo
<1> QED
  BY <1>1, <1>2, <1>3, <1>4, <1>5, <1>6 DEF IInv

LEMMA EraseRecordIInv == ASSUME IInv, NEW e \in Executors, EraseRecord(e) PROVE IInv'
<1>1. TypeOK'
  BY DEF IInv, TypeOK, ClaimPlaced, MarkStatuses, ExecSteps, Items, EraseRecord, CountsRefusal
<1>2. StepsDone'
  BY DEF IInv, TypeOK, StepsDone, EraseRecord, CountsRefusal
<1>3. ClaimPlaced'
  BY DEF IInv, TypeOK, ClaimPlaced, EraseRecord, CountsRefusal
<1>4. NobodyUnbarred'
  BY DEF IInv, TypeOK, NobodyUnbarred, AtWork, EraseRecord, CountsRefusal
<1>5. ClaimIsHeld'
  BY DEF IInv, TypeOK, ClaimIsHeld, AtWork, EraseRecord, CountsRefusal
<1>6. ConfirmedMeansGone'
  BY DEF IInv, TypeOK, ConfirmedMeansGone, StepsDone, Content, EraseRecord, CountsRefusal
<1> QED
  BY <1>1, <1>2, <1>3, <1>4, <1>5, <1>6 DEF IInv

(* A transition of the mark ends every claim.                              *)
LEMMA MarkMoves ==
    ASSUME IInv, NEW from \in SUBSET {"pending", "failed"}, NEW status \in {"pending", "failed", "deleted"},
           NEW by, transition(from, status, by), UNCHANGED <<left, writing, widowed>>,
           exec' \in [Executors -> Exec0], StepsDone',
           \A d \in Executors : AtWork(d)' => AtWork(d),
           by \in {"operator"} \cup Executors,
           status = "pending" => from = {"failed"} /\ mark.attempts < MaxAttempts,
           status = "failed" => from = {"pending"},
           (status = "deleted" /\ by \in Executors \ Sweepers) => left \cap Content = {},
           (mark' = mark /\ mark.status = "pending" /\ mark.claim # NoClaim)
              => (exec'[mark.claim].owns /\ AtWork(mark.claim)') \/ widowed
    PROVE  IInv'
<1>1. /\ mark' = mark \/ mark'.claim = NoClaim
      /\ mark' \in [status : MarkStatuses, claim : Executors \cup {NoClaim}, attempts : 0 .. MaxAttempts]
      /\ ClaimPlaced'
      /\ mark.status # "none" => mark'.status # "none"
      /\ mark' = mark \/ mark'.status = status
  BY TransitionMark
<1>2. confirmed' = confirmed \/ (confirmed' = by /\ status = "deleted")
  BY DEF transition
<1>3. TypeOK'
  BY <1>1, <1>2 DEF IInv, TypeOK, Exec0
<1>4. NobodyUnbarred'
  BY <1>1 DEF IInv, NobodyUnbarred
<1>5. ClaimIsHeld'
  BY <1>1 DEF ClaimIsHeld
<1>6. ConfirmedMeansGone'
  <2>1. CASE mark.status \in from
    BY <1>1, <2>1 DEF IInv, ConfirmedMeansGone, transition, Moved
  <2>2. CASE mark.status \notin from
    BY <2>2 DEF IInv, ConfirmedMeansGone, transition
  <2> QED
    BY <2>1, <2>2
<1> QED
  BY <1>1, <1>3, <1>4, <1>5, <1>6 DEF IInv

LEMMA CompleteIInv == ASSUME IInv, NEW e \in Executors, Complete(e) PROVE IInv'
<1> DEFINE status == IF exec[e].critical THEN "failed" ELSE "deleted"
<1>1. /\ exec[e].at = "complete" /\ exec' = [exec EXCEPT ![e] = ExecIdle]
      /\ UNCHANGED <<left, writing, widowed>>
      /\ transition({"pending"}, status, e)
  BY DEF Complete, Finish, complete, allowedSources
<1>2. /\ exec' \in [Executors -> Exec0] /\ exec'[e] = ExecIdle
      /\ \A d \in Executors : d # e => exec'[d] = exec[d]
  BY <1>1, IdleExec, ExecUpdate DEF IInv
<1>3. StepsDone' /\ \A d \in Executors : AtWork(d)' => AtWork(d)
  BY <1>1, <1>2, IdleExec DEF IInv, StepsDone, AtWork
<1>4. (status = "deleted" /\ e \in Executors \ Sweepers) => left \cap Content = {}
  BY <1>1 DEF IInv, StepsDone, Content
<1>5. mark' # mark \/ mark.status # "pending"
  BY <1>1 DEF transition, Moved
<1> HIDE DEF status
<1>6. status \in {"failed", "deleted"}
  BY DEF status
<1> QED
  BY <1>1, <1>2, <1>3, <1>4, <1>5, <1>6, MarkMoves

LEMMA AuditIInv == ASSUME IInv, NEW e \in Executors, Audit(e) PROVE IInv'
<1>1. exec[e].at = "audit" /\ UNCHANGED <<left, writing, widowed>>
  BY DEF Audit
<1>2. CASE ExecTo(e, "complete") /\ UNCHANGED <<mark, confirmed>>
  <2>1. PICK x \in Exec0 : /\ exec' = [exec EXCEPT ![e] = x]
                           /\ x.at = "complete" /\ x.owns = exec[e].owns /\ x.critical = exec[e].critical
    BY <1>2, ExecToUpdate DEF IInv, ExecSteps
  <2>2. /\ exec' \in [Executors -> Exec0] /\ exec'[e] = x
        /\ \A d \in Executors : d # e => exec'[d] = exec[d]
    BY <2>1, ExecUpdate DEF IInv
  <2>3. TypeOK' /\ ClaimPlaced'
    BY <1>1, <1>2, <2>2 DEF IInv, TypeOK, Exec0, ClaimPlaced
  <2>4. StepsDone'
    BY <1>1, <2>1, <2>2 DEF IInv, StepsDone
  <2>5. NobodyUnbarred' /\ ClaimIsHeld'
    BY <1>1, <1>2, <2>1, <2>2 DEF IInv, NobodyUnbarred, ClaimIsHeld, AtWork
  <2>6. ConfirmedMeansGone'
    BY <1>1, <1>2 DEF IInv, ConfirmedMeansGone
  <2> QED
    BY <2>3, <2>4, <2>5, <2>6 DEF IInv
<1>3. CASE GiveUp(e) /\ Finish(e)
  <2>1. /\ exec' \in [Executors -> Exec0] /\ exec'[e] = ExecIdle
        /\ \A d \in Executors : d # e => exec'[d] = exec[d]
    BY <1>3, IdleExec, ExecUpdate DEF Finish, IInv
  <2>2. StepsDone' /\ \A d \in Executors : AtWork(d)' => AtWork(d)
    BY <1>1, <2>1, IdleExec DEF IInv, StepsDone, AtWork
  <2>3. CASE exec[e].owns
    <3>1. transition({"pending"}, "failed", e)
      BY <1>3, <2>3 DEF GiveUp, complete, allowedSources
    <3>2. mark' # mark \/ mark.status # "pending"
      BY <3>1 DEF transition, Moved
    <3> QED
      BY <1>1, <2>1, <2>2, <3>1, <3>2, MarkMoves
  <2>4. CASE ~exec[e].owns
    <3>1. UNCHANGED <<mark, confirmed>>
      BY <1>3, <2>4 DEF GiveUp
    <3>2. TypeOK' /\ ClaimPlaced'
      BY <1>1, <2>1, <3>1 DEF IInv, TypeOK, Exec0, ClaimPlaced
    <3>3. NobodyUnbarred'
      BY <2>2, <3>1 DEF IInv, NobodyUnbarred
    <3>5. ClaimIsHeld'
      <4>1. ASSUME mark.status = "pending", mark.claim # NoClaim
            PROVE  \/ exec'[mark.claim].owns /\ exec'[mark.claim] = exec[mark.claim]
                   \/ widowed
        <5>1. CASE ~widowed
          <6>1. mark.claim \in Executors /\ exec[mark.claim].owns
            BY <4>1, <5>1 DEF IInv, TypeOK, ClaimIsHeld
          <6>2. mark.claim # e
            BY <2>4, <6>1
          <6> QED
            BY <2>1, <6>1, <6>2
        <5> QED
          BY <5>1
      <4> QED
        BY <1>1, <3>1, <4>1 DEF IInv, ClaimIsHeld, AtWork
    <3>4. ConfirmedMeansGone'
      BY <1>1, <3>1 DEF IInv, ConfirmedMeansGone
    <3> QED
      BY <2>2, <3>2, <3>3, <3>4, <3>5 DEF IInv
  <2> QED
    BY <2>3, <2>4
<1> QED
  BY <1>2, <1>3 DEF Audit

LEMMA CrashIInv == ASSUME IInv, NEW e \in Executors, Crash(e) PROVE IInv'
<1>1. /\ exec' = [exec EXCEPT ![e] = ExecIdle] /\ widowed' = (widowed \/ mark.claim = e)
      /\ UNCHANGED <<mark, left, writing, confirmed>> /\ widowed \in BOOLEAN
  BY DEF Crash, Finish, IInv, TypeOK
<1> QED
  BY <1>1, IdleExec, OutsideWork

(* The steps of the operator.                                              *)
LEMMA OperatorIInv == ASSUME IInv, Retry \/ Release \/ ForceResolve PROVE IInv'
<1>1. /\ UNCHANGED <<left, writing, exec, widowed>>
      /\ \/ transition({"failed"}, "pending", "operator") /\ mark.status = "failed" /\ mark.attempts < MaxAttempts
         \/ transition({"pending"}, "failed", "operator") /\ mark.status = "pending"
         \/ transition({"pending", "failed"}, "deleted", "operator") /\ mark.status \in {"pending", "failed"}
  BY DEF Retry, Release, ForceResolve
<1>2. exec' \in [Executors -> Exec0] /\ StepsDone' /\ \A d \in Executors : AtWork(d)' => AtWork(d)
  BY <1>1 DEF IInv, TypeOK, Exec0, StepsDone, AtWork
<1>3. mark' = mark => ~ (mark.status = "pending" /\ mark.claim # NoClaim)
  BY <1>1 DEF transition, Moved
<1>4. CASE transition({"failed"}, "pending", "operator") /\ mark.attempts < MaxAttempts
  BY <1>1, <1>2, <1>3, <1>4, MarkMoves
<1>5. CASE transition({"pending"}, "failed", "operator")
  BY <1>1, <1>2, <1>3, <1>5, MarkMoves
<1>6. CASE transition({"pending", "failed"}, "deleted", "operator")
  BY <1>1, <1>2, <1>3, <1>6, MarkMoves
<1> QED
  BY <1>1, <1>4, <1>5, <1>6

LEMMA QuietIInv == ASSUME IInv, AttemptEnds \/ Purge \/ UNCHANGED vars PROVE IInv'
<1>1. CASE AttemptEnds \/ UNCHANGED vars
  BY <1>1 DEF AttemptEnds, vars, IInv, TypeOK, StepsDone, ClaimPlaced, NobodyUnbarred, ClaimIsHeld,
              ConfirmedMeansGone, AtWork
<1>2. CASE Purge
  <2>1. /\ mark' = [status |-> "none", claim |-> NoClaim, attempts |-> 0] /\ confirmed' = "nobody"
        /\ UNCHANGED <<left, writing, exec, widowed>> /\ \A e \in Executors : ~AtWork(e)
    BY <1>2 DEF Purge, NoMark, AtWork
  <2>2. mark' \in [status : MarkStatuses, claim : Executors \cup {NoClaim}, attempts : 0 .. MaxAttempts]
    BY <2>1 DEF MarkStatuses
  <2>3. TypeOK' /\ ClaimPlaced' /\ StepsDone'
    BY <2>1, <2>2 DEF IInv, TypeOK, ClaimPlaced, StepsDone
  <2>4. NobodyUnbarred' /\ ClaimIsHeld' /\ ConfirmedMeansGone'
    BY <2>1 DEF NobodyUnbarred, ClaimIsHeld, ConfirmedMeansGone, AtWork
  <2> QED
    BY <2>3, <2>4 DEF IInv
<1> QED
  BY <1>1, <1>2

LEMMA IInvInductive == IInv /\ [Next]_vars => IInv'
BY AskIInv, BarrierIInv, MarkIInv, ClaimIInv, EraseItemIInv, SkipRecordIInv, EraseRecordIInv,
   AuditIInv, CompleteIInv, CrashIInv, OperatorIInv, QuietIInv DEF Next, ExecStep

LEMMA IInvAlways == Spec => []IInv
BY InitIInv, IInvInductive, PTL DEF Spec

-----------------------------------------------------------------------------
(* The mark, its counter and every executor keep their types.              *)
THEOREM TypeCorrect == Spec => []TypeOK
<1>1. IInv => TypeOK
  BY DEF IInv
<1> QED
  BY <1>1, IInvAlways, PTL

(* A confirmed erasure has erased, whichever replica or cleaner confirmed  *)
(* it and whatever its rivals did meanwhile.                               *)
THEOREM ConfirmationIsTrue == Spec => []ConfirmedMeansGone
<1>1. IInv => ConfirmedMeansGone
  BY DEF IInv
<1> QED
  BY <1>1, IInvAlways, PTL

(* No claim is left behind by anything but a crash.                        *)
THEOREM ClaimsAreHeld == Spec => []ClaimIsHeld
<1>1. IInv => ClaimIsHeld
  BY DEF IInv
<1> QED
  BY <1>1, IInvAlways, PTL

(* Nothing is removed before the job is barred.                            *)
THEOREM MarkComesFirst == Spec => BarredBeforeErased
<1>1. ASSUME IInv, Next PROVE left' # left => mark.status # "none"
  <2>1. ASSUME NEW e \in Executors, Ask(e) \/ ExecStep(e) \/ Crash(e), left' # left PROVE AtWork(e)
    BY <2>1 DEF Ask, ExecStep, Crash, Barrier, Mark, Claim, EraseItem, SkipRecord, EraseRecord, Audit,
                Complete, AtWork
  <2> QED
    BY <1>1, <2>1 DEF Next, Retry, Release, ForceResolve, AttemptEnds, Purge, IInv, NobodyUnbarred
<1>2. IInv /\ [Next]_vars => [left' # left => mark.status # "none"]_vars
  BY <1>1
<1> QED
  BY <1>2, IInvAlways, PTL DEF Spec, BarredBeforeErased

(* No claim is taken over.                                                 *)
THEOREM ClaimsAreNotStolen == Spec => ClaimNeverStolen
<1> DEFINE Kept == (mark.claim # NoClaim /\ mark'.claim # mark.claim) => mark'.claim = NoClaim
<1>1. ASSUME IInv, Next PROVE Kept
  <2>1. ASSUME NEW from, NEW status, NEW by, transition(from, status, by) PROVE Kept
    BY <2>1 DEF transition, Moved
  <2>2. ASSUME NEW e \in Executors, Mark(e) \/ Claim(e) PROVE Kept
    BY <1>1, <2>2 DEF Mark, Claim, claimable, IInv, ClaimPlaced
  <2>3. ASSUME NEW e \in Executors,
               Ask(e) \/ Barrier(e) \/ EraseItem(e) \/ SkipRecord(e) \/ EraseRecord(e) \/ Crash(e)
        PROVE  Kept
    BY <2>3 DEF Ask, Barrier, EraseItem, SkipRecord, EraseRecord, Crash
  <2>4. ASSUME NEW e \in Executors, Audit(e) \/ Complete(e) PROVE Kept
    BY <2>1, <2>4 DEF Audit, Complete, GiveUp, complete
  <2>5. CASE Retry \/ Release \/ ForceResolve
    BY <2>1, <2>5 DEF Retry, Release, ForceResolve
  <2>6. CASE AttemptEnds \/ Purge
    BY <2>6 DEF AttemptEnds, Purge, NoMark
  <2> QED
    BY <1>1, <2>2, <2>3, <2>4, <2>5, <2>6 DEF Next, ExecStep
<1>2. IInv /\ [Next]_vars => [Kept]_vars
  BY <1>1
<1> QED
  BY <1>2, IInvAlways, PTL DEF Spec, ClaimNeverStolen

-----------------------------------------------------------------------------
(* Copies and recoveries (DisasterRecovery), for any number of jobs,       *)
(* copies and disasters.                                                   *)

HIDE AttemptsAssumption
HIDE KindsAssumption DEF Executors

Mark0 == [status : Statuses, at : 0 .. MaxNow]
Copies0 == [kind : {"none", "dump", "backup"}, db : DB, at : 0 .. MaxNow, n : 0 .. MaxCopies]
Dump0 == [db : DB, expires : Nat]
Backup0 == [jobs : SUBSET Jobs, expires : Nat]
Ledger0 == [made : BOOLEAN, mark : Marks, horizon : Nat, at : 0 .. MaxNow]
DrSteps == {"live", "down", "merge", "horizon", "replay", "closing", "replayed", "reconciled", "verified"}
Dr0 == [at : DrSteps, todo : SUBSET Jobs, bad : SUBSET Jobs, job : Jobs \cup {NoJob}, found : BOOLEAN]

LEMMA FirstValues ==
    /\ FirstDB \in DB /\ NoDump \in Dump0 /\ NoBackup \in Backup0 /\ NoLedger \in Ledger0
    /\ \A n \in 0 .. MaxCopies : NoCopy(n) \in Copies0
    /\ \A step \in DrSteps : DrAt(step) \in Dr0
    /\ Unmarked \in Mark0
<1>1. Unmarked \in Mark0 /\ [j \in Jobs |-> Unmarked] \in Marks
  BY RecoveryConstants DEF Unmarked, Marks, Mark0, Statuses
<1>2. FirstDB \in DB
  BY <1>1 DEF FirstDB, DB
<1>3. NoDump \in Dump0 /\ NoBackup \in Backup0 /\ NoLedger \in Ledger0
  BY <1>1, <1>2, RecoveryConstants DEF NoDump, NoBackup, NoLedger, Dump0, Backup0, Ledger0
<1>4. \A n \in 0 .. MaxCopies : NoCopy(n) \in Copies0
  BY <1>2, RecoveryConstants DEF NoCopy, Copies0
<1>5. \A step \in DrSteps : DrAt(step) \in Dr0
  BY DEF DrAt, Dr0
<1> QED BY <1>1, <1>2, <1>3, <1>4, <1>5

(* What a change of one field of the database is.                          *)
LEMMA DbMark ==
    ASSUME db \in DB, NEW j \in Jobs, NEW m \in Mark0, db' = [db EXCEPT !.mark[j] = m]
    PROVE  /\ db' \in DB /\ db'.rec = db.rec /\ db'.sessions = db.sessions
           /\ db'.mark[j] = m /\ \A k \in Jobs \ {j} : db'.mark[k] = db.mark[k]
BY DEF DB, Marks, Mark0

LEMMA DbRec ==
    ASSUME db \in DB, NEW j \in Jobs, NEW v \in {"none", "active", "done"},
           db' = [db EXCEPT !.rec[j] = v]
    PROVE  /\ db' \in DB /\ db'.mark = db.mark /\ db'.sessions = db.sessions
           /\ db'.rec[j] = v /\ \A k \in Jobs \ {j} : db'.rec[k] = db.rec[k]
BY DEF DB

LEMMA DbHorizon ==
    ASSUME db \in DB, NEW at \in Nat, recordBackupHorizon(at)
    PROVE  /\ db' \in DB /\ db'.mark = db.mark /\ db'.rec = db.rec
           /\ db'.sessions = db.sessions
BY DEF DB, recordBackupHorizon, Larger

(* A database with a terminal mark has no record, and without a record     *)
(* there is no object: in the live database, in the dump and in the copy.  *)
Whole(d) == \A j \in Jobs :
    /\ d.mark[j].status = "deleted" => d.rec[j] = "none"
    /\ d.rec[j] = "none" => j \notin objects

DatabasesWhole ==
    /\ Live => Whole(db)
    /\ Whole(dump.db) /\ Whole(copy.db)
    /\ \A j \in Jobs : dump.db.rec[j] = "none" \/ copy.db.rec[j] = "none" => db.rec[j] # "active"

(* During a recovery: terminal marks the ledger does not list, and         *)
(* objects.                                                                *)
RecoveryReaches ==
    ~ Live => \A j \in Jobs :
        /\ j \notin Listed /\ db.mark[j].status = "deleted" => db.rec[j] = "none"
        /\ db.rec[j] = "none" => j \notin objects

(* How far a recovery has come with what the ledger lists.                 *)
Merged == {"replay", "closing", "replayed", "reconciled", "verified"}
Replayed == {"replayed", "reconciled", "verified"}

RecoverySteps ==
    /\ dr.at = "closing" => dr.job \in Listed /\ dr.job \in dr.todo /\ db.rec[dr.job] = "none"
    /\ dr.at = "merge" => \A j \in Listed \ dr.todo : db.mark[j].status # "none"
    /\ dr.at \in Merged => \A j \in Listed :
          /\ db.mark[j].status # "none"
          /\ j \in dr.todo \/ j \in dr.bad \/ db.rec[j] = "none"
    /\ dr.at \in Replayed => dr.todo = {} /\ dr.bad = {}
    /\ dr.at \in {"merge", "replay", "closing"} => dr.todo \subseteq Listed
    /\ dr.at = "verified" => \A j \in Jobs : db.mark[j].status \in {"none", "deleted"}

DataInv == RecoveryTypeOK /\ DatabasesWhole /\ RecoveryReaches /\ RecoverySteps

LEMMA DataInit == RecoveryInit => DataInv
<1> SUFFICES ASSUME RecoveryInit PROVE DataInv
  OBVIOUS
<1> USE DEF RecoveryInit
<1>1. RecoveryTypeOK
  <2>1. DrAt("live") \in Dr0 /\ NoCopy(0) \in Copies0
    BY FirstValues, RecoveryConstants DEF DrSteps
  <2>2. now \in 0 .. MaxNow /\ faults \in 0 .. MaxFaults /\ erasedAt \in [Jobs -> 0 .. Never]
    BY RecoveryConstants DEF Never
  <2> QED BY <2>1, <2>2, FirstValues
       DEF RecoveryTypeOK, Copies0, Dump0, Backup0, Ledger0, Dr0, DrSteps
<1>2. /\ db.rec = [j \in Jobs |-> "active"] /\ dump.db = db /\ copy.db = db
      /\ db.mark = [j \in Jobs |-> Unmarked]
  BY DEF FirstDB, NoDump, NoCopy
<1>3. DatabasesWhole
  BY <1>2 DEF DatabasesWhole, Whole, Unmarked
<1>4. RecoveryReaches /\ RecoverySteps
  BY DEF RecoveryReaches, RecoverySteps, Live, DrAt, Merged, Replayed
<1> QED BY <1>1, <1>3, <1>4 DEF DataInv

(* While the system is live and stays so, only the databases count.        *)
LEMMA LiveData ==
    ASSUME Live, dr' = dr, RecoveryTypeOK', DatabasesWhole'
    PROVE  DataInv'
BY DEF DataInv, RecoveryReaches, RecoverySteps, Live, Merged, Replayed

LEMMA FinishData == ASSUME DataInv, NEW j \in Jobs, FinishJob(j) PROVE DataInv'
<1> USE DEF FinishJob, NoFault, settings, copies
<1>1. db \in DB /\ RecoveryTypeOK
  BY DEF DataInv, RecoveryTypeOK
<1>2. /\ db' \in DB /\ db'.mark = db.mark /\ db'.rec[j] = "done"
      /\ \A k \in Jobs \ {j} : db'.rec[k] = db.rec[k]
  BY <1>1, DbRec
<1>3. RecoveryTypeOK'
  BY <1>1, <1>2 DEF RecoveryTypeOK
<1>4. DatabasesWhole'
  BY <1>2 DEF DataInv, DatabasesWhole, Whole, Live
<1> QED BY <1>3, <1>4, LiveData

LEMMA MarkingData ==
    ASSUME DataInv, Live, NEW j \in Jobs, NEW status \in Statuses, SetMark(j, status),
           status = "deleted" => db.rec[j] = "none",
           UNCHANGED <<settings, objects, copies, ledger, horizon, dr>>,
           faults' \in 0 .. MaxFaults, erasedAt' \in [Jobs -> 0 .. Never]
    PROVE  DataInv'
<1> DEFINE m == [status |-> status, at |-> now]
<1>1. db \in DB /\ RecoveryTypeOK /\ m \in Mark0 /\ m.status = status
  BY DEF DataInv, RecoveryTypeOK, Mark0
<1>2. db' = [db EXCEPT !.mark[j] = m]
  BY DEF SetMark
<1> HIDE DEF m
<1>3. /\ db' \in DB /\ db'.rec = db.rec /\ db'.mark[j] = m
      /\ \A k \in Jobs \ {j} : db'.mark[k] = db.mark[k]
  BY <1>1, <1>2, DbMark
<1>4. RecoveryTypeOK'
  BY <1>1, <1>3 DEF RecoveryTypeOK, settings, copies
<1>5. DatabasesWhole'
  BY <1>1, <1>3 DEF DataInv, DatabasesWhole, Whole, Live, copies
<1> QED BY <1>4, <1>5, LiveData

LEMMA FaultCount == RecoveryTypeOK /\ (Fault \/ NoFault) => faults' \in 0 .. MaxFaults
BY RecoveryConstants DEF RecoveryTypeOK, Fault, NoFault

LEMMA MarkData == ASSUME DataInv, NEW j \in Jobs, MarkJob(j) \/ EraseFails(j) PROVE DataInv'
<1>1. faults' \in 0 .. MaxFaults /\ erasedAt' \in [Jobs -> 0 .. Never]
  BY FaultCount DEF DataInv, RecoveryTypeOK, MarkJob, EraseFails
<1>2. CASE MarkJob(j)
  BY <1>1, <1>2, MarkingData DEF MarkJob, Statuses
<1>3. CASE EraseFails(j)
  BY <1>1, <1>3, MarkingData DEF EraseFails, Statuses
<1> QED BY <1>2, <1>3

LEMMA ConfirmData == ASSUME DataInv, NEW j \in Jobs, Confirm(j) PROVE DataInv'
<1>1. faults' \in 0 .. MaxFaults /\ erasedAt' \in [Jobs -> 0 .. Never]
  BY FaultCount, RecoveryConstants DEF DataInv, RecoveryTypeOK, Confirm, Never
<1> QED BY <1>1, MarkingData DEF Confirm, Statuses

LEMMA EraseDataData == ASSUME DataInv, NEW j \in Jobs, EraseData(j) PROVE DataInv'
<1> USE DEF EraseData, NoFault, settings, copies
<1>1. db \in DB /\ RecoveryTypeOK
  BY DEF DataInv, RecoveryTypeOK
<1>2. /\ db' \in DB /\ db'.mark = db.mark /\ db'.rec[j] = "none"
      /\ \A k \in Jobs \ {j} : db'.rec[k] = db.rec[k]
  BY <1>1, DbRec
<1>3. RecoveryTypeOK'
  BY <1>1, <1>2 DEF RecoveryTypeOK
<1>4. DatabasesWhole'
  BY <1>2 DEF DataInv, DatabasesWhole, Whole, Live
<1> QED BY <1>3, <1>4, LiveData

LEMMA PurgeData ==
    ASSUME DataInv, NEW seen \in Nat, PurgeWith(seen), faults' \in 0 .. MaxFaults
    PROVE  DataInv'
<1> DEFINE stale == {j \in Jobs : /\ db.mark[j].status = "deleted"
                                  /\ db.mark[j].at + retentionMs(seen) < now}
<1>1. /\ Live /\ db' = [db EXCEPT !.mark = [j \in Jobs |-> IF j \in stale THEN Unmarked ELSE @[j]]]
      /\ horizon' = seen
      /\ UNCHANGED <<settings, objects, copies, ledger, dr, erasedAt>>
  BY DEF PurgeWith
<1> HIDE DEF stale
<1>2. db \in DB /\ RecoveryTypeOK
  BY DEF DataInv, RecoveryTypeOK
<1>3. /\ db' \in DB /\ db'.rec = db.rec
      /\ \A j \in Jobs : db'.mark[j] = Unmarked \/ db'.mark[j] = db.mark[j]
  BY <1>1, <1>2, FirstValues DEF DB, Marks, Mark0
<1>4. RecoveryTypeOK'
  BY <1>1, <1>2, <1>3 DEF RecoveryTypeOK, settings, copies
<1>5. DatabasesWhole'
  BY <1>1, <1>3 DEF DataInv, DatabasesWhole, Whole, Live, copies, Unmarked
<1> QED BY <1>1, <1>4, <1>5, LiveData

LEMMA PurgeMarksData == ASSUME DataInv, PurgeMarks PROVE DataInv'
<1>1. db.horizon \in Nat /\ horizon \in Nat /\ faults' \in 0 .. MaxFaults
  BY FaultCount DEF DataInv, RecoveryTypeOK, DB, PurgeMarks
<1> QED BY <1>1, PurgeData DEF PurgeMarks

LEMMA ClockData ==
    ASSUME DataInv, Day \/ (\E days \in Retentions : ChangeRetention(days)) \/ UNCHANGED recoveryVars
    PROVE  DataInv'
<1>1. UNCHANGED <<faults, db, objects, copy, dump, backup, ledger, horizon, dr, erasedAt>>
  BY DEF Day, ChangeRetention, copies, recoveryVars
<1>2. now' \in 0 .. MaxNow /\ retention' \in Retentions
  BY RecoveryConstants DEF DataInv, RecoveryTypeOK, Day, ChangeRetention, recoveryVars
<1>3. RecoveryTypeOK'
  BY <1>1, <1>2 DEF DataInv, RecoveryTypeOK
<1>4. DatabasesWhole' /\ RecoveryReaches' /\ RecoverySteps'
  BY <1>1 DEF DataInv, DatabasesWhole, Whole, RecoveryReaches, RecoverySteps, Listed, Live
<1> QED BY <1>3, <1>4 DEF DataInv

LEMMA CopyUpdate ==
    ASSUME RecoveryTypeOK, NEW kind \in {"dump", "backup"}, Snapshot(kind)
    PROVE  copy' \in Copies0 /\ copy'.db = db
BY RecoveryConstants DEF RecoveryTypeOK, Snapshot, Copies0

LEMMA SnapshotData ==
    ASSUME DataInv, NEW kind \in {"dump", "backup"}, Snapshot(kind)
    PROVE  DataInv'
<1>1. RecoveryTypeOK /\ faults' = faults /\ copy' \in Copies0 /\ copy'.db = db
  BY CopyUpdate DEF DataInv, Snapshot, NoFault
<1>2. RecoveryTypeOK'
  BY <1>1 DEF RecoveryTypeOK, Copies0, Dump0, Backup0, Ledger0, Snapshot, settings
<1>3. DatabasesWhole'
  BY <1>1 DEF DataInv, DatabasesWhole, Whole, Live, Snapshot
<1> QED BY <1>2, <1>3, LiveData DEF Snapshot

LEMMA NoCopyFields ==
    ASSUME RecoveryTypeOK, copy' = NoCopy(copy.n)
    PROVE  /\ copy' \in Copies0 /\ copy'.db = FirstDB /\ copy'.kind = "none"
           /\ \A j \in Jobs : FirstDB.rec[j] = "active" /\ FirstDB.mark[j].status = "none"
<1>1. copy.n \in 0 .. MaxCopies
  BY DEF RecoveryTypeOK
<1>2. copy' \in Copies0
  BY <1>1, FirstValues
<1>3. \A j \in Jobs : FirstDB.rec[j] = "active" /\ FirstDB.mark[j].status = "none"
  BY DEF FirstDB, Unmarked
<1> QED BY <1>2, <1>3 DEF NoCopy

LEMMA IssueDumpData == ASSUME DataInv, IssueDump \/ DumpFails PROVE DataInv'
<1>1. RecoveryTypeOK /\ faults' \in 0 .. MaxFaults
  BY FaultCount DEF DataInv, IssueDump, DumpFails
<1>2. /\ copy' \in Copies0 /\ copy'.db = FirstDB
      /\ \A j \in Jobs : FirstDB.rec[j] = "active" /\ FirstDB.mark[j].status = "none"
  BY <1>1, NoCopyFields DEF IssueDump, DumpFails
<1>3. CASE IssueDump
  <2>1. now + retention \in Nat
    BY <1>1, RecoveryConstants DEF RecoveryTypeOK
  <2>2. db' \in DB /\ db'.rec = db.rec /\ db'.mark = db.mark
    BY <1>1, <1>3, <2>1, DbHorizon DEF RecoveryTypeOK, IssueDump
  <2>3. dump' \in Dump0 /\ dump'.db = copy.db /\ horizon' \in Nat
    BY <1>1, <1>3, <2>1 DEF RecoveryTypeOK, IssueDump, Dump0, Larger
  <2>4. RecoveryTypeOK'
    BY <1>1, <1>2, <1>3, <2>2, <2>3 DEF RecoveryTypeOK, Copies0, Dump0, Backup0, Ledger0, IssueDump, settings
  <2>5. DatabasesWhole'
    BY <1>2, <1>3, <2>2, <2>3 DEF DataInv, DatabasesWhole, Whole, Live, IssueDump
  <2> QED BY <1>3, <2>4, <2>5, LiveData DEF IssueDump
<1>4. CASE DumpFails
  <2>1. RecoveryTypeOK'
    BY <1>1, <1>2, <1>4 DEF RecoveryTypeOK, Copies0, Dump0, Backup0, Ledger0, DumpFails, settings
  <2>2. DatabasesWhole'
    BY <1>2, <1>4 DEF DataInv, DatabasesWhole, Whole, Live, DumpFails
  <2> QED BY <1>4, <2>1, <2>2, LiveData DEF DumpFails
<1> QED BY <1>3, <1>4

LEMMA IssueBackupData == ASSUME DataInv, IssueBackup PROVE DataInv'
<1>1. RecoveryTypeOK /\ faults' \in 0 .. MaxFaults
  BY FaultCount DEF DataInv, IssueBackup
<1>2. /\ copy' \in Copies0 /\ copy'.db = FirstDB
      /\ \A j \in Jobs : FirstDB.rec[j] = "active" /\ FirstDB.mark[j].status = "none"
  BY <1>1, NoCopyFields DEF IssueBackup
<1>3. now + retention \in Nat
  BY <1>1, RecoveryConstants DEF RecoveryTypeOK
<1>4. db' \in DB /\ db'.rec = db.rec /\ db'.mark = db.mark /\ horizon' \in Nat
  BY <1>1, <1>3, DbHorizon DEF RecoveryTypeOK, IssueBackup, Larger
<1>5. backup' \in Backup0
  BY <1>3 DEF IssueBackup, Backup0
<1>6. RecoveryTypeOK'
  BY <1>1, <1>2, <1>4, <1>5 DEF RecoveryTypeOK, Copies0, Dump0, Backup0, Ledger0, IssueBackup, settings
<1>7. DatabasesWhole'
  BY <1>2, <1>4 DEF DataInv, DatabasesWhole, Whole, Live, IssueBackup
<1> QED BY <1>6, <1>7, LiveData DEF IssueBackup

(* A restore brings back no marked job, and what it brings back is done.   *)
LEMMA RestoredDb ==
    ASSUME RecoveryTypeOK, RestoreBackup
    PROVE  /\ db' \in DB /\ db'.mark = db.mark
           /\ \A j \in Jobs : \/ db'.rec[j] = db.rec[j]
                              \/ db'.rec[j] = "done" /\ j \in backup.jobs /\ db.mark[j].status = "none"
BY DEF RecoveryTypeOK, DB, RestoreBackup

LEMMA RestoreData == ASSUME DataInv, RestoreBackup PROVE DataInv'
<1>1. RecoveryTypeOK /\ faults' = faults
  BY DEF DataInv, RestoreBackup, NoFault
<1>2. RecoveryTypeOK'
  BY <1>1, RestoredDb DEF RecoveryTypeOK, RestoreBackup, settings, copies
<1>3. DatabasesWhole'
  BY <1>1, RestoredDb DEF DataInv, DatabasesWhole, Whole, Live, RestoreBackup, copies
<1> QED BY <1>2, <1>3, LiveData DEF RestoreBackup

LEMMA ExportData == ASSUME DataInv, Export PROVE DataInv'
<1>1. RecoveryTypeOK /\ faults' = faults
  BY DEF DataInv, Export, NoFault
<1>2. ledger' \in Ledger0
  BY <1>1 DEF RecoveryTypeOK, DB, Export, Ledger0
<1>3. RecoveryTypeOK'
  BY <1>1, <1>2 DEF RecoveryTypeOK, Copies0, Dump0, Backup0, Ledger0, Export, settings, copies
<1>4. DatabasesWhole'
  BY DEF DataInv, DatabasesWhole, Whole, Live, Export, copies
<1> QED BY <1>3, <1>4, LiveData DEF Export

LEMMA DrFields ==
    \A step \in DrSteps : /\ DrAt(step) \in Dr0 /\ DrAt(step).at = step
                          /\ DrAt(step).todo = {} /\ DrAt(step).bad = {}
BY DEF DrAt, Dr0

(* The rest of the state keeps its types while a recovery goes on.         *)
LEMMA RecoveringTypes ==
    ASSUME RecoveryTypeOK, db' \in DB, dr' \in Dr0, horizon' \in Nat, objects' \subseteq Jobs,
           Fault \/ NoFault, erasedAt' \in [Jobs -> 0 .. Never],
           UNCHANGED <<settings, copies, ledger>>
    PROVE  RecoveryTypeOK'
BY FaultCount DEF RecoveryTypeOK, Dr0, DrSteps, settings, copies

LEMMA DisasterData == ASSUME DataInv, Disaster PROVE DataInv'
<1>1. RecoveryTypeOK /\ faults' \in 0 .. MaxFaults
  BY FaultCount DEF DataInv, Disaster
<1>2. /\ copy' \in Copies0 /\ copy'.db = FirstDB
      /\ \A j \in Jobs : FirstDB.rec[j] = "active" /\ FirstDB.mark[j].status = "none"
  BY <1>1, NoCopyFields DEF Disaster
<1>3. dr' \in Dr0 /\ dr'.at = "down"
  BY DrFields DEF Disaster, DrSteps
<1>4. db' \in DB /\ db' = dump.db /\ dump' = dump /\ objects' = objects
  BY <1>1 DEF RecoveryTypeOK, Disaster
<1>5. erasedAt' \in [Jobs -> 0 .. Never]
  BY <1>1, RecoveryConstants DEF RecoveryTypeOK, Disaster, Never
<1>6. RecoveryTypeOK'
  BY <1>1, <1>2, <1>3, <1>4, <1>5
     DEF RecoveryTypeOK, Copies0, Dr0, DrSteps, Disaster, settings
<1>7. DatabasesWhole'
  BY <1>2, <1>3, <1>4 DEF DataInv, DatabasesWhole, Whole, Live
<1>8. RecoveryReaches'
  BY <1>4 DEF DataInv, DatabasesWhole, Whole, RecoveryReaches
<1>9. RecoverySteps'
  BY <1>3 DEF RecoverySteps, Merged, Replayed
<1> QED BY <1>6, <1>7, <1>8, <1>9 DEF DataInv

(* Back at the beginning of a recovery, whatever has been done.            *)
LEMMA DownAgain ==
    ASSUME DataInv, ~ Live, dr' = DrAt("down"), Fault \/ NoFault,
           UNCHANGED <<settings, db, objects, copies, ledger, horizon, erasedAt>>
    PROVE  DataInv'
<1>1. dr' \in Dr0 /\ dr'.at = "down"
  BY DrFields DEF DrSteps
<1>2. RecoveryTypeOK'
  BY <1>1, RecoveringTypes DEF DataInv, RecoveryTypeOK
<1>3. DatabasesWhole' /\ RecoveryReaches'
  BY <1>1 DEF DataInv, DatabasesWhole, RecoveryReaches, Whole, Listed, Live, copies
<1>4. RecoverySteps'
  BY <1>1 DEF RecoverySteps, Merged, Replayed
<1> QED BY <1>2, <1>3, <1>4 DEF DataInv

(* A step of a recovery: the databases and the objects it leaves.          *)
LEMMA RecoveringData ==
    ASSUME DataInv, ~ Live, dr'.at # "live", db' \in DB, dr' \in Dr0, horizon' \in Nat,
           objects' \subseteq objects,
           \A j \in Jobs : db'.rec[j] = "active" => db.rec[j] = "active",
           \A j \in Jobs : db'.rec[j] = "none" => db.rec[j] = "none" \/ j \notin objects',
           \A j \in Jobs \ Listed : db'.mark[j].status = "deleted" =>
               db'.rec[j] = "none" \/ (db.mark[j].status = "deleted" /\ db'.rec[j] = db.rec[j]),
           Fault \/ NoFault, erasedAt' \in [Jobs -> 0 .. Never],
           UNCHANGED <<settings, copies, ledger>>, RecoverySteps'
    PROVE  DataInv'
<1>1. RecoveryTypeOK'
  BY RecoveringTypes DEF DataInv, RecoveryTypeOK
<1>2. DatabasesWhole'
  BY DEF DataInv, DatabasesWhole, Whole, Live, copies, RecoveryTypeOK, DB
<1>3. Listed' = Listed
  BY DEF Listed
<1>4. RecoveryReaches'
  BY <1>3 DEF DataInv, RecoveryReaches, Live
<1> QED BY <1>1, <1>2, <1>4 DEF DataInv

LEMMA StartMergeData == ASSUME DataInv, Merge \/ AcceptStale PROVE DataInv'
<1>1. /\ dr.at = "down" /\ dr' = [DrAt("merge") EXCEPT !.todo = Listed] /\ faults' = faults
      /\ UNCHANGED <<settings, db, objects, copies, ledger, horizon, erasedAt>>
  BY DEF Merge, AcceptStale, StartMerge, NoFault
<1>2. dr' \in Dr0 /\ dr'.at = "merge" /\ dr'.todo = Listed
  BY <1>1, DrFields DEF Dr0, DrSteps, Listed
<1>3. RecoverySteps'
  BY <1>1, <1>2 DEF RecoverySteps, Merged, Replayed, Listed
<1>4. ~ Live /\ RecoveryTypeOK
  BY <1>1 DEF Live, DataInv
<1> QED BY <1>1, <1>2, <1>3, <1>4, RecoveringData DEF RecoveryTypeOK, NoFault

(* What the merge leaves at a job: the mark of the ledger, or one that is  *)
(* there.                                                                  *)
LEMMA MergedMark ==
    ASSUME RecoveryTypeOK, NEW j \in Jobs, MergeMark(j)
    PROVE  /\ db' \in DB /\ db'.rec = db.rec
           /\ \A k \in Jobs \ {j} : db'.mark[k] = db.mark[k]
           /\ \/ db'.mark[j] = ledger.mark[j]
              \/ db'.mark[j] = db.mark[j] /\ db.mark[j].status # "none"
<1>1. db \in DB /\ ledger.mark[j] \in Mark0
  BY DEF RecoveryTypeOK, Marks, Mark0
<1>2. CASE laimiImportuotas(ledger.mark[j], db.mark[j])
  <2>1. db' = [db EXCEPT !.mark[j] = ledger.mark[j]]
    BY <1>2 DEF MergeMark
  <2> QED BY <1>1, <2>1, DbMark
<1>3. CASE ~ laimiImportuotas(ledger.mark[j], db.mark[j])
  BY <1>1, <1>3 DEF MergeMark, laimiImportuotas
<1> QED BY <1>2, <1>3

LEMMA MergeMarkData == ASSUME DataInv, NEW j \in Jobs, MergeMark(j) PROVE DataInv'
<1>1. RecoveryTypeOK /\ RecoverySteps /\ dr \in Dr0
  BY DEF DataInv, RecoveryTypeOK, Dr0, DrSteps
<1>2. /\ dr.at = "merge" /\ j \in dr.todo /\ faults' = faults
      /\ UNCHANGED <<settings, objects, copies, ledger, horizon, erasedAt>>
  BY DEF MergeMark, NoFault
<1>3. dr' \in Dr0 /\ dr'.at = "merge" /\ dr'.todo = dr.todo \ {j}
  BY <1>1, <1>2 DEF Dr0, MergeMark
<1>4. j \in Listed /\ Listed' = Listed /\ Listed \subseteq Jobs
  BY <1>1, <1>2 DEF RecoverySteps, Listed
<1>5. \A k \in Listed \ dr'.todo : db'.mark[k].status # "none"
  <2>1. ledger.mark[j].status # "none"
    BY <1>4 DEF Listed
  <2>2. db'.mark[j].status # "none"
    BY <1>1, <2>1, MergedMark
  <2>3. ASSUME NEW k \in Listed \ dr'.todo, k # j PROVE db'.mark[k].status # "none"
    <3>1. k \notin dr.todo /\ k \in Jobs
      BY <1>3, <1>4, <2>3
    <3> QED BY <1>1, <1>2, <2>3, <3>1, MergedMark DEF RecoverySteps
  <2> QED BY <2>2, <2>3
<1>6. RecoverySteps'
  BY <1>1, <1>2, <1>3, <1>4, <1>5 DEF RecoverySteps, Merged, Replayed
<1>7. ~ Live
  BY <1>2 DEF Live
<1>8. \A k \in Jobs \ Listed : db'.mark[k] = db.mark[k]
  BY <1>1, <1>4, MergedMark
<1>9. db' \in DB /\ db'.rec = db.rec
  BY <1>1, MergedMark
<1> QED BY <1>1, <1>2, <1>3, <1>6, <1>7, <1>8, <1>9, RecoveringData DEF RecoveryTypeOK, NoFault

LEMMA MergeHorizonData == ASSUME DataInv, MergeHorizon PROVE DataInv'
<1>1. RecoveryTypeOK /\ RecoverySteps
  BY DEF DataInv
<1>2. /\ dr.at = "merge" /\ dr.todo = {} /\ dr' = [DrAt("replay") EXCEPT !.todo = Listed]
      /\ recordBackupHorizon(ledger.horizon) /\ faults' = faults
      /\ UNCHANGED <<settings, objects, copies, ledger, erasedAt>>
  BY DEF MergeHorizon, NoFault
<1>3. dr' \in Dr0 /\ dr'.at = "replay" /\ dr'.todo = Listed
  BY <1>2, DrFields DEF Dr0, DrSteps, Listed
<1>4. db' \in DB /\ db'.rec = db.rec /\ db'.mark = db.mark /\ horizon' \in Nat
  BY <1>1, <1>2, DbHorizon DEF RecoveryTypeOK, DB, MergeHorizon, Larger
<1>5. RecoverySteps'
  BY <1>1, <1>2, <1>3, <1>4 DEF RecoverySteps, Merged, Replayed, Listed
<1>6. ~ Live
  BY <1>2 DEF Live
<1> QED BY <1>1, <1>2, <1>3, <1>4, <1>5, <1>6, RecoveringData DEF RecoveryTypeOK, NoFault

LEMMA ReplayEraseData == ASSUME DataInv, NEW j \in Jobs, ReplayErase(j) PROVE DataInv'
<1>1. RecoveryTypeOK /\ RecoverySteps
  BY DEF DataInv
<1>2. /\ dr.at = "replay" /\ j \in dr.todo /\ db' = [db EXCEPT !.rec[j] = "none"]
      /\ objects' = objects \ {j} /\ faults' = faults
      /\ UNCHANGED <<settings, copies, ledger, horizon, erasedAt>>
  BY DEF ReplayErase, NoFault
<1>3. /\ dr' \in Dr0 /\ dr'.at = "closing" /\ dr'.job = j
      /\ dr'.todo = dr.todo /\ dr'.bad = dr.bad
  BY <1>1 DEF RecoveryTypeOK, Dr0, DrSteps, ReplayErase
<1>4. /\ db' \in DB /\ db'.mark = db.mark /\ db'.rec[j] = "none"
      /\ \A k \in Jobs \ {j} : db'.rec[k] = db.rec[k]
  BY <1>1, <1>2, DbRec DEF RecoveryTypeOK
<1>5. Listed' = Listed /\ Listed \subseteq Jobs /\ j \in Listed
  BY <1>1, <1>2 DEF Listed, RecoverySteps
<1>6. RecoverySteps'
  BY <1>1, <1>2, <1>3, <1>4, <1>5 DEF RecoverySteps, Merged, Replayed
<1>7. ~ Live
  BY <1>2 DEF Live
<1> QED BY <1>1, <1>2, <1>3, <1>4, <1>6, <1>7, RecoveringData DEF RecoveryTypeOK, NoFault

LEMMA PassedOver ==
    ASSUME RecoveryTypeOK, NEW j \in Jobs, PassOver(j)
    PROVE  dr' \in Dr0 /\ dr'.at = "replay" /\ dr'.todo = dr.todo \ {j} /\ dr'.bad = dr.bad \cup {j}
BY DEF RecoveryTypeOK, PassOver, Dr0, DrSteps

LEMMA ReplayFailsData == ASSUME DataInv, ReplayFails PROVE DataInv'
<1>1. RecoveryTypeOK /\ RecoverySteps
  BY DEF DataInv
<1>2. /\ dr.at \in {"replay", "closing"} /\ Fault
      /\ UNCHANGED <<settings, db, objects, copies, ledger, horizon, erasedAt>>
  BY DEF ReplayFails
<1>3. PICK j \in Jobs : PassOver(j)
  BY <1>1 DEF ReplayFails, RecoverySteps, RecoveryTypeOK, Listed
<1>4. /\ dr' \in Dr0 /\ dr'.at = "replay"
      /\ dr'.todo = dr.todo \ {j} /\ dr'.bad = dr.bad \cup {j}
  BY <1>1, <1>3, PassedOver
<1>5. Listed' = Listed
  BY <1>2 DEF Listed
<1>6. RecoverySteps'
  BY <1>1, <1>2, <1>4, <1>5 DEF RecoverySteps, Merged, Replayed
<1>7. ~ Live
  BY <1>2 DEF Live
<1> QED BY <1>1, <1>2, <1>4, <1>6, <1>7, RecoveringData DEF RecoveryTypeOK

LEMMA ReplayCloseData == ASSUME DataInv, ReplayClose PROVE DataInv'
<1> DEFINE j == dr.job
           m == [status |-> "deleted", at |-> now]
<1>1. RecoveryTypeOK /\ RecoverySteps
  BY DEF DataInv
<1>2. /\ dr.at = "closing" /\ faults' = faults
      /\ UNCHANGED <<settings, objects, copies, ledger, horizon>>
  BY DEF ReplayClose, NoFault
<1>3. j \in Jobs /\ j \in Listed /\ j \in dr.todo /\ db.rec[j] = "none"
  BY <1>1, <1>2 DEF RecoverySteps, Listed
<1>4. /\ dr' \in Dr0 /\ dr'.at = "replay" /\ dr'.todo = dr.todo \ {j} /\ dr.bad \subseteq dr'.bad
  <2>1. CASE PassOver(j)
    BY <1>1, <1>3, <2>1, PassedOver
  <2>2. CASE dr' = [dr EXCEPT !.at = "replay", !.todo = @ \ {j}, !.job = NoJob]
    BY <1>1, <2>2 DEF RecoveryTypeOK, Dr0, DrSteps
  <2> QED BY <2>1, <2>2 DEF ReplayClose
<1>5. m \in Mark0 /\ m.status = "deleted"
  BY <1>1 DEF RecoveryTypeOK, Mark0, Statuses
<1>6. db' = db \/ db' = [db EXCEPT !.mark[j] = m]
  BY DEF ReplayClose, SetMark
<1>7. erasedAt' \in [Jobs -> 0 .. Never]
  BY <1>1, RecoveryConstants DEF RecoveryTypeOK, ReplayClose, Never
<1> HIDE DEF j, m
<1>8. /\ db' \in DB /\ db'.rec = db.rec
      /\ db'.mark[j].status \in {"deleted", db.mark[j].status}
      /\ \A k \in Jobs \ {j} : db'.mark[k] = db.mark[k]
  BY <1>1, <1>3, <1>5, <1>6, DbMark DEF RecoveryTypeOK
<1>9. Listed' = Listed /\ Listed \subseteq Jobs
  BY <1>2 DEF Listed
<1>10. \A k \in Listed : /\ db'.mark[k].status # "none"
                         /\ k \in dr'.todo \/ k \in dr'.bad \/ db'.rec[k] = "none"
  BY <1>1, <1>2, <1>3, <1>4, <1>8, <1>9 DEF RecoverySteps, Merged
<1>11. RecoverySteps'
  BY <1>1, <1>2, <1>4, <1>9, <1>10 DEF RecoverySteps, Merged, Replayed
<1>12. ~ Live
  BY <1>2 DEF Live
<1>13. \A k \in Jobs \ Listed : db'.mark[k] = db.mark[k]
  BY <1>3, <1>8
<1> QED BY <1>1, <1>2, <1>4, <1>7, <1>8, <1>11, <1>12, <1>13, RecoveringData DEF RecoveryTypeOK, NoFault

LEMMA ReplayEndsData == ASSUME DataInv, ReplayEnds PROVE DataInv'
<1>1. RecoveryTypeOK /\ RecoverySteps
  BY DEF DataInv
<1>2. /\ dr.at = "replay" /\ dr.todo = {} /\ NoFault
      /\ UNCHANGED <<settings, db, objects, copies, ledger, horizon, erasedAt>>
  BY DEF ReplayEnds
<1>3. ~ Live
  BY <1>2 DEF Live
<1>4. CASE dr.bad = {}
  <2>1. /\ dr' \in Dr0 /\ dr'.at = "replayed" /\ dr'.todo = {} /\ dr'.bad = {}
    BY <1>4, DrFields DEF ReplayEnds, DrSteps
  <2>2. RecoverySteps'
    BY <1>1, <1>2, <1>4, <2>1 DEF RecoverySteps, Merged, Replayed, Listed
  <2> QED BY <1>1, <1>2, <1>3, <2>1, <2>2, RecoveringData DEF RecoveryTypeOK
<1>5. CASE dr.bad # {}
  BY <1>2, <1>3, <1>5, DownAgain DEF ReplayEnds
<1> QED BY <1>4, <1>5

LEMMA ReconciledDb ==
    ASSUME RecoveryTypeOK, Reconcile
    PROVE  /\ db' \in DB /\ db'.mark = db.mark
           /\ \A j \in Jobs : db'.rec[j] = db.rec[j] \/ (db'.rec[j] = "done" /\ db.rec[j] = "active")
BY DEF RecoveryTypeOK, DB, Reconcile

LEMMA ReconcileData == ASSUME DataInv, Reconcile PROVE DataInv'
<1>1. RecoveryTypeOK /\ RecoverySteps
  BY DEF DataInv
<1>2. /\ dr.at = "replayed" /\ NoFault
      /\ UNCHANGED <<settings, objects, copies, ledger, horizon, erasedAt>>
  BY DEF Reconcile
<1>3. /\ dr' \in Dr0 /\ dr'.at = "reconciled" /\ dr'.todo = {} /\ dr'.bad = {}
  BY DrFields DEF Reconcile, DrSteps
<1>4. Listed' = Listed /\ Listed \subseteq Jobs
  BY <1>2 DEF Listed
<1>5. \A j \in Listed : db'.mark[j].status # "none" /\ db'.rec[j] = "none"
  BY <1>1, <1>2, <1>4, ReconciledDb DEF RecoverySteps, Merged, Replayed
<1>6. RecoverySteps'
  BY <1>3, <1>4, <1>5 DEF RecoverySteps, Merged, Replayed
<1>7. ~ Live
  BY <1>2 DEF Live
<1>8. db' \in DB /\ \A j \in Jobs :
          /\ db'.mark[j] = db.mark[j]
          /\ db'.rec[j] = "active" => db.rec[j] = "active"
          /\ db'.rec[j] = "none" => db.rec[j] = "none"
          /\ db.rec[j] = "none" => db'.rec[j] = "none"
  BY <1>1, ReconciledDb
<1>9. \A j \in Jobs \ Listed : db'.mark[j].status = "deleted" => db'.rec[j] = "none"
  BY <1>7, <1>8 DEF DataInv, RecoveryReaches
<1> QED BY <1>1, <1>2, <1>3, <1>6, <1>7, <1>8, <1>9, RecoveringData DEF RecoveryTypeOK

LEMMA VerifyData == ASSUME DataInv, NEW axes \in Authorities, Verify(axes) PROVE DataInv'
<1>1. RecoveryTypeOK /\ RecoverySteps
  BY DEF DataInv
<1>2. /\ dr.at = "reconciled" /\ NoFault
      /\ UNCHANGED <<settings, db, objects, copies, ledger, horizon, erasedAt>>
  BY DEF Verify
<1>3. ~ Live
  BY <1>2 DEF Live
<1>4. CASE suderinta(axes)
  <2>1. /\ dr' \in Dr0 /\ dr'.at = "verified" /\ dr'.todo = {} /\ dr'.bad = {}
    BY <1>4, DrFields DEF Verify, DrSteps
  <2>2. \A j \in Jobs : db.mark[j].status \in {"none", "deleted"}
    BY <1>4 DEF suderinta
  <2>3. RecoverySteps'
    BY <1>1, <1>2, <2>1, <2>2 DEF RecoverySteps, Merged, Replayed, Listed
  <2> QED BY <1>1, <1>2, <1>3, <2>1, <2>3, RecoveringData DEF RecoveryTypeOK
<1>5. CASE ~ suderinta(axes)
  BY <1>2, <1>3, <1>5, DownAgain DEF Verify
<1> QED BY <1>4, <1>5

(* What a verified recovery has reached: what VerifiedMeansErased says.    *)
LEMMA VerifiedReached ==
    ASSUME DataInv, dr.at = "verified", NEW j \in Jobs
    PROVE  /\ db.mark[j].status \in {"none", "deleted"}
           /\ j \in Listed => db.mark[j].status = "deleted" /\ db.rec[j] = "none"
           /\ db.mark[j].status = "deleted" => db.rec[j] = "none"
           /\ db.rec[j] = "none" => j \notin objects
BY DEF DataInv, RecoverySteps, RecoveryReaches, Merged, Replayed, Live

LEMMA CutoverData == ASSUME DataInv, Cutover PROVE DataInv'
<1>1. RecoveryTypeOK
  BY DEF DataInv
<1>2. /\ dr.at = "verified" /\ dr' = DrAt("live") /\ db' = [db EXCEPT !.sessions = TRUE] /\ NoFault
      /\ UNCHANGED <<settings, objects, copies, ledger, horizon, erasedAt>>
  BY DEF Cutover
<1>3. dr' \in Dr0 /\ dr'.at = "live"
  BY <1>2, DrFields DEF DrSteps
<1>4. db' \in DB /\ db'.rec = db.rec /\ db'.mark = db.mark
  BY <1>1, <1>2 DEF RecoveryTypeOK, DB
<1>5. RecoveryTypeOK'
  BY <1>1, <1>2, <1>3, <1>4, RecoveringTypes DEF RecoveryTypeOK
<1>6. Whole(db)'
  BY <1>2, <1>4, VerifiedReached DEF Whole
<1>7. DatabasesWhole'
  BY <1>2, <1>4, <1>6 DEF DataInv, DatabasesWhole, Whole, copies
<1>8. RecoveryReaches' /\ RecoverySteps'
  BY <1>3 DEF RecoveryReaches, RecoverySteps, Live, Merged, Replayed
<1> QED BY <1>5, <1>7, <1>8 DEF DataInv

LEMMA DataInductive == DataInv /\ [RecoveryNext]_recoveryVars => DataInv'
<1> SUFFICES ASSUME DataInv, [RecoveryNext]_recoveryVars PROVE DataInv'
  OBVIOUS
<1>1. ASSUME NEW j \in Jobs, FinishJob(j) \/ MarkJob(j) \/ EraseData(j) \/ EraseFails(j)
                             \/ Confirm(j) \/ MergeMark(j) \/ ReplayErase(j)
      PROVE  DataInv'
  BY <1>1, FinishData, MarkData, EraseDataData, ConfirmData, MergeMarkData, ReplayEraseData
<1>2. ASSUME Merge \/ AcceptStale \/ MergeHorizon \/ ReplayFails \/ ReplayClose \/ ReplayEnds
             \/ Reconcile \/ Cutover \/ Disaster
      PROVE  DataInv'
  BY <1>2, StartMergeData, MergeHorizonData, ReplayFailsData, ReplayCloseData, ReplayEndsData,
     ReconcileData, CutoverData, DisasterData
<1>3. ASSUME IssueDump \/ DumpFails \/ IssueBackup \/ RestoreBackup \/ Export \/ PurgeMarks \/ Day
      PROVE  DataInv'
  BY <1>3, IssueDumpData, IssueBackupData, RestoreData, ExportData, PurgeMarksData, ClockData
<1>4. CASE DrCrash
  BY <1>4, DownAgain DEF DrCrash, Live
<1>5. ASSUME NEW days \in Retentions, ChangeRetention(days) PROVE DataInv'
  BY <1>5, ClockData
<1>6. ASSUME NEW kind \in {"dump", "backup"}, Snapshot(kind) PROVE DataInv'
  BY <1>6, SnapshotData
<1>7. ASSUME NEW axes \in Authorities, Verify(axes) PROVE DataInv'
  BY <1>7, VerifyData
<1>8. CASE UNCHANGED recoveryVars
  BY <1>8, ClockData
<1> QED BY <1>1, <1>2, <1>3, <1>4, <1>5, <1>6, <1>7, <1>8 DEF RecoveryNext

LEMMA DataAlways == RecoverySpec => []DataInv
BY DataInit, DataInductive, PTL DEF RecoverySpec

(* The types of DisasterRecovery.                                          *)
THEOREM RecoveryTypes == RecoverySpec => []RecoveryTypeOK
<1>1. DataInv => RecoveryTypeOK
  BY DEF DataInv
<1> QED BY <1>1, DataAlways, PTL

(* A recovery that passes verification has erased the data of every job    *)
(* the ledger lists or a mark names, in the database and in the object     *)
(* store (drCoordinator.js), however many runs failed or crashed before    *)
(* it.                                                                     *)
THEOREM VerifiedErased == RecoverySpec => []VerifiedMeansErased
<1>1. DataInv => VerifiedMeansErased
  BY VerifiedReached DEF VerifiedMeansErased
<1> QED BY <1>1, DataAlways, PTL

(* What the marks say of erasures.  A copy is read before it is issued:    *)
(* the safety margin of the marks covers the time this takes, and the      *)
(* retention in force covers the copies issued before as long as it never  *)
(* shrinks.                                                                *)
CopiesWithinMargin == ~ Shrinks /\ CopyDays <= Margin + 1

Erased(j) == erasedAt[j] # Never
Making == copy.kind # "none"

(* A terminal mark, wherever it is kept, is of a job erased by its time.   *)
MarksTell(marks) == \A j \in Jobs :
    marks[j].status = "deleted" => Erased(j) /\ erasedAt[j] <= marks[j].at

MarksTrue ==
    MarksTell(db.mark) /\ MarksTell(ledger.mark) /\ MarksTell(dump.db.mark) /\ MarksTell(copy.db.mark)

LiveErased ==
    Live => \A j \in Jobs :
        /\ Erased(j) => db.rec[j] = "none" /\ db.mark[j].status \notin {"pending", "failed"}
        /\ Erased(j) /\ Making /\ copy.db.rec[j] # "none" => db.mark[j].status # "none"

(* A copy with a job in it was read no later than the job was erased.      *)
CopiesOld ==
    /\ Making => copy.at <= now /\ now <= copy.at + CopyDays
    /\ dump.expires <= now + retention /\ backup.expires <= now + retention
    /\ \A j \in Jobs : Erased(j) =>
         /\ erasedAt[j] <= now
         /\ Making /\ copy.db.rec[j] # "none" => copy.at <= erasedAt[j]
         /\ dump.db.rec[j] # "none" => dump.expires <= erasedAt[j] + CopyDays + retention
         /\ j \in backup.jobs => backup.expires <= erasedAt[j] + CopyDays + retention

RecoveryKnows ==
    ~ Live => \A j \in Jobs : Erased(j) => j \in Listed \/ db.mark[j].status = "deleted"

HistoryInv == MarksTrue /\ LiveErased /\ CopiesOld /\ RecoveryKnows /\ MarkOutlivesCopies
RecoveryInv == DataInv /\ HistoryInv

LEMMA HistoryInit == RecoveryInit => HistoryInv
<1> SUFFICES ASSUME RecoveryInit PROVE HistoryInv
  OBVIOUS
<1>1. /\ \A j \in Jobs : /\ ~ Erased(j) /\ db.mark[j].status = "none" /\ db.rec[j] = "active"
                         /\ ledger.mark[j].status = "none" /\ dump.db.mark[j].status = "none"
                         /\ copy.db.mark[j].status = "none"
      /\ copy.kind = "none" /\ dump.expires = 0 /\ backup.expires = 0
  BY DEF RecoveryInit, Erased, FirstDB, NoCopy, NoDump, NoBackup, NoLedger, Unmarked
<1>2. now = 0 /\ retention \in Nat /\ Live
  BY RecoveryConstants DEF RecoveryInit, Live, DrAt
<1>3. MarksTrue /\ LiveErased
  BY <1>1 DEF MarksTrue, MarksTell, LiveErased
<1>4. CopiesOld
  BY <1>1, <1>2 DEF CopiesOld, Making
<1>5. RecoveryKnows /\ MarkOutlivesCopies
  BY <1>1, <1>2 DEF RecoveryKnows, MarkOutlivesCopies, Erased
<1> QED BY <1>3, <1>4, <1>5 DEF HistoryInv

(* A step of the live system that does not touch what is erased and makes  *)
(* no mark terminal.                                                       *)
LEMMA LiveHistory ==
    ASSUME HistoryInv, Live,
           UNCHANGED <<settings, copies, ledger, dr, erasedAt>>,
           \A j \in Jobs : db'.mark[j].status = "deleted" => db'.mark[j] = db.mark[j],
           \A j \in Jobs : Erased(j) => db'.rec[j] = "none" /\ db'.mark[j] = db.mark[j]
    PROVE  HistoryInv'
<1> USE DEF settings, copies
<1>1. MarksTrue'
  BY DEF HistoryInv, MarksTrue, MarksTell, Erased
<1>2. LiveErased'
  BY DEF HistoryInv, LiveErased, Erased, Making, Live
<1>3. CopiesOld'
  BY DEF HistoryInv, CopiesOld, Erased, Making
<1>4. RecoveryKnows'
  BY DEF RecoveryKnows, Live
<1>5. MarkOutlivesCopies'
  BY DEF HistoryInv, MarkOutlivesCopies, Erased, Live
<1> QED BY <1>1, <1>2, <1>3, <1>4, <1>5 DEF HistoryInv

LEMMA JobHistory ==
    ASSUME RecoveryInv, NEW j \in Jobs, FinishJob(j) \/ MarkJob(j) \/ EraseData(j) \/ EraseFails(j)
    PROVE  HistoryInv'
<1>1. /\ db \in DB /\ HistoryInv /\ LiveErased /\ Live
      /\ UNCHANGED <<settings, copies, ledger, dr, erasedAt>>
  BY DEF RecoveryInv, DataInv, HistoryInv, RecoveryTypeOK, FinishJob, MarkJob, EraseData, EraseFails
<1>2. ASSUME FinishJob(j) \/ EraseData(j) PROVE HistoryInv'
  <2>1. PICK v \in {"none", "done"} : db' = [db EXCEPT !.rec[j] = v]
    BY <1>2 DEF FinishJob, EraseData
  <2>2. v = "none" \/ db.rec[j] = "active"
    BY <1>1, <1>2, <2>1 DEF FinishJob, EraseData, DB
  <2>3. /\ db'.mark = db.mark /\ db'.rec[j] = v
        /\ \A k \in Jobs \ {j} : db'.rec[k] = db.rec[k]
    BY <1>1, <2>1, DbRec
  <2> QED BY <1>1, <2>2, <2>3, LiveHistory DEF LiveErased
<1>3. ASSUME MarkJob(j) \/ EraseFails(j) PROVE HistoryInv'
  <2>1. PICK status \in {"pending", "failed"} : SetMark(j, status)
    BY <1>3 DEF MarkJob, EraseFails
  <2> DEFINE m == [status |-> status, at |-> now]
  <2>2. db' = [db EXCEPT !.mark[j] = m] /\ m \in Mark0 /\ m.status = status
    BY <2>1 DEF SetMark, Mark0, Statuses, RecoveryInv, DataInv, RecoveryTypeOK
  <2> HIDE DEF m
  <2>3. /\ db'.rec = db.rec /\ db'.mark[j] = m
        /\ \A k \in Jobs \ {j} : db'.mark[k] = db.mark[k]
    BY <1>1, <2>2, DbMark
  <2>4. ~ Erased(j)
    BY <1>1, <1>3 DEF LiveErased, MarkJob, EraseFails
  <2> QED BY <1>1, <2>1, <2>2, <2>3, <2>4, LiveHistory DEF LiveErased
<1> QED BY <1>2, <1>3

(* A restore leaves erased jobs alone: their marks outlive the backup.     *)
LEMMA RestoreHistory == ASSUME RecoveryInv, RestoreBackup PROVE HistoryInv'
<1>1. RecoveryTypeOK /\ HistoryInv /\ LiveErased /\ MarkOutlivesCopies
  BY DEF RecoveryInv, DataInv, HistoryInv
<1>2. /\ Live /\ now < backup.expires
      /\ UNCHANGED <<settings, copies, ledger, dr, erasedAt>>
  BY DEF RestoreBackup
<1>3. ASSUME NEW j \in Jobs, Erased(j) PROVE db'.rec[j] = "none"
  <2>1. db.rec[j] = "none"
    BY <1>1, <1>2, <1>3 DEF LiveErased
  <2>2. j \in backup.jobs => db.mark[j].status # "none"
    BY <1>1, <1>2, <1>3 DEF MarkOutlivesCopies, Erased
  <2> QED BY <1>1, <2>1, <2>2, RestoredDb
<1> QED BY <1>1, <1>2, <1>3, RestoredDb, LiveHistory

LEMMA ConfirmHistory == ASSUME RecoveryInv, NEW j \in Jobs, Confirm(j) PROVE HistoryInv'
<1> DEFINE m == [status |-> "deleted", at |-> now]
<1>1. RecoveryTypeOK /\ MarksTrue /\ LiveErased /\ CopiesOld /\ MarkOutlivesCopies
  BY DEF RecoveryInv, DataInv, HistoryInv
<1>2. /\ Live /\ db.mark[j].status = "pending" /\ db.rec[j] = "none"
      /\ db' = [db EXCEPT !.mark[j] = m] /\ erasedAt' = [erasedAt EXCEPT ![j] = now]
      /\ UNCHANGED <<settings, copies, ledger, dr>>
  BY DEF Confirm, SetMark
<1>3. m \in Mark0 /\ m.status = "deleted" /\ m.at = now
  BY <1>1 DEF RecoveryTypeOK, Mark0, Statuses
<1> HIDE DEF m
<1>4. /\ db'.rec = db.rec /\ db'.mark[j] = m
      /\ \A k \in Jobs \ {j} : db'.mark[k] = db.mark[k]
  BY <1>1, <1>2, <1>3, DbMark DEF RecoveryTypeOK
<1>5. ~ Erased(j)
  BY <1>1, <1>2 DEF LiveErased
<1>6. /\ erasedAt'[j] = now /\ now \in Nat /\ now # Never
      /\ \A k \in Jobs \ {j} : erasedAt'[k] = erasedAt[k]
  BY <1>1, <1>2, RecoveryConstants DEF RecoveryTypeOK, Never
<1>7. MarksTrue'
  BY <1>1, <1>2, <1>3, <1>4, <1>5, <1>6 DEF MarksTrue, MarksTell, Erased, copies
<1>8. LiveErased'
  BY <1>1, <1>2, <1>3, <1>4, <1>6 DEF LiveErased, Erased, Making, Live, copies
<1>9. CopiesOld'
  <2>1. CopyDays \in Nat /\ retention \in Nat /\ dump.expires \in Nat /\ backup.expires \in Nat
    BY <1>1, RecoveryConstants DEF RecoveryTypeOK
  <2> QED BY <1>1, <1>2, <1>6, <2>1 DEF CopiesOld, Erased, Making, settings, copies
<1>10. RecoveryKnows'
  BY <1>2 DEF RecoveryKnows, Live
<1>11. MarkOutlivesCopies'
  BY <1>1, <1>2, <1>3, <1>4, <1>6 DEF MarkOutlivesCopies, Live, settings, copies
<1> QED BY <1>7, <1>8, <1>9, <1>10, <1>11 DEF HistoryInv

LEMMA RetentionTerms ==
    ASSUME RecoveryTypeOK, NEW seen \in Nat
    PROVE  /\ retentionMs(seen) \in Nat
           /\ retentionMs(seen) >= Revival + Margin /\ retentionMs(seen) >= retention + Margin
<1>1. retention \in Nat /\ now \in Nat /\ Revival \in Nat /\ Margin \in Nat
  BY RecoveryConstants DEF RecoveryTypeOK
<1>2. \A a, b \in Nat : Larger(a, b) \in Nat /\ Larger(a, b) >= a /\ Larger(a, b) >= b
  BY DEF Larger
<1>3. (IF seen > now THEN seen - now ELSE 0) \in Nat
  BY <1>1
<1> DEFINE inner == Larger(retention, IF seen > now THEN seen - now ELSE 0)
<1>4. inner \in Nat /\ inner >= retention
  BY <1>1, <1>2, <1>3
<1>5. retentionMs(seen) = Larger(Revival, inner) + Margin
  BY DEF retentionMs
<1> HIDE DEF inner
<1>6. PICK longest \in Nat : /\ longest = Larger(Revival, inner)
                             /\ longest >= Revival /\ longest >= inner
  BY <1>1, <1>2, <1>4
<1>7. longest >= retention
  BY <1>1, <1>4, <1>6
<1>8. retentionMs(seen) = longest + Margin
  BY <1>5, <1>6
<1> QED BY <1>1, <1>6, <1>7, <1>8

(* A mark is purged after every copy with its job has expired, those in    *)
(* the making included.                                                    *)
LEMMA PurgeHistory ==
    ASSUME CopiesWithinMargin, RecoveryInv, NEW seen \in Nat, PurgeWith(seen)
    PROVE  HistoryInv'
<1> DEFINE stale == {j \in Jobs : /\ db.mark[j].status = "deleted"
                                  /\ db.mark[j].at + retentionMs(seen) < now}
<1>1. RecoveryTypeOK /\ MarksTrue /\ LiveErased /\ CopiesOld /\ MarkOutlivesCopies
  BY DEF RecoveryInv, DataInv, HistoryInv
<1>2. /\ Live /\ db' = [db EXCEPT !.mark = [j \in Jobs |-> IF j \in stale THEN Unmarked ELSE @[j]]]
      /\ UNCHANGED <<settings, copies, ledger, dr, erasedAt>>
  BY DEF PurgeWith
<1>3. db'.rec = db.rec /\ \A j \in Jobs : db'.mark[j] = IF j \in stale THEN Unmarked ELSE db.mark[j]
  BY <1>1, <1>2 DEF RecoveryTypeOK, DB, Marks
<1>4. /\ now \in Nat /\ retention \in Nat \ {0} /\ CopyDays \in Nat /\ Margin \in Nat /\ Revival \in Nat
      /\ copy.at \in Nat /\ dump.expires \in Nat /\ backup.expires \in Nat
      /\ \A j \in Jobs : erasedAt[j] \in Nat /\ db.mark[j].at \in Nat
  BY <1>1, RecoveryConstants DEF RecoveryTypeOK, DB, Marks, Never
<1>5. ASSUME NEW j \in stale
      PROVE  /\ j \in Jobs /\ Erased(j)
             /\ erasedAt[j] + Revival < now
             /\ erasedAt[j] + CopyDays + retention <= now
  <2>1. j \in Jobs /\ db.mark[j].status = "deleted" /\ db.mark[j].at + retentionMs(seen) < now
    OBVIOUS
  <2>2. Erased(j) /\ erasedAt[j] <= db.mark[j].at
    BY <1>1, <2>1 DEF MarksTrue, MarksTell
  <2>3. /\ retentionMs(seen) \in Nat
        /\ retentionMs(seen) >= Revival + Margin /\ retentionMs(seen) >= retention + Margin
    BY <1>1, RetentionTerms
  <2>4. CopyDays <= Margin + 1
    BY DEF CopiesWithinMargin
  <2> QED BY <1>4, <2>1, <2>2, <2>3, <2>4
<1> HIDE DEF stale
<1>6. MarksTrue'
  BY <1>1, <1>2, <1>3 DEF MarksTrue, MarksTell, Erased, Unmarked, copies
<1>7. LiveErased'
  <2>1. ASSUME NEW j \in stale PROVE ~ (Making /\ copy.db.rec[j] # "none")
    BY <1>1, <1>4, <1>5, <2>1 DEF CopiesOld
  <2> QED BY <1>1, <1>2, <1>3, <2>1 DEF LiveErased, Erased, Making, Live, Unmarked, copies
<1>8. CopiesOld' /\ RecoveryKnows'
  BY <1>1, <1>2 DEF CopiesOld, RecoveryKnows, Erased, Making, Live, settings, copies
<1>9. MarkOutlivesCopies'
  <2>1. ASSUME NEW j \in stale
        PROVE  /\ ~ (now < dump.expires /\ dump.db.rec[j] # "none")
               /\ ~ (now < backup.expires /\ j \in backup.jobs)
               /\ ~ (now < erasedAt[j] + Revival)
    BY <1>1, <1>4, <1>5, <2>1 DEF CopiesOld
  <2> QED BY <1>1, <1>2, <1>3, <2>1 DEF MarkOutlivesCopies, Live, settings, copies
<1> QED BY <1>6, <1>7, <1>8, <1>9 DEF HistoryInv

LEMMA PurgeMarksHistory == ASSUME CopiesWithinMargin, RecoveryInv, PurgeMarks PROVE HistoryInv'
<1>1. db.horizon \in Nat /\ horizon \in Nat
  BY DEF RecoveryInv, DataInv, RecoveryTypeOK, DB
<1> QED BY <1>1, PurgeHistory DEF PurgeMarks

LEMMA ClockHistory ==
    ASSUME CopiesWithinMargin, RecoveryInv,
           Day \/ (\E days \in Retentions : ChangeRetention(days)) \/ UNCHANGED recoveryVars
    PROVE  HistoryInv'
<1>1. RecoveryTypeOK /\ MarksTrue /\ LiveErased /\ CopiesOld /\ MarkOutlivesCopies /\ RecoveryKnows
  BY DEF RecoveryInv, DataInv, HistoryInv
<1>2. UNCHANGED <<db, copy, dump, backup, ledger, dr, erasedAt>>
  BY DEF Day, ChangeRetention, copies, recoveryVars
<1>3. /\ now \in Nat /\ now' \in Nat /\ now <= now'
      /\ Making => now' <= copy.at + CopyDays \/ now' = now
  BY <1>1, RecoveryConstants DEF RecoveryTypeOK, Day, ChangeRetention, recoveryVars, Making
<1>4. retention \in Nat /\ retention' \in Nat /\ retention <= retention'
  BY <1>1, RecoveryConstants
     DEF RecoveryTypeOK, Day, ChangeRetention, recoveryVars, CopiesWithinMargin
<1>5. MarksTrue' /\ LiveErased' /\ RecoveryKnows'
  BY <1>1, <1>2 DEF MarksTrue, MarksTell, LiveErased, RecoveryKnows, Erased, Making, Live, Listed
<1>6. /\ copy.at \in Nat /\ dump.expires \in Nat /\ backup.expires \in Nat
      /\ CopyDays \in Nat /\ Revival \in Nat /\ \A j \in Jobs : erasedAt[j] \in Nat
  BY <1>1, RecoveryConstants DEF RecoveryTypeOK, Never
<1>7. CopiesOld'
  BY <1>1, <1>2, <1>3, <1>4, <1>6 DEF CopiesOld, Erased, Making
<1>8. MarkOutlivesCopies'
  BY <1>1, <1>2, <1>3, <1>6 DEF MarkOutlivesCopies, Live
<1> QED BY <1>5, <1>7, <1>8 DEF HistoryInv

LEMMA SnapshotHistory ==
    ASSUME RecoveryInv, NEW kind \in {"dump", "backup"}, Snapshot(kind)
    PROVE  HistoryInv'
<1>1. RecoveryTypeOK /\ MarksTrue /\ LiveErased /\ CopiesOld /\ MarkOutlivesCopies
  BY DEF RecoveryInv, DataInv, HistoryInv
<1>2. /\ Live /\ copy'.db = db /\ copy'.at = now
      /\ UNCHANGED <<settings, db, dump, backup, ledger, dr, erasedAt>>
  BY DEF Snapshot
<1>3. now \in Nat /\ CopyDays \in Nat
  BY <1>1, RecoveryConstants DEF RecoveryTypeOK
<1>4. MarksTrue'
  BY <1>1, <1>2 DEF MarksTrue, MarksTell, Erased
<1>5. LiveErased'
  BY <1>1, <1>2 DEF LiveErased, Erased, Making, Live
<1>6. CopiesOld'
  BY <1>1, <1>2, <1>3 DEF CopiesOld, LiveErased, Erased, Making, settings
<1>7. RecoveryKnows' /\ MarkOutlivesCopies'
  BY <1>1, <1>2 DEF RecoveryKnows, MarkOutlivesCopies, Live, settings
<1> QED BY <1>4, <1>5, <1>6, <1>7 DEF HistoryInv

(* The copy that was in the making has been issued or given up.            *)
LEMMA NoLongerMaking ==
    ASSUME RecoveryInv, Live, copy' = NoCopy(copy.n), db'.rec = db.rec, db'.mark = db.mark,
           dump' = dump \/ dump'.db = copy.db, UNCHANGED <<ledger, dr, erasedAt>>
    PROVE  MarksTrue' /\ LiveErased' /\ RecoveryKnows'
<1>1. RecoveryTypeOK /\ MarksTrue /\ LiveErased
  BY DEF RecoveryInv, DataInv, HistoryInv
<1>2. /\ copy'.db = FirstDB /\ copy'.kind = "none"
      /\ \A j \in Jobs : FirstDB.rec[j] = "active" /\ FirstDB.mark[j].status = "none"
  BY <1>1, NoCopyFields
<1>3. MarksTrue'
  BY <1>1, <1>2 DEF MarksTrue, MarksTell, Erased
<1>4. LiveErased'
  BY <1>1, <1>2 DEF LiveErased, Erased, Making, Live
<1>5. RecoveryKnows'
  BY DEF RecoveryKnows, Live
<1> QED BY <1>3, <1>4, <1>5

LEMMA IssueNumbers ==
    ASSUME RecoveryTypeOK
    PROVE  /\ now \in Nat /\ retention \in Nat /\ copy.at \in Nat /\ dump.expires \in Nat
           /\ backup.expires \in Nat /\ CopyDays \in Nat /\ \A j \in Jobs : erasedAt[j] \in Nat
           /\ now + retention \in Nat
BY RecoveryConstants DEF RecoveryTypeOK, Never

LEMMA IssueDumpHistory == ASSUME RecoveryInv, IssueDump PROVE HistoryInv'
<1>1. RecoveryTypeOK /\ LiveErased /\ CopiesOld /\ MarkOutlivesCopies
  BY DEF RecoveryInv, DataInv, HistoryInv
<1>2. /\ Live /\ Making /\ copy' = NoCopy(copy.n) /\ recordBackupHorizon(now + retention)
      /\ dump' = [db |-> copy.db, expires |-> now + retention]
      /\ UNCHANGED <<settings, backup, ledger, dr, erasedAt>>
  BY DEF IssueDump, Making
<1>3. db'.rec = db.rec /\ db'.mark = db.mark
  BY <1>1, <1>2, IssueNumbers, DbHorizon DEF RecoveryTypeOK
<1>4. dump'.db = copy.db /\ dump'.expires = now + retention
  BY <1>2
<1>5. copy'.kind = "none"
  BY <1>2 DEF NoCopy
<1>6. MarksTrue' /\ LiveErased' /\ RecoveryKnows'
  BY <1>2, <1>3, <1>4, NoLongerMaking
<1>7. CopiesOld'
  BY <1>1, <1>2, <1>4, <1>5, IssueNumbers DEF CopiesOld, Erased, Making, settings
<1>8. MarkOutlivesCopies'
  BY <1>1, <1>2, <1>3, <1>4 DEF LiveErased, MarkOutlivesCopies, Erased, Live, settings
<1> QED BY <1>6, <1>7, <1>8 DEF HistoryInv

LEMMA DumpFailsHistory == ASSUME RecoveryInv, DumpFails PROVE HistoryInv'
<1>1. RecoveryTypeOK /\ CopiesOld /\ MarkOutlivesCopies
  BY DEF RecoveryInv, DataInv, HistoryInv
<1>2. /\ Live /\ copy' = NoCopy(copy.n)
      /\ UNCHANGED <<settings, db, dump, backup, ledger, dr, erasedAt>>
  BY DEF DumpFails
<1>3. copy'.kind = "none"
  BY <1>2 DEF NoCopy
<1>4. MarksTrue' /\ LiveErased' /\ RecoveryKnows'
  BY <1>2, NoLongerMaking
<1>5. CopiesOld' /\ MarkOutlivesCopies'
  BY <1>1, <1>2, <1>3 DEF CopiesOld, MarkOutlivesCopies, Erased, Making, Live, settings
<1> QED BY <1>4, <1>5 DEF HistoryInv

LEMMA IssueBackupHistory == ASSUME RecoveryInv, IssueBackup PROVE HistoryInv'
<1>1. RecoveryTypeOK /\ LiveErased /\ CopiesOld /\ MarkOutlivesCopies
  BY DEF RecoveryInv, DataInv, HistoryInv
<1>2. /\ Live /\ Making /\ copy' = NoCopy(copy.n)
      /\ backup' = [jobs |-> {j \in Jobs : copy.db.rec[j] = "done"}, expires |-> now + retention]
      /\ UNCHANGED <<settings, dump, ledger, dr, erasedAt>>
  BY DEF IssueBackup, Making
<1>3. db'.rec = db.rec /\ db'.mark = db.mark
  BY <1>1, IssueNumbers, DbHorizon DEF RecoveryTypeOK, IssueBackup
<1>4. /\ backup'.expires = now + retention
      /\ \A j \in Jobs : j \in backup'.jobs => copy.db.rec[j] # "none"
  BY <1>2
<1>5. copy'.kind = "none"
  BY <1>2 DEF NoCopy
<1>6. MarksTrue' /\ LiveErased' /\ RecoveryKnows'
  BY <1>2, <1>3, <1>4, NoLongerMaking
<1>7. CopiesOld'
  BY <1>1, <1>2, <1>4, <1>5, IssueNumbers DEF CopiesOld, Erased, Making, settings
<1>8. MarkOutlivesCopies'
  BY <1>1, <1>2, <1>3, <1>4 DEF LiveErased, MarkOutlivesCopies, Erased, Live, settings
<1> QED BY <1>6, <1>7, <1>8 DEF HistoryInv

LEMMA ExportHistory == ASSUME RecoveryInv, Export PROVE HistoryInv'
<1>1. MarksTrue /\ LiveErased /\ CopiesOld /\ MarkOutlivesCopies
  BY DEF RecoveryInv, HistoryInv
<1>2. /\ Live /\ ledger'.mark = db.mark
      /\ UNCHANGED <<settings, db, copies, dr, erasedAt>>
  BY DEF Export
<1>3. MarksTrue'
  BY <1>1, <1>2 DEF MarksTrue, MarksTell, Erased, copies
<1>4. LiveErased' /\ CopiesOld' /\ RecoveryKnows' /\ MarkOutlivesCopies'
  BY <1>1, <1>2
     DEF LiveErased, CopiesOld, RecoveryKnows, MarkOutlivesCopies, Erased, Making, Live, settings, copies
<1> QED BY <1>3, <1>4 DEF HistoryInv

LEMMA DisasterHistory == ASSUME RecoveryInv, Disaster PROVE HistoryInv'
<1>1. RecoveryTypeOK /\ MarksTrue /\ CopiesOld
  BY DEF RecoveryInv, DataInv, HistoryInv
<1>2. /\ db' = dump.db /\ copy' = NoCopy(copy.n) /\ dr' = DrAt("down")
      /\ UNCHANGED <<settings, dump, backup, ledger>>
  BY DEF Disaster
<1>3. \A j \in Jobs : erasedAt'[j] = IF Known(j) THEN erasedAt[j] ELSE Never
  BY DEF Disaster
<1>4. /\ copy'.db = FirstDB /\ copy'.kind = "none"
      /\ \A j \in Jobs : FirstDB.mark[j].status = "none"
  BY <1>1, <1>2, NoCopyFields
<1>5. dr'.at = "down"
  BY <1>2, DrFields DEF DrSteps
<1>6. MarksTrue'
  BY <1>1, <1>2, <1>3, <1>4 DEF MarksTrue, MarksTell, Erased, Known
<1>7. CopiesOld'
  BY <1>1, <1>2, <1>3, <1>4 DEF CopiesOld, Erased, Making, settings
<1>8. RecoveryKnows'
  BY <1>2, <1>3 DEF RecoveryKnows, Erased, Known, Listed
<1>9. LiveErased' /\ MarkOutlivesCopies'
  BY <1>5 DEF LiveErased, MarkOutlivesCopies, Live
<1> QED BY <1>6, <1>7, <1>8, <1>9 DEF HistoryInv

(* A step of a recovery: the marks it leaves, and the erasures it records. *)
LEMMA RecoveringHistory ==
    ASSUME RecoveryInv, ~ Live, dr'.at # "live", UNCHANGED <<settings, copies, ledger>>,
           \A j \in Jobs : \/ erasedAt'[j] = erasedAt[j]
                           \/ erasedAt'[j] = now /\ ~ Erased(j) /\ j \in Listed,
           \A j \in Jobs : db'.mark[j].status = "deleted" =>
               \/ db'.mark[j] \in {db.mark[j], ledger.mark[j]}
               \/ db'.mark[j].at = now /\ erasedAt'[j] # Never,
           \A j \in Jobs \ Listed : db'.mark[j] = db.mark[j]
    PROVE  HistoryInv'
<1>1. RecoveryTypeOK /\ MarksTrue /\ CopiesOld /\ RecoveryKnows
  BY DEF RecoveryInv, DataInv, HistoryInv
<1>2. now \in Nat /\ now # Never
  BY <1>1, RecoveryConstants DEF RecoveryTypeOK, Never
<1>3. \A j \in Jobs : /\ Erased(j) => erasedAt'[j] = erasedAt[j]
                      /\ erasedAt'[j] # Never => erasedAt'[j] <= now
  BY <1>1, <1>2 DEF CopiesOld, Erased
<1>4. MarksTrue'
  BY <1>1, <1>3 DEF MarksTrue, MarksTell, Erased, settings, copies
<1>5. CopiesOld'
  BY <1>1, <1>2, IssueNumbers DEF CopiesOld, Erased, Making, settings, copies
<1>6. RecoveryKnows'
  BY <1>1 DEF RecoveryKnows, Erased, Listed, Live
<1>7. LiveErased' /\ MarkOutlivesCopies'
  BY DEF LiveErased, MarkOutlivesCopies, Live
<1> QED BY <1>4, <1>5, <1>6, <1>7 DEF HistoryInv

LEMMA MergeMarkHistory == ASSUME RecoveryInv, NEW j \in Jobs, MergeMark(j) PROVE HistoryInv'
<1>1. RecoveryTypeOK /\ RecoverySteps /\ now \in Nat
  BY DEF RecoveryInv, DataInv, RecoveryTypeOK
<1>2. /\ dr.at = "merge" /\ j \in dr.todo
      /\ UNCHANGED <<settings, copies, ledger, erasedAt>>
  BY DEF MergeMark
<1>3. ~ Live /\ dr'.at = "merge" /\ j \in Listed
  BY <1>1, <1>2 DEF Live, RecoverySteps, MergeMark, RecoveryTypeOK
<1>4. \A k \in Jobs : \/ db'.mark[k] = db.mark[k]
                      \/ db'.mark[k] = ledger.mark[k] /\ k = j
  BY <1>1, MergedMark
<1> QED BY <1>2, <1>3, <1>4, RecoveringHistory

LEMMA ReplayCloseHistory == ASSUME RecoveryInv, ReplayClose PROVE HistoryInv'
<1> DEFINE j == dr.job
           m == [status |-> "deleted", at |-> now]
<1>1. RecoveryTypeOK /\ RecoverySteps /\ now \in Nat /\ now # Never
  BY RecoveryConstants DEF RecoveryInv, DataInv, RecoveryTypeOK, Never
<1>2. dr.at = "closing" /\ UNCHANGED <<settings, copies, ledger>>
  BY DEF ReplayClose
<1>3. j \in Jobs /\ j \in Listed /\ ~ Live
  BY <1>1, <1>2 DEF RecoverySteps, Listed, Live
<1>4. dr'.at = "replay"
  <2>1. CASE PassOver(j)
    BY <1>1, <1>3, <2>1, PassedOver
  <2>2. CASE dr' = [dr EXCEPT !.at = "replay", !.todo = @ \ {j}, !.job = NoJob]
    BY <1>1, <2>2 DEF RecoveryTypeOK
  <2> QED BY <2>1, <2>2 DEF ReplayClose
<1>5. \/ db' = db /\ erasedAt' = erasedAt
      \/ /\ db' = [db EXCEPT !.mark[j] = m]
         /\ erasedAt' = [erasedAt EXCEPT ![j] = IF @ = Never THEN now ELSE @]
  BY DEF ReplayClose, SetMark
<1>6. m \in Mark0 /\ m.at = now
  BY <1>1 DEF RecoveryTypeOK, Mark0, Statuses
<1> HIDE DEF j, m
<1>7. CASE db' = db /\ erasedAt' = erasedAt
  BY <1>2, <1>3, <1>4, <1>7, RecoveringHistory
<1>8. CASE /\ db' = [db EXCEPT !.mark[j] = m]
           /\ erasedAt' = [erasedAt EXCEPT ![j] = IF @ = Never THEN now ELSE @]
  <2>1. db'.mark[j] = m /\ \A k \in Jobs \ {j} : db'.mark[k] = db.mark[k]
    BY <1>1, <1>3, <1>6, <1>8, DbMark DEF RecoveryTypeOK
  <2>2. /\ erasedAt'[j] = IF Erased(j) THEN erasedAt[j] ELSE now
        /\ \A k \in Jobs \ {j} : erasedAt'[k] = erasedAt[k]
    BY <1>1, <1>3, <1>8 DEF RecoveryTypeOK, Erased
  <2>3. erasedAt'[j] # Never
    BY <1>1, <2>2 DEF Erased
  <2>4. \A k \in Jobs : \/ erasedAt'[k] = erasedAt[k]
                        \/ erasedAt'[k] = now /\ ~ Erased(k) /\ k \in Listed
    BY <1>3, <2>2
  <2>5. \A k \in Jobs : \/ db'.mark[k] \in {db.mark[k], ledger.mark[k]}
                        \/ db'.mark[k].at = now /\ erasedAt'[k] # Never
    BY <1>6, <2>1, <2>3
  <2> QED BY <1>2, <1>3, <1>4, <2>1, <2>4, <2>5, RecoveringHistory
<1> QED BY <1>5, <1>7, <1>8

(* The other steps of a recovery change neither a mark nor what was        *)
(* erased.                                                                 *)
LEMMA StepHistory ==
    ASSUME RecoveryInv,
           \/ Merge \/ AcceptStale \/ MergeHorizon \/ ReplayFails \/ ReplayEnds \/ Reconcile
           \/ DrCrash \/ (\E j \in Jobs : ReplayErase(j)) \/ (\E axes \in Authorities : Verify(axes))
    PROVE  HistoryInv'
<1>1. RecoveryTypeOK /\ db \in DB
  BY DEF RecoveryInv, DataInv, RecoveryTypeOK
<1>2. UNCHANGED <<settings, copies, ledger, erasedAt>>
  BY DEF Merge, AcceptStale, MergeHorizon, ReplayFails, ReplayEnds, Reconcile, DrCrash, ReplayErase, Verify
<1>3. ~ Live
  BY DEF Merge, AcceptStale, StartMerge, MergeHorizon, ReplayFails, ReplayEnds, Reconcile, DrCrash,
         ReplayErase, Verify, Live
<1>4. dr'.at # "live"
  <2>1. dr.at # "live" /\ dr \in Dr0
    BY <1>1, <1>3 DEF Live, RecoveryTypeOK, Dr0, DrSteps
  <2>2. ASSUME Merge \/ AcceptStale \/ MergeHorizon PROVE dr'.at # "live"
    BY <2>2 DEF Merge, AcceptStale, StartMerge, MergeHorizon, DrAt
  <2>3. ASSUME ReplayFails \/ (\E j \in Jobs : ReplayErase(j)) PROVE dr'.at # "live"
    BY <2>1, <2>3 DEF ReplayFails, PassOver, ReplayErase, Dr0
  <2>4. ASSUME \/ ReplayEnds \/ Reconcile \/ DrCrash
               \/ (\E axes \in Authorities : Verify(axes))
        PROVE dr'.at # "live"
    BY <2>4 DEF ReplayEnds, Reconcile, DrCrash, Verify, DrAt
  <2> QED BY <2>2, <2>3, <2>4
<1>5. db'.mark = db.mark
  <2>1. ASSUME MergeHorizon PROVE db'.mark = db.mark
    BY <1>1, <2>1 DEF MergeHorizon, recordBackupHorizon, DB
  <2>2. ASSUME Reconcile \/ (\E j \in Jobs : ReplayErase(j)) PROVE db'.mark = db.mark
    BY <1>1, <2>2 DEF Reconcile, ReplayErase, DB
  <2> QED BY <2>1, <2>2 DEF Merge, AcceptStale, ReplayFails, ReplayEnds, DrCrash, Verify
<1> QED BY <1>2, <1>3, <1>4, <1>5, RecoveringHistory

(* The system that goes live again has erased every job it knows erased.   *)
LEMMA CutoverHistory == ASSUME RecoveryInv, Cutover PROVE HistoryInv'
<1>1. RecoveryTypeOK /\ MarksTrue /\ CopiesOld /\ RecoveryKnows /\ DataInv
  BY DEF RecoveryInv, DataInv, HistoryInv
<1>2. /\ dr.at = "verified" /\ db' = [db EXCEPT !.sessions = TRUE] /\ dr' = DrAt("live")
      /\ UNCHANGED <<settings, copies, ledger, erasedAt>>
  BY DEF Cutover
<1>3. db'.rec = db.rec /\ db'.mark = db.mark
  BY <1>1, <1>2 DEF RecoveryTypeOK, DB
<1>4. ASSUME NEW j \in Jobs, Erased(j) PROVE db.mark[j].status = "deleted" /\ db.rec[j] = "none"
  BY <1>1, <1>2, <1>4, VerifiedReached DEF RecoveryKnows, Live
<1>5. MarksTrue' /\ CopiesOld'
  BY <1>1, <1>2, <1>3 DEF MarksTrue, MarksTell, CopiesOld, Erased, Making, settings, copies
<1>6. LiveErased'
  BY <1>2, <1>3, <1>4 DEF LiveErased, Erased
<1>7. MarkOutlivesCopies'
  BY <1>2, <1>3, <1>4 DEF MarkOutlivesCopies, Erased
<1>8. RecoveryKnows'
  BY <1>2, DrFields DEF RecoveryKnows, Live, DrSteps
<1> QED BY <1>5, <1>6, <1>7, <1>8 DEF HistoryInv

LEMMA RecoveryInductive ==
    ASSUME CopiesWithinMargin
    PROVE  RecoveryInv /\ [RecoveryNext]_recoveryVars => RecoveryInv'
<1> SUFFICES ASSUME RecoveryInv, [RecoveryNext]_recoveryVars PROVE RecoveryInv'
  OBVIOUS
<1>1. DataInv'
  BY DataInductive DEF RecoveryInv
<1>2. HistoryInv'
  <2>1. ASSUME NEW j \in Jobs, FinishJob(j) \/ MarkJob(j) \/ EraseData(j) \/ EraseFails(j)
                               \/ Confirm(j) \/ MergeMark(j) \/ ReplayErase(j)
        PROVE  HistoryInv'
    BY <2>1, JobHistory, ConfirmHistory, MergeMarkHistory, StepHistory
  <2>2. ASSUME \/ Merge \/ AcceptStale \/ MergeHorizon \/ ReplayFails \/ ReplayEnds \/ Reconcile
               \/ DrCrash
        PROVE  HistoryInv'
    BY <2>2, StepHistory
  <2>3. ASSUME IssueDump \/ DumpFails \/ IssueBackup \/ RestoreBackup \/ Export \/ PurgeMarks \/ Day
        PROVE  HistoryInv'
    BY <2>3, IssueDumpHistory, DumpFailsHistory, IssueBackupHistory, RestoreHistory, ExportHistory,
       PurgeMarksHistory, ClockHistory
  <2>4. ASSUME Disaster \/ ReplayClose \/ Cutover PROVE HistoryInv'
    BY <2>4, DisasterHistory, ReplayCloseHistory, CutoverHistory
  <2>5. ASSUME NEW days \in Retentions, ChangeRetention(days) PROVE HistoryInv'
    BY <2>5, ClockHistory
  <2>6. ASSUME NEW kind \in {"dump", "backup"}, Snapshot(kind) PROVE HistoryInv'
    BY <2>6, SnapshotHistory
  <2>7. ASSUME NEW axes \in Authorities, Verify(axes) PROVE HistoryInv'
    BY <2>7, StepHistory
  <2>8. CASE UNCHANGED recoveryVars
    BY <2>8, ClockHistory
  <2> QED BY <2>1, <2>2, <2>3, <2>4, <2>5, <2>6, <2>7, <2>8 DEF RecoveryNext
<1> QED BY <1>1, <1>2 DEF RecoveryInv

LEMMA RecoveryAlways == ASSUME CopiesWithinMargin PROVE RecoverySpec => []RecoveryInv
<1>1. RecoveryInit => RecoveryInv
  BY DataInit, HistoryInit DEF RecoveryInv
<1> QED BY <1>1, RecoveryInductive, PTL DEF RecoverySpec

(* While a dump or a backup that has not expired contains an erased job,   *)
(* or a queue may bring it back, the mark that keeps it out is there       *)
(* (deletionTombstones: retentionMs, the horizon recorded before a copy is *)
(* issued).                                                                *)
THEOREM MarksOutlive == ASSUME CopiesWithinMargin PROVE RecoverySpec => []MarkOutlivesCopies
<1>1. RecoveryInv => MarkOutlivesCopies
  BY DEF RecoveryInv, HistoryInv
<1> QED BY <1>1, RecoveryAlways, PTL

(* No late message, no backup and no recovery brings the record of an      *)
(* erased job back into the running system.                                *)
THEOREM ErasedForGood == ASSUME CopiesWithinMargin PROVE RecoverySpec => ErasedStaysErased
<1> DEFINE Stays == \A j \in Jobs :
          erasedAt[j] # Never /\ Live /\ db.rec[j] = "none" /\ dr'.at = "live" => db'.rec[j] = "none"
<1>1. RecoveryInv /\ RecoveryInv' /\ [RecoveryNext]_recoveryVars => [Stays]_recoveryVars
  <2> SUFFICES ASSUME RecoveryInv, RecoveryInv', [RecoveryNext]_recoveryVars,
                      NEW j \in Jobs, Erased(j), Live, dr'.at = "live"
               PROVE  db'.rec[j] = "none"
    BY DEF Erased
  <2>1. RecoveryTypeOK /\ now # Never
    BY RecoveryConstants DEF RecoveryInv, DataInv, RecoveryTypeOK, Never
  <2>2. erasedAt' = erasedAt \/ \E k \in Jobs : erasedAt' = [erasedAt EXCEPT ![k] = now]
    <3>1. ASSUME NEW k \in Jobs, FinishJob(k) \/ MarkJob(k) \/ EraseData(k) \/ EraseFails(k)
                                 \/ Confirm(k) \/ MergeMark(k) \/ ReplayErase(k)
          PROVE  erasedAt' = erasedAt \/ erasedAt' = [erasedAt EXCEPT ![k] = now]
      BY <3>1 DEF FinishJob, MarkJob, EraseData, EraseFails, Confirm, MergeMark, ReplayErase
    <3>2. ASSUME \/ Merge \/ AcceptStale \/ MergeHorizon \/ ReplayFails \/ ReplayEnds \/ Reconcile
                 \/ DrCrash \/ Cutover
          PROVE  erasedAt' = erasedAt
      BY <3>2 DEF Merge, AcceptStale, MergeHorizon, ReplayFails, ReplayEnds, Reconcile, DrCrash, Cutover
    <3>3. ASSUME \/ IssueDump \/ DumpFails \/ IssueBackup \/ RestoreBackup \/ Export \/ PurgeMarks
                 \/ Day \/ UNCHANGED recoveryVars
          PROVE  erasedAt' = erasedAt
      BY <3>3 DEF IssueDump, DumpFails, IssueBackup, RestoreBackup, Export, PurgeMarks, PurgeWith, Day,
                  recoveryVars
    <3>4. ASSUME NEW axes \in Authorities, Verify(axes) PROVE erasedAt' = erasedAt
      BY <3>4 DEF Verify
    <3>5. ASSUME NEW days \in Retentions, ChangeRetention(days) PROVE erasedAt' = erasedAt
      BY <3>5 DEF ChangeRetention
    <3>6. ASSUME NEW kind \in {"dump", "backup"}, Snapshot(kind) PROVE erasedAt' = erasedAt
      BY <3>6 DEF Snapshot
    <3>7. ~ Disaster /\ ~ ReplayClose
      BY DEF Disaster, ReplayClose, Live, DrAt
    <3> QED BY <3>1, <3>2, <3>3, <3>4, <3>5, <3>6, <3>7 DEF RecoveryNext
  <2>3. erasedAt'[j] # Never
    BY <2>1, <2>2 DEF Erased, RecoveryTypeOK
  <2>4. LiveErased'
    BY DEF RecoveryInv, HistoryInv
  <2> QED BY <2>3, <2>4 DEF LiveErased, Erased, Live
<1>2. RecoverySpec => [][Stays]_recoveryVars
  BY <1>1, RecoveryAlways, PTL DEF RecoverySpec
<1> QED BY <1>2 DEF ErasedStaysErased
=============================================================================
