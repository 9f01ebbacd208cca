----------------------------- MODULE DeletionRetry -----------------------------
(***************************************************************************)
(* The retry of erasures and of audio cleanups that failed                 *)
(* (deletionRetry.js): when a job is due, how its attempts are counted and *)
(* where the count is kept when the store that should keep it is down too. *)
(* A step is a function of what is kept of one job: in its record and in   *)
(* the memory of the process.  What an erasure itself does is in Erasure.  *)
(***************************************************************************)
EXTENDS Integers

\* A time that may be missing is a set of at most one time.
Times == {{}} \cup {{t} : t \in Nat}

Kept == [attempts : Nat, next : Times]

\* No entry of atsarginiaiBandymai: no attempts, no time.
NoBackup == [attempts |-> 0, next |-> {}]

\* stored: the fields of the record; backup: the entry of this process.
RetryState == [stored : Kept, backup : Kept]

MAX_ATTEMPTS_BEFORE_ALERT == 3
MAX_BACKOFF_MULTIPLIER == 32

multiplier(attempts) ==
    IF attempts <= 1 THEN 1 ELSE IF attempts = 2 THEN 2 ELSE IF attempts = 3 THEN 4
    ELSE IF attempts = 4 THEN 8 ELSE IF attempts = 5 THEN 16 ELSE MAX_BACKOFF_MULTIPLIER

backoffMs(attempts, base) == base * multiplier(attempts)

isDue(s, now) == \A t \in s.stored.next \cup s.backup.next : t <= now

Counted(s) ==
    IF s.stored.attempts > s.backup.attempts THEN s.stored.attempts ELSE s.backup.attempts

bandymuSkaicius(s) == Counted(s) + 1

\* The store takes the update, or the process keeps it; a patch without a time leaves that
\* of the record alone, and a time is made for the entry of the process.
issaugotiBandyma(s, patch, attempts, next, saved) ==
    IF saved THEN [stored |-> patch, backup |-> NoBackup]
    ELSE [stored |-> s.stored, backup |-> [attempts |-> attempts, next |-> {next}]]

\* After an attempt that failed.
AfterFailure(s, now, base, saved) ==
    LET attempts == bandymuSkaicius(s)
        next == now + backoffMs(attempts, base)
    IN issaugotiBandyma(s, [attempts |-> attempts, next |-> {next}], attempts, next, saved)

AlertsOperator(s) == bandymuSkaicius(s) >= MAX_ATTEMPTS_BEFORE_ALERT

\* One job of retryPendingDeletions(): marked is the status of its mark, or "none".  A mark
\* whose executor gave up is left to the operator.
deletionOutcome(s, now, marked, criticalFailure) ==
    IF ~ isDue(s, now) THEN "deferred"
    ELSE IF marked = "deletion_failed" THEN "unresolved"
    ELSE IF criticalFailure THEN "failed" ELSE "succeeded"

\* One job of retryPendingAudioCleanups(); without a key there is nothing left to remove.
audioOutcome(s, now, hasKey, removed) ==
    IF ~ isDue(s, now) THEN "deferred"
    ELSE IF ~ hasKey THEN "settled"
    ELSE IF removed THEN "succeeded" ELSE "failed"

afterDeletion(s, now, base, outcome, saved) ==
    IF outcome = "failed" THEN AfterFailure(s, now, base, saved) ELSE s

\* audio_cleanup_pending becomes false when there is no key; count and time stay.
afterAudio(s, now, base, outcome, saved) ==
    IF outcome = "failed" THEN AfterFailure(s, now, base, saved)
    ELSE IF outcome = "settled"
    THEN issaugotiBandyma(s, s.stored, bandymuSkaicius(s),
                          now + backoffMs(bandymuSkaicius(s), base), saved)
    ELSE s
=============================================================================
