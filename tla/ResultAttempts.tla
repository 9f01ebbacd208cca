--------------------------- MODULE ResultAttempts ---------------------------
(***************************************************************************)
(* Committing a result that lives outside the database                     *)
(* (utils/jobStore/postgresStore.js with utils/attemptRegistry.js): the    *)
(* object goes to an object store, its address to job_results, and every   *)
(* attempt to write one is a row of job_result_attempts, registered before *)
(* the object is put.  Three parties work on the same job without a common *)
(* lock: the runs that finish it, the erasure of the job, and the          *)
(* retention sweep that collects what no run committed.                    *)
(*                                                                         *)
(* Every attempt has an address of its own, so an attempt stands for its   *)
(* row, its object and the reference to it.                                *)
(***************************************************************************)
EXTENDS Naturals

CONSTANTS
    Attempts,    \* bound: the attempts the runs may register
    NoAttempt,
    Writers,     \* the runs that finish the job
    Results,     \* what a run may produce, up to the checksum
    NoResult,
    Fence,       \* MAX_RASYMO_TRUKME_MS: a row this old can no longer commit
    Horizon,     \* revivalHorizonsMs().horizonMs
    SlowPuts     \* a put may outlast Horizon + Fence

ASSUME AttemptAssumption == NoAttempt \notin Attempts /\ NoResult \notin Results
ASSUME TimesAssumption == Fence \in Nat \ {0} /\ Horizon \in Nat

(* Beyond this age nothing depends on the age of a row.                    *)
Old == Horizon + Fence + 1

VARIABLES
    job,      \* "processing", "completed", "failed" or "gone"
    ref,      \* job_results: the referenced attempt ...
    result,   \* ... and the checksum of its content
    row,      \* row[a]: busena and age of a's row; "none" without one
    object,   \* the attempts whose object exists
    used,     \* attempt ids drawn so far: a UUID never comes twice
    writer,   \* writer[w]: where w's finish(COMPLETED) is
    mark,     \* the erasure mark: "none", "unresolved" or "deleted"
    eraser,   \* where the erasure is, and the artefacts it has listed
    sweeper   \* the candidate the retention sweep is at

vars == <<job, ref, result, row, object, used, writer, mark, eraser, sweeper>>

WriterSteps == {"idle", "check", "head", "register", "put", "verify", "commit", "clean", "note", "done"}

NoRow == [busena |-> "none", age |-> 0]
WriterIdle == [at |-> "idle", value |-> NoResult, attempt |-> NoAttempt,
               seen |-> NoAttempt, again |-> "no"]
EraserIdle == [at |-> "idle", listed |-> {}, left |-> {}, failed |-> FALSE]
SweeperIdle == [at |-> "idle", attempt |-> NoAttempt]

TypeOK ==
    /\ job \in {"processing", "completed", "failed", "gone"}
    /\ ref \in Attempts \cup {NoAttempt} /\ result \in Results \cup {NoResult}
    /\ row \in [Attempts -> [busena : {"none", "pending", "committed", "abandoned"}, age : 0 .. Old]]
    /\ object \subseteq Attempts /\ used \subseteq Attempts
    /\ writer \in [Writers -> [at : WriterSteps, value : Results \cup {NoResult},
                               attempt : Attempts \cup {NoAttempt}, seen : Attempts \cup {NoAttempt},
                               again : {"no", "wanted", "used"}]]
    /\ mark \in {"none", "unresolved", "deleted"}
    /\ eraser \in [at : {"idle", "list", "objects"}, listed : SUBSET Attempts,
                   left : SUBSET Attempts, failed : BOOLEAN]
    /\ sweeper \in [at : {"idle", "object", "row"}, attempt : Attempts \cup {NoAttempt}]

NothingWritten ==
    /\ ref = NoAttempt /\ result = NoResult
    /\ row = [a \in Attempts |-> NoRow]
    /\ object = {} /\ used = {}
    /\ mark = "none" /\ eraser = EraserIdle /\ sweeper = SweeperIdle

Init ==
    /\ job = "processing" /\ NothingWritten
    /\ writer = [w \in Writers |-> WriterIdle]

-----------------------------------------------------------------------------
(* One run's finish(COMPLETED).                                            *)

WriterTo(w, step) == writer' = [writer EXCEPT ![w].at = step]
Done(w) == writer' = [writer EXCEPT ![w] = [WriterIdle EXCEPT !.at = "done"]]
OnlyWriter == UNCHANGED <<job, ref, result, row, object, used, mark, eraser, sweeper>>

(* finish() of the facade asks the erasure barrier once, at the start.     *)
Begin(w) ==
    /\ writer[w].at = "idle" /\ mark = "none"
    /\ \E r \in Results :
         writer' = [writer EXCEPT ![w] = [WriterIdle EXCEPT !.at = "check", !.value = r]]
    /\ OnlyWriter

(* paruostiExternalRasyma(): a committed result with the same checksum is  *)
(* looked up; when its object is there nothing is written, when it is      *)
(* gone this attempt will replace it.                                      *)
Check(w) ==
    /\ writer[w].at = "check"
    /\ writer' = IF ref # NoAttempt /\ result = writer[w].value
                 THEN [writer EXCEPT ![w].at = "head", ![w].seen = ref]
                 ELSE [writer EXCEPT ![w].at = "register"]
    /\ OnlyWriter

Head_NoProbe(w) ==
    /\ writer[w].at = "head"
    /\ WriterTo(w, "register")
    /\ OnlyWriter

Head(w) ==
    /\ writer[w].at = "head"
    /\ WriterTo(w, IF writer[w].seen \in object THEN "commit" ELSE "register")
    /\ OnlyWriter

Register(w) ==
    /\ writer[w].at = "register"
    /\ \E a \in Attempts \ used :
         /\ used' = used \cup {a}
         /\ row' = [row EXCEPT ![a] = [busena |-> "pending", age |-> 0]]
         /\ writer' = [writer EXCEPT ![w].at = "put", ![w].attempt = a]
    /\ UNCHANGED <<job, ref, result, object, mark, eraser, sweeper>>

(* The put succeeds, or fails with or without an object left behind.       *)
Put(w) ==
    /\ writer[w].at = "put"
    /\ \/ object' = object \cup {writer[w].attempt} /\ WriterTo(w, "verify")
       \/ object' \in {object, object \cup {writer[w].attempt}} /\ WriterTo(w, "clean")
    /\ UNCHANGED <<job, ref, result, row, used, mark, eraser, sweeper>>

Verify(w) ==
    /\ writer[w].at = "verify"
    /\ WriterTo(w, IF writer[w].attempt \in object THEN "commit" ELSE "clean")
    /\ OnlyWriter

-----------------------------------------------------------------------------
(* finishAtomicVienaKartas(): one transaction under the lock of the job's  *)
(* row.                                                                    *)

(* isipareigoti(): at most one committed attempt; and the fence, on the    *)
(* age of the row at that very moment.                                     *)
FenceHolds_Always(a) == row[a].busena = "pending"

FenceHolds(a) == row[a].busena = "pending" /\ row[a].age < Fence

isipareigoti_KeepOld(a) == [row EXCEPT ![a].busena = "committed"]

isipareigoti(a) ==
    [b \in Attempts |->
        IF b = a THEN [row[b] EXCEPT !.busena = "committed"]
        ELSE IF row[b].busena = "committed" THEN [row[b] EXCEPT !.busena = "abandoned"]
        ELSE row[b]]

(* A repair replaces the reference only while it is the one the check saw. *)
RepairStillValid(w) == writer[w].seen # NoAttempt /\ writer[w].seen = ref

Wants(w) ==
    /\ writer[w].attempt # NoAttempt
    /\ \/ job = "processing"
       \/ job = "completed" /\ result = writer[w].value /\ RepairStillValid(w)

(* The attempt is committed; or the fence turns it away, and the whole     *)
(* call is repeated once; or the transaction fails at COMMIT, when the     *)
(* code already takes the attempt for committed.                           *)
Commit(w) ==
    LET a == writer[w].attempt IN
    /\ writer[w].at = "commit" /\ Wants(w)
    /\ \/ /\ FenceHolds(a)
          /\ job' = "completed" /\ ref' = a /\ result' = writer[w].value
          /\ row' = isipareigoti(a)
          /\ Done(w)
       \/ /\ FenceHolds(a)
          /\ Done(w)
          /\ UNCHANGED <<job, ref, result, row>>
       \/ /\ ~FenceHolds(a)
          /\ writer' = [writer EXCEPT ![w].at = "clean",
                                      ![w].again = IF @ = "no" THEN "wanted" ELSE @]
          /\ UNCHANGED <<job, ref, result, row>>
    /\ UNCHANGED <<object, used, mark, eraser, sweeper>>

(* Any other answer commits nothing: the job has ended otherwise or is     *)
(* gone, another result is there, or the same one is and is only read.     *)
Lose(w) ==
    /\ writer[w].at = "commit" /\ ~Wants(w)
    /\ IF writer[w].attempt = NoAttempt THEN Done(w) ELSE WriterTo(w, "clean")
    /\ OnlyWriter

Cleaned(a) == {object, object \ {a}}

(* isvalytiBandyma(): the object goes, or its removal fails; the row is    *)
(* noted as abandoned either way, or that fails too.                       *)
Clean(w) ==
    /\ writer[w].at = "clean"
    /\ object' \in Cleaned(writer[w].attempt)
    /\ WriterTo(w, "note")
    /\ UNCHANGED <<job, ref, result, row, used, mark, eraser, sweeper>>

Note(w) ==
    LET a == writer[w].attempt IN
    /\ writer[w].at = "note"
    /\ \/ row' = row
       \/ row[a].busena # "none" /\ row' = [row EXCEPT ![a].busena = "abandoned"]
    /\ IF writer[w].again = "wanted"
       THEN writer' = [writer EXCEPT ![w] = [WriterIdle EXCEPT !.at = "check", !.value = writer[w].value,
                                                               !.again = "used"]]
       ELSE Done(w)
    /\ UNCHANGED <<job, ref, result, object, used, mark, eraser, sweeper>>

WriterCrash(w) ==
    /\ writer[w].at \notin {"idle", "done"}
    /\ Done(w)
    /\ OnlyWriter

(* finishFailed() of another thread of the same job.                       *)
FailJob ==
    /\ job = "processing" /\ mark = "none"
    /\ job' = "failed"
    /\ UNCHANGED <<ref, result, row, object, used, writer, mark, eraser, sweeper>>

-----------------------------------------------------------------------------
(* The erasure: the mark, then the artefacts that are listed, then the     *)
(* record, which is refused while the list is out of date or an attempt is *)
(* still pending.  A failed or interrupted erasure leaves the mark         *)
(* unresolved; the operator has it tried again.                            *)

listResultArtifacts == {a \in Attempts : row[a].busena # "none" \/ a = ref}

EraseBegin ==
    /\ eraser.at = "idle" /\ job # "gone"
    /\ mark' = "unresolved"
    /\ eraser' = [eraser EXCEPT !.at = "list"]
    /\ UNCHANGED <<job, ref, result, row, object, used, writer, sweeper>>

(* deleteResultArtifacts(): what it lists is also what remove() is told.   *)
EraseList ==
    /\ eraser.at = "list"
    /\ eraser' = [eraser EXCEPT !.at = "objects", !.listed = listResultArtifacts,
                                !.left = listResultArtifacts]
    /\ UNCHANGED <<job, ref, result, row, object, used, writer, mark, sweeper>>

(* An object is probed and removed, or found missing, or not removed.      *)
EraseObject(a) ==
    /\ eraser.at = "objects" /\ a \in eraser.left
    /\ object' = object \ {a}
    /\ eraser' = [eraser EXCEPT !.left = @ \ {a}]
    /\ UNCHANGED <<job, ref, result, row, used, writer, mark, sweeper>>

EraseObjectFails(a) ==
    /\ eraser.at = "objects" /\ a \in eraser.left \cap object
    /\ eraser' = [eraser EXCEPT !.left = @ \ {a}, !.failed = TRUE]
    /\ UNCHANGED <<job, ref, result, row, object, used, writer, mark, sweeper>>

(* remove(..., { tiketiniAdresai }), in one transaction.                   *)
RemovalRefused ==
    \/ \E a \in listResultArtifacts : row[a].busena = "pending"
    \/ ~ (listResultArtifacts \subseteq eraser.listed)

EraseRecord ==
    /\ eraser.at = "objects" /\ eraser.left = {}
    /\ IF eraser.failed \/ RemovalRefused
       THEN UNCHANGED <<job, ref, result, row, mark>>
       ELSE /\ row' = [a \in Attempts |-> NoRow]
            /\ job' = "gone" /\ ref' = NoAttempt /\ result' = NoResult /\ mark' = "deleted"
    /\ eraser' = EraserIdle
    /\ UNCHANGED <<object, used, writer, sweeper>>

EraserCrash ==
    /\ eraser.at # "idle"
    /\ eraser' = EraserIdle
    /\ UNCHANGED <<job, ref, result, row, object, used, writer, mark, sweeper>>

-----------------------------------------------------------------------------
(* The retention sweep: valytiniBandymai() selects, sweepResultArtifacts() *)
(* removes the object, pasalintiBandymus() the row.  The second look at    *)
(* the row that arVisDarSluotina() offers is not taken: the facade does    *)
(* not hand on the age it needs (jobStore/index.js:1437-1442).             *)

SweepAge_Short(busena) == Horizon

SweepAge(busena) == IF busena = "pending" THEN Horizon + Fence ELSE Horizon

Candidate_AbandonedOnly(a) ==
    row[a].busena = "abandoned" /\ a # ref /\ mark # "unresolved" /\ row[a].age > SweepAge("abandoned")

Candidate(a) ==
    /\ row[a].busena \in {"pending", "abandoned"}
    /\ a # ref
    /\ mark # "unresolved"
    /\ row[a].age > SweepAge(row[a].busena)

Select ==
    /\ sweeper.at = "idle"
    /\ \E a \in Attempts : Candidate(a) /\ sweeper' = [at |-> "object", attempt |-> a]
    /\ UNCHANGED <<job, ref, result, row, object, used, writer, mark, eraser>>

SweepObject ==
    /\ sweeper.at = "object"
    /\ object' = object \ {sweeper.attempt}
    /\ sweeper' = [sweeper EXCEPT !.at = "row"]
    /\ UNCHANGED <<job, ref, result, row, used, writer, mark, eraser>>

SweepFails ==
    /\ sweeper.at = "object" /\ sweeper.attempt \in object
    /\ sweeper' = SweeperIdle
    /\ UNCHANGED <<job, ref, result, row, object, used, writer, mark, eraser>>

SweepRow ==
    LET a == sweeper.attempt IN
    /\ sweeper.at = "row"
    /\ row' = IF row[a].busena = "committed" THEN row ELSE [row EXCEPT ![a] = NoRow]
    /\ sweeper' = SweeperIdle
    /\ UNCHANGED <<job, ref, result, object, used, writer, mark, eraser>>

-----------------------------------------------------------------------------
(* Time: every row grows older, up to where its age no longer matters.     *)
PutUnderWay(a) == \E w \in Writers : writer[w].at = "put" /\ writer[w].attempt = a

Aged(a) == row[a].busena # "none" /\ row[a].age < Old

Tick ==
    /\ \E a \in Attempts : Aged(a)
    /\ SlowPuts \/ \A a \in Attempts : PutUnderWay(a) => row[a].age < Horizon + Fence
    /\ row' = [a \in Attempts |-> IF Aged(a) THEN [row[a] EXCEPT !.age = @ + 1] ELSE row[a]]
    /\ UNCHANGED <<job, ref, result, object, used, writer, mark, eraser, sweeper>>

WriterStep(w) ==
    \/ Check(w) \/ Head(w) \/ Register(w) \/ Put(w) \/ Verify(w)
    \/ Commit(w) \/ Lose(w) \/ Clean(w) \/ Note(w)

KeptNext ==
    \/ \E w \in Writers : Begin(w) \/ WriterStep(w) \/ WriterCrash(w)
    \/ FailJob
    \/ Select \/ SweepObject \/ SweepFails \/ SweepRow
    \/ Tick

(* The job is erased, and erased again, at any moment.                     *)
EraseNext ==
    \/ EraseBegin \/ EraseList \/ EraseRecord \/ EraserCrash
    \/ \E a \in Attempts : EraseObject(a) \/ EraseObjectFails(a)

Next == KeptNext \/ EraseNext

Spec == Init /\ [][Next]_vars

(* A job nobody erases.  A run that began goes on until it returns or      *)
(* dies; time passes; the sweep runs periodically and does not fail for    *)
(* ever.                                                                   *)
KeptFairness ==
    /\ \A w \in Writers : WF_vars(WriterStep(w))
    /\ WF_vars(Tick)
    /\ WF_vars(Select) /\ SF_vars(SweepObject) /\ WF_vars(SweepRow)

KeptSpec == Init /\ [][KeptNext]_vars /\ KeptFairness

-----------------------------------------------------------------------------
(* A completed job that nobody erases has its content: the sweep, another  *)
(* run's clean-up and a repair never remove the object that is referenced. *)
ReferencedObjectPresent == (ref # NoAttempt /\ mark = "none") => ref \in object

(* The reference and the registry agree: the committed attempt is the one  *)
(* that is referenced, and it is the only one.                             *)
CommittedIsReferenced ==
    \A a \in Attempts : row[a].busena = "committed" <=> (a = ref)

(* Once there, a result is never exchanged for another, and its reference  *)
(* moves only when the object it names is lost.                            *)
ReplacedOnlyWhenLost ==
    [][ (ref # NoAttempt /\ ref' \notin {ref, NoAttempt})
            => (ref \notin object /\ result' = result) ]_vars

(* No object drops out of the books: as long as it exists, its attempt has *)
(* a row by which the sweep or an erasure will find it, or its run is      *)
(* still at it (postgresStore.js:2374-2390).                               *)
NoUntrackedObject ==
    \A a \in object :
        \/ row[a].busena # "none"
        \/ \E w \in Writers : writer[w].attempt = a /\ writer[w].at \in {"verify", "commit", "clean"}

(* Every object that no run committed is collected in the end, whatever    *)
(* its run and the sweep failed at.                                        *)
OrphansSwept ==
    \A a \in Attempts : (a \in object /\ a # ref) ~> (a \notin object \/ a = ref)
=============================================================================
