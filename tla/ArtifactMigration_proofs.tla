---------------------- MODULE ArtifactMigration_proofs ----------------------
(***************************************************************************)
(* Proofs about ArtifactMigration and ResultAttempts, for any number of    *)
(* runs, migrants, attempts and results, any fence and any horizon.        *)
(*                                                                         *)
(* An attempt is in the hands of the one run or migrant that registered    *)
(* it.  So the invariant has a part about what is shared (Shared), one     *)
(* about what a run or a migrant holds (WriterFits, MigrantFits), and one  *)
(* that keeps the holders apart (Apart); what a step does to an attempt is *)
(* stated once, for whoever takes it.                                      *)
(***************************************************************************)
EXTENDS ArtifactMigration, TLAPS

USE AttemptAssumption, TimesAssumption

RowRec == [busena : {"none", "pending", "committed", "abandoned"}, age : 0 .. Old]

WriterRec == [at : WriterSteps, value : Results \cup {NoResult},
              attempt : Attempts \cup {NoAttempt}, seen : Attempts \cup {NoAttempt},
              again : {"no", "wanted", "used"}]

MigrantRec == [at : MigrantSteps, value : Results \cup {NoResult},
               attempt : Attempts \cup {NoAttempt}, fail : BOOLEAN]

SharedType ==
    /\ job \in {"processing", "completed", "failed", "gone"}
    /\ ref \in Attempts \cup {NoAttempt} /\ result \in Results \cup {NoResult}
    /\ row \in [Attempts -> RowRec]
    /\ object \subseteq Attempts /\ used \subseteq Attempts
    /\ mark \in {"none", "unresolved", "deleted"}
    /\ eraser \in [at : {"idle", "list", "objects"}, listed : SUBSET Attempts,
                   left : SUBSET Attempts, failed : BOOLEAN]
    /\ sweeper \in [at : {"idle", "object", "row"}, attempt : Attempts \cup {NoAttempt}]
    /\ inline \in Results \cup {NoResult} /\ progress \in {"none", "failed", "done"}

\* An attempt is known from its registration on.  A candidate of the sweep can
\* no longer be committed: its row is past the fence, or pending no more.
Shared ==
    /\ SharedType
    /\ \A a \in Attempts : row[a].busena # "none" => a \in used
    /\ object \subseteq used /\ ref \in used \cup {NoAttempt}
    /\ CommittedIsReferenced /\ ReferencedObjectPresent
    /\ job = "processing" => ref = NoAttempt
    /\ inline # NoResult => ref = NoAttempt /\ job = "completed"
    /\ eraser.at # "idle" => mark # "none"
    /\ sweeper.at # "idle" =>
          /\ sweeper.attempt \in used /\ sweeper.attempt # ref
          /\ row[sweeper.attempt].busena = "pending" => row[sweeper.attempt].age >= Fence

\* What can still be committed is there, unless the job is being erased.
Held(a) == (FenceHolds(a) /\ mark = "none") => a \in object

\* A run that found the object of an equal result missing and will repair it.
Repairs(x) ==
    /\ x.seen # NoAttempt
    /\ x.at \in {"register", "put", "verify"} \/ (x.at = "commit" /\ x.attempt # NoAttempt)

WriterFits(x) ==
    /\ x.at \in {"idle", "check", "head", "register", "done"} => x.attempt = NoAttempt
    /\ x.at \in {"put", "verify", "clean", "note"} => x.attempt # NoAttempt
    /\ x.at = "check" => x.seen = NoAttempt
    /\ x.attempt \in used \cup {NoAttempt} /\ x.seen \in used \cup {NoAttempt}
    /\ x.attempt # NoAttempt => x.attempt # ref
    /\ x.at = "commit" /\ x.attempt # NoAttempt => Held(x.attempt)
    /\ Repairs(x) => x.seen \notin object

MigrantFits(y) ==
    /\ y.at \in {"idle", "register"} => y.attempt = NoAttempt
    /\ y.at \in {"put", "verify", "switch", "clean", "note"} => y.attempt # NoAttempt
    /\ y.at # "idle" => y.value \in Results
    /\ y.attempt \in used \cup {NoAttempt}
    /\ y.attempt # NoAttempt => y.attempt # ref
    /\ y.at = "switch" => Held(y.attempt)

\* No attempt is in two hands, nor in the hands of anybody once it was referenced.
Apart ==
    /\ \A v, w \in Writers : v # w /\ writer[v].attempt = writer[w].attempt => writer[v].attempt = NoAttempt
    /\ \A m, n \in Migrants : m # n /\ migrant[m].attempt = migrant[n].attempt => migrant[m].attempt = NoAttempt
    /\ \A w \in Writers, m \in Migrants : writer[w].attempt = migrant[m].attempt => writer[w].attempt = NoAttempt
    /\ \A v, w \in Writers : writer[v].attempt = writer[w].seen => writer[v].attempt = NoAttempt
    /\ \A w \in Writers, m \in Migrants : migrant[m].attempt = writer[w].seen => migrant[m].attempt = NoAttempt

Hands ==
    /\ writer \in [Writers -> WriterRec] /\ migrant \in [Migrants -> MigrantRec]
    /\ \A w \in Writers : WriterFits(writer[w])
    /\ \A m \in Migrants : MigrantFits(migrant[m])
    /\ Apart

IInv == Shared /\ Hands

LEMMA TypeFromInv == IInv => MTypeOK
BY DEF IInv, Shared, SharedType, Hands, MTypeOK, TypeOK, WriterRec, MigrantRec, RowRec

LEMMA RecordsFit ==
    /\ WriterIdle \in WriterRec /\ MigrantIdle \in MigrantRec /\ NoRow \in RowRec
    /\ [WriterIdle EXCEPT !.at = "done"] \in WriterRec
BY DEF WriterIdle, WriterRec, MigrantIdle, MigrantRec, NoRow, RowRec, Old, WriterSteps, MigrantSteps

LEMMA InitInv == MInit => IInv
<1> SUFFICES ASSUME MInit PROVE IInv
  OBVIOUS
<1>1. Shared
  BY RecordsFit DEF MInit, NothingWritten, Shared, SharedType, CommittedIsReferenced,
     ReferencedObjectPresent, EraserIdle, SweeperIdle, NoRow
<1>2. \A w \in Writers : writer[w] \in {WriterIdle, [WriterIdle EXCEPT !.at = "done"]}
  BY DEF MInit
<1>3. writer \in [Writers -> WriterRec] /\ migrant \in [Migrants -> MigrantRec]
  BY RecordsFit DEF MInit
<1>4. \A w \in Writers : /\ writer[w].at \in {"idle", "done"} /\ writer[w].attempt = NoAttempt
                         /\ writer[w].seen = NoAttempt
  BY <1>2 DEF WriterIdle
<1>5. \A m \in Migrants : migrant[m].at = "idle" /\ migrant[m].attempt = NoAttempt
  BY DEF MInit, MigrantIdle
<1>6. \A w \in Writers : WriterFits(writer[w])
  BY <1>4 DEF WriterFits, Repairs
<1>7. \A m \in Migrants : MigrantFits(migrant[m])
  BY <1>5 DEF MigrantFits
<1>8. Apart
  BY <1>4, <1>5 DEF Apart
<1> QED
  BY <1>1, <1>3, <1>6, <1>7, <1>8 DEF IInv, Hands
-----------------------------------------------------------------------------
(* What a step does to the shared state, whoever takes it; a is the        *)
(* attempt in his hands, or NoAttempt.  Each keeps what the others hold.   *)

WritersKept(a) ==
    \A x \in WriterRec :
       WriterFits(x) /\ (a = NoAttempt \/ (x.attempt # a /\ x.seen # a)) => WriterFits(x)'

MigrantsKept(a) ==
    \A y \in MigrantRec : MigrantFits(y) /\ (a = NoAttempt \/ y.attempt # a) => MigrantFits(y)'

LEMMA RowUpdates ==
    ASSUME NEW r \in RowRec
    PROVE  /\ [busena |-> "pending", age |-> 0] \in RowRec
           /\ [r EXCEPT !.busena = "committed"] \in RowRec /\ [r EXCEPT !.busena = "abandoned"] \in RowRec
           /\ r.age < Old => [r EXCEPT !.age = @ + 1] \in RowRec
BY DEF RowRec, Old

LEMMA Registered ==
    ASSUME Shared, NEW a \in Attempts \ used,
           used' = used \cup {a}, row' = [row EXCEPT ![a] = [busena |-> "pending", age |-> 0]],
           UNCHANGED <<job, ref, result, object, mark, eraser, sweeper, inline, progress>>
    PROVE  Shared' /\ WritersKept(NoAttempt) /\ MigrantsKept(NoAttempt)
<1>1. \A b \in Attempts : b # a => row'[b] = row[b]
  BY DEF Shared, SharedType
<1>2. row'[a].busena = "pending" /\ row'[a].age = 0
  BY DEF Shared, SharedType
<1>3. row' \in [Attempts -> RowRec]
  BY RowUpdates DEF Shared, SharedType, RowRec, Old
<1>4. a # ref /\ row[a].busena = "none"
  BY DEF Shared, SharedType, RowRec
<1>5. Shared'
  BY <1>1, <1>2, <1>3, <1>4 DEF Shared, SharedType, CommittedIsReferenced, ReferencedObjectPresent
<1>6. \A x \in WriterRec : WriterFits(x) => WriterFits(x)'
  BY <1>1 DEF WriterFits, WriterRec, Held, FenceHolds, Repairs
<1>7. \A y \in MigrantRec : MigrantFits(y) => MigrantFits(y)'
  BY <1>1 DEF MigrantFits, MigrantRec, Held, FenceHolds
<1> QED
  BY <1>5, <1>6, <1>7 DEF WritersKept, MigrantsKept

LEMMA WasPut ==
    ASSUME Shared, NEW a \in used, object' \in {object, object \cup {a}},
           UNCHANGED <<job, ref, result, row, used, mark, eraser, sweeper, inline, progress>>
    PROVE  Shared' /\ WritersKept(a) /\ MigrantsKept(a)
<1>1. Shared'
  BY DEF Shared, SharedType, CommittedIsReferenced, ReferencedObjectPresent
<1>2. WritersKept(a)
  BY DEF WritersKept, WriterFits, WriterRec, Held, FenceHolds, Repairs
<1>3. MigrantsKept(a)
  BY DEF MigrantsKept, MigrantFits, MigrantRec, Held, FenceHolds
<1> QED
  BY <1>1, <1>2, <1>3

LEMMA WasCommitted ==
    ASSUME Shared, NEW a \in used, FenceHolds(a), Held(a), NEW r \in Results \cup {NoResult},
           job' = "completed", ref' = a, result' = r, row' = isipareigoti(a), inline' = NoResult,
           progress' \in {"none", "failed", "done"}, UNCHANGED <<object, used, mark, eraser, sweeper>>
    PROVE  Shared' /\ WritersKept(a) /\ MigrantsKept(a)
<1>1. a \in Attempts /\ row \in [Attempts -> RowRec]
  BY DEF Shared, SharedType
<1>2. row' \in [Attempts -> RowRec]
  BY <1>1, RowUpdates DEF isipareigoti
<1>3. \A b \in Attempts : /\ row'[b].age = row[b].age
                          /\ row'[b].busena = IF b = a THEN "committed"
                                             ELSE IF row[b].busena = "committed" THEN "abandoned"
                                             ELSE row[b].busena
  BY <1>1 DEF isipareigoti, RowRec
<1>4. sweeper.at # "idle" => sweeper.attempt # a
  BY <1>1 DEF Shared, SharedType, FenceHolds, RowRec, Old
<1>5. SharedType'
  BY <1>1, <1>2 DEF Shared, SharedType
<1>6. Shared'
  BY <1>1, <1>3, <1>4, <1>5 DEF Shared, SharedType, CommittedIsReferenced, ReferencedObjectPresent,
     Held, FenceHolds
<1>7. \A b \in Attempts : b # a /\ FenceHolds(b)' => FenceHolds(b)
  BY <1>3 DEF FenceHolds
<1>8. WritersKept(a)
  BY <1>7 DEF WritersKept, WriterFits, WriterRec, Held, Repairs
<1>9. MigrantsKept(a)
  BY <1>7 DEF MigrantsKept, MigrantFits, MigrantRec, Held
<1> QED
  BY <1>6, <1>8, <1>9

LEMMA WasCleaned ==
    ASSUME Shared, NEW a \in used, a # ref, object' \in Cleaned(a),
           UNCHANGED <<job, ref, result, row, used, mark, eraser, sweeper, inline, progress>>
    PROVE  Shared' /\ WritersKept(a) /\ MigrantsKept(a)
<1>1. Shared'
  BY DEF Shared, SharedType, CommittedIsReferenced, ReferencedObjectPresent, Cleaned
<1>2. WritersKept(a)
  BY DEF WritersKept, WriterFits, WriterRec, Held, FenceHolds, Repairs, Cleaned
<1>3. MigrantsKept(a)
  BY DEF MigrantsKept, MigrantFits, MigrantRec, Held, FenceHolds, Cleaned
<1> QED
  BY <1>1, <1>2, <1>3

LEMMA WasNoted ==
    ASSUME Shared, NEW a \in used, a # ref,
           row' = row \/ (row[a].busena # "none" /\ row' = [row EXCEPT ![a].busena = "abandoned"]),
           UNCHANGED <<job, ref, result, object, used, mark, eraser, sweeper, inline, progress>>
    PROVE  Shared' /\ WritersKept(a) /\ MigrantsKept(a)
<1>1. a \in Attempts /\ row \in [Attempts -> RowRec]
  BY DEF Shared, SharedType
<1>2. row' \in [Attempts -> RowRec]
  <2>1. row[a] \in RowRec
    BY <1>1
  <2>2. [row[a] EXCEPT !.busena = "abandoned"] \in RowRec
    BY <2>1, RowUpdates
  <2>3. [row EXCEPT ![a].busena = "abandoned"] \in [Attempts -> RowRec]
    BY <1>1, <2>2
  <2> QED
    BY <1>1, <2>3
<1>3. \A b \in Attempts : /\ row'[b].age = row[b].age
                          /\ b # a => row'[b] = row[b]
                          /\ row'[b].busena \in {row[b].busena, "abandoned"}
  BY <1>1 DEF RowRec
<1>4. row[a].busena # "committed" /\ row'[a].busena # "committed"
  BY <1>1, <1>3 DEF Shared, CommittedIsReferenced
<1>5. Shared'
  BY <1>1, <1>2, <1>3, <1>4 DEF Shared, SharedType, CommittedIsReferenced, ReferencedObjectPresent
<1>6. WritersKept(a)
  BY <1>3 DEF WritersKept, WriterFits, WriterRec, Held, FenceHolds, Repairs
<1>7. MigrantsKept(a)
  BY <1>3 DEF MigrantsKept, MigrantFits, MigrantRec, Held, FenceHolds
<1> QED
  BY <1>5, <1>6, <1>7

-----------------------------------------------------------------------------
(* What the erasure, the sweep, time and another thread do to it.          *)

NobodyLoses == WritersKept(NoAttempt) /\ MigrantsKept(NoAttempt)

LEMMA SameForHands ==
    ASSUME UNCHANGED <<ref, used, mark>>, object' = object, \A a \in Attempts : FenceHolds(a)' => FenceHolds(a)
    PROVE  NobodyLoses
BY DEF NobodyLoses, WritersKept, MigrantsKept, WriterFits, MigrantFits, WriterRec, MigrantRec, Held, Repairs

LEMMA ErasureSteps ==
    ASSUME Shared, EraseBegin \/ EraseList \/ EraserCrash \/ (\E a \in Attempts : EraseObject(a) \/ EraseObjectFails(a)),
           UNCHANGED <<inline, progress>>
    PROVE  Shared' /\ NobodyLoses
<1>1. listResultArtifacts \subseteq Attempts
  BY DEF listResultArtifacts
<1>2. CASE EraseBegin
  BY <1>2 DEF EraseBegin, Shared, SharedType, CommittedIsReferenced, ReferencedObjectPresent, NobodyLoses,
     WritersKept, MigrantsKept, WriterFits, MigrantFits, Held, Repairs, FenceHolds
<1>3. CASE EraseList
  <2>1. eraser' \in [at : {"idle", "list", "objects"}, listed : SUBSET Attempts,
                     left : SUBSET Attempts, failed : BOOLEAN] /\ eraser'.at = "objects"
    BY <1>1, <1>3 DEF EraseList, Shared, SharedType
  <2>2. Shared'
    BY <1>3, <2>1 DEF EraseList, Shared, SharedType, CommittedIsReferenced, ReferencedObjectPresent
  <2>3. NobodyLoses
    BY <1>3, SameForHands DEF EraseList, FenceHolds
  <2> QED
    BY <2>2, <2>3
<1>4. CASE EraserCrash
  <2>1. Shared'
    BY <1>4 DEF EraserCrash, EraserIdle, Shared, SharedType, CommittedIsReferenced, ReferencedObjectPresent
  <2>2. NobodyLoses
    BY <1>4, SameForHands DEF EraserCrash, FenceHolds
  <2> QED
    BY <2>1, <2>2
<1>5. ASSUME NEW a \in Attempts, EraseObject(a)
      PROVE  Shared' /\ NobodyLoses
  <2>1. mark # "none" /\ mark' = mark
    BY <1>5 DEF EraseObject, Shared
  <2>2. eraser' \in [at : {"idle", "list", "objects"}, listed : SUBSET Attempts,
                     left : SUBSET Attempts, failed : BOOLEAN] /\ eraser'.at = "objects"
    BY <1>5 DEF EraseObject, Shared, SharedType
  <2>3. Shared'
    BY <1>5, <2>1, <2>2 DEF EraseObject, Shared, SharedType, CommittedIsReferenced, ReferencedObjectPresent
  <2>4. NobodyLoses
    BY <1>5, <2>1 DEF EraseObject, NobodyLoses, WritersKept, MigrantsKept, WriterFits, MigrantFits, Held, Repairs
  <2> QED
    BY <2>3, <2>4
<1>6. ASSUME NEW a \in Attempts, EraseObjectFails(a)
      PROVE  Shared' /\ NobodyLoses
  <2>1. eraser' \in [at : {"idle", "list", "objects"}, listed : SUBSET Attempts,
                     left : SUBSET Attempts, failed : BOOLEAN] /\ eraser'.at = "objects"
    BY <1>6 DEF EraseObjectFails, Shared, SharedType
  <2>2. Shared'
    BY <1>6, <2>1 DEF EraseObjectFails, Shared, SharedType, CommittedIsReferenced, ReferencedObjectPresent
  <2>3. NobodyLoses
    BY <1>6, SameForHands DEF EraseObjectFails, FenceHolds
  <2> QED
    BY <2>2, <2>3
<1> QED
  BY <1>2, <1>3, <1>4, <1>5, <1>6

LEMMA RecordErased ==
    ASSUME Shared, MEraseRecord
    PROVE  Shared' /\ NobodyLoses
<1>1. mark # "none" /\ eraser' = EraserIdle /\ UNCHANGED <<object, used, sweeper>>
  BY DEF MEraseRecord, EraseRecord, Shared
<1>2. CASE UNCHANGED <<job, ref, result, row, mark>>
  <2>1. (inline' = inline /\ progress' = progress) \/ (inline' = NoResult /\ progress' = "none")
    BY DEF MEraseRecord
  <2>2. Shared'
    BY <1>1, <1>2, <2>1 DEF EraserIdle, Shared, SharedType, CommittedIsReferenced, ReferencedObjectPresent
  <2>3. NobodyLoses
    BY <1>1, <1>2, SameForHands DEF FenceHolds
  <2> QED
    BY <2>2, <2>3
<1>3. CASE /\ row' = [a \in Attempts |-> NoRow]
           /\ job' = "gone" /\ ref' = NoAttempt /\ result' = NoResult /\ mark' = "deleted"
  <2>1. inline' = NoResult /\ progress' = "none"
    BY <1>3 DEF MEraseRecord
  <2>2. row' \in [Attempts -> RowRec]
    BY <1>3, RecordsFit
  <2>3. \A a \in Attempts : row'[a].busena = "none"
    BY <1>3 DEF NoRow
  <2>4. Shared'
    BY <1>1, <1>3, <2>1, <2>2, <2>3 DEF EraserIdle, Shared, SharedType, CommittedIsReferenced,
       ReferencedObjectPresent
  <2>5. NobodyLoses
    BY <1>1, <1>3 DEF NobodyLoses, WritersKept, MigrantsKept, WriterFits, MigrantFits, Held, Repairs
  <2> QED
    BY <2>4, <2>5
<1> QED
  BY <1>2, <1>3 DEF MEraseRecord, EraseRecord

LEMMA SweepSteps ==
    ASSUME Shared, Select \/ SweepObject \/ SweepFails \/ SweepRow, UNCHANGED <<inline, progress>>
    PROVE  Shared' /\ NobodyLoses
<1>1. CASE Select
  <2>1. PICK a \in Attempts : Candidate(a) /\ sweeper' = [at |-> "object", attempt |-> a]
    BY <1>1 DEF Select
  <2>2. a # ref /\ a \in used /\ (row[a].busena = "pending" => row[a].age >= Fence)
    BY <2>1 DEF Candidate, SweepAge, Shared, SharedType, RowRec, Old
  <2>3. Shared'
    BY <1>1, <2>1, <2>2 DEF Select, Shared, SharedType, CommittedIsReferenced, ReferencedObjectPresent
  <2>4. NobodyLoses
    BY <1>1, SameForHands DEF Select, FenceHolds
  <2> QED
    BY <2>3, <2>4
<1>2. CASE SweepObject
  <2>1. sweeper'.at = "row" /\ sweeper'.attempt = sweeper.attempt
        /\ sweeper' \in [at : {"idle", "object", "row"}, attempt : Attempts \cup {NoAttempt}]
    BY <1>2 DEF SweepObject, Shared, SharedType
  <2>2. ~ FenceHolds(sweeper.attempt) /\ sweeper.attempt # ref
    BY <1>2 DEF SweepObject, Shared, SharedType, FenceHolds, RowRec, Old
  <2>3. Shared'
    BY <1>2, <2>1, <2>2 DEF SweepObject, Shared, SharedType, CommittedIsReferenced, ReferencedObjectPresent
  <2>4. NobodyLoses
    BY <1>2, <2>2 DEF SweepObject, NobodyLoses, WritersKept, MigrantsKept, WriterFits, MigrantFits,
       Held, Repairs, FenceHolds
  <2> QED
    BY <2>3, <2>4
<1>3. CASE SweepFails
  <2>1. Shared'
    BY <1>3 DEF SweepFails, SweeperIdle, Shared, SharedType, CommittedIsReferenced, ReferencedObjectPresent
  <2>2. NobodyLoses
    BY <1>3, SameForHands DEF SweepFails, FenceHolds
  <2> QED
    BY <2>1, <2>2
<1>4. CASE SweepRow
  <2>1. sweeper.attempt \in Attempts /\ sweeper.attempt # ref /\ row \in [Attempts -> RowRec]
    BY <1>4 DEF SweepRow, Shared, SharedType
  <2>2. row' = [row EXCEPT ![sweeper.attempt] = NoRow]
    BY <1>4, <2>1 DEF SweepRow, Shared, CommittedIsReferenced
  <2>3. row' \in [Attempts -> RowRec]
    BY <2>1, <2>2, RecordsFit
  <2>4. \A b \in Attempts : row'[b] = row[b] \/ (row'[b].busena = "none" /\ b # ref)
    BY <2>1, <2>2 DEF NoRow
  <2>5. Shared'
    BY <1>4, <2>3, <2>4 DEF SweepRow, SweeperIdle, Shared, SharedType, CommittedIsReferenced,
       ReferencedObjectPresent
  <2>6. \A b \in Attempts : FenceHolds(b)' => FenceHolds(b)
    BY <2>4 DEF FenceHolds
  <2>7. NobodyLoses
    BY <1>4, <2>6, SameForHands DEF SweepRow
  <2> QED
    BY <2>5, <2>7
<1> QED
  BY <1>1, <1>2, <1>3, <1>4

LEMMA OlderRows ==
    ASSUME Shared, Tick
    PROVE  /\ row' \in [Attempts -> RowRec]
           /\ \A b \in Attempts : row'[b].busena = row[b].busena /\ row'[b].age >= row[b].age
<1>1. row \in [Attempts -> RowRec]
  BY DEF Shared, SharedType
<1>2. ASSUME NEW b \in Attempts
      PROVE  row'[b] \in RowRec /\ row'[b].busena = row[b].busena /\ row'[b].age >= row[b].age
  <2>1. row[b] \in RowRec /\ row'[b] = IF Aged(b) THEN [row[b] EXCEPT !.age = @ + 1] ELSE row[b]
    BY <1>1, <1>2 DEF Tick
  <2>2. ASSUME NEW r \in RowRec, r.age < Old
        PROVE  LET s == [r EXCEPT !.age = @ + 1] IN s \in RowRec /\ s.busena = r.busena /\ s.age >= r.age
    BY <2>2 DEF RowRec, Old
  <2>3. row[b].age \in Nat
    BY <2>1 DEF RowRec, Old
  <2> QED
    BY <2>1, <2>2, <2>3 DEF Aged
<1> QED
  BY <1>2 DEF Tick

LEMMA OtherSteps ==
    ASSUME Shared, ((Tick \/ FailJob) /\ UNCHANGED <<inline, progress>>) \/ (\E r \in Results : Rewrite(r))
    PROVE  Shared' /\ NobodyLoses
<1>1. ASSUME Tick, UNCHANGED <<inline, progress>>
      PROVE  Shared' /\ NobodyLoses
  <2>1. Shared'
    BY <1>1, OlderRows DEF Tick, Shared, SharedType, CommittedIsReferenced, ReferencedObjectPresent, RowRec, Old
  <2>2. \A b \in Attempts : FenceHolds(b)' => FenceHolds(b)
    BY <1>1, OlderRows DEF FenceHolds, Shared, SharedType, RowRec, Old
  <2>3. NobodyLoses
    BY <1>1, <2>2, SameForHands DEF Tick
  <2> QED
    BY <2>1, <2>3
<1>2. ASSUME FailJob, UNCHANGED <<inline, progress>>
      PROVE  Shared' /\ NobodyLoses
  <2>1. Shared'
    BY <1>2 DEF FailJob, Shared, SharedType, CommittedIsReferenced, ReferencedObjectPresent
  <2>2. NobodyLoses
    BY <1>2, SameForHands DEF FailJob, FenceHolds
  <2> QED
    BY <2>1, <2>2
<1>3. ASSUME NEW r \in Results, Rewrite(r)
      PROVE  Shared' /\ NobodyLoses
  <2>1. Shared'
    BY <1>3 DEF Rewrite, vars, Shared, SharedType, CommittedIsReferenced, ReferencedObjectPresent
  <2>2. NobodyLoses
    BY <1>3, SameForHands DEF Rewrite, vars, FenceHolds
  <2> QED
    BY <2>1, <2>2
<1> QED
  BY <1>1, <1>2, <1>3
-----------------------------------------------------------------------------
(* What a step does to the hands: one pair of them moves, or none.         *)

LEMMA NoHandMoves ==
    ASSUME Hands, NobodyLoses, UNCHANGED <<writer, migrant>>
    PROVE  Hands'
BY DEF Hands, Apart, NobodyLoses, WritersKept, MigrantsKept

LEMMA WriterMoves ==
    ASSUME Shared, Hands, NEW w \in Writers, NEW x \in WriterRec,
           writer' = [writer EXCEPT ![w] = x], UNCHANGED migrant,
           WritersKept(writer[w].attempt), MigrantsKept(writer[w].attempt), WriterFits(x)',
           x.attempt \in {writer[w].attempt, NoAttempt} \/ x.attempt \notin used \cup {NoAttempt},
           x.seen \in {writer[w].seen, NoAttempt, ref}
    PROVE  Hands'
<1>1. writer'[w] = x /\ \A v \in Writers : v # w => writer'[v] = writer[v]
  BY DEF Hands
<1>2. writer' \in [Writers -> WriterRec] /\ migrant' \in [Migrants -> MigrantRec]
  BY DEF Hands
<1>3. \A v \in Writers : WriterFits(writer[v])'
  <2>1. WriterFits(writer[w])'
    BY <1>1 DEF WriterFits, Repairs, Held, FenceHolds
  <2>2. ASSUME NEW v \in Writers, v # w
        PROVE  WriterFits(writer[v])'
    <3>1. writer[v] \in WriterRec /\ WriterFits(writer[v])
      BY <2>2 DEF Hands
    <3>2. writer[w].attempt = NoAttempt \/ (writer[v].attempt # writer[w].attempt /\ writer[v].seen # writer[w].attempt)
      BY <2>2 DEF Hands, Apart
    <3>3. writer'[v] = writer[v]
      BY <1>1, <2>2
    <3>4. \A z \in WriterRec : z = writer[v] => WriterFits(z)'
      BY <3>1, <3>2 DEF WritersKept
    <3> QED
      BY <3>1, <3>3, <3>4 DEF WriterFits, Repairs, Held, FenceHolds
  <2> QED
    BY <2>1, <2>2
<1>4. \A m \in Migrants : MigrantFits(migrant[m])'
  BY DEF Hands, Apart, MigrantsKept
<1>5. Apart'
  <2>1. \A v \in Writers : /\ writer[v].attempt \in used \cup {NoAttempt} /\ writer[v].seen \in used \cup {NoAttempt}
                           /\ writer[v].attempt # NoAttempt => writer[v].attempt # ref
    BY DEF Hands, WriterFits
  <2>2. \A m \in Migrants : /\ migrant[m].attempt \in used \cup {NoAttempt}
                            /\ migrant[m].attempt # NoAttempt => migrant[m].attempt # ref
    BY DEF Hands, MigrantFits
  <2>3. ref \in used \cup {NoAttempt}
    BY DEF Shared
  <2> QED
    BY <1>1, <2>1, <2>2, <2>3 DEF Hands, Apart
<1> QED
  BY <1>2, <1>3, <1>4, <1>5 DEF Hands

LEMMA MigrantMoves ==
    ASSUME Shared, Hands, NEW m \in Migrants, NEW y \in MigrantRec,
           migrant' = [migrant EXCEPT ![m] = y], UNCHANGED writer,
           WritersKept(migrant[m].attempt), MigrantsKept(migrant[m].attempt), MigrantFits(y)',
           y.attempt \in {migrant[m].attempt, NoAttempt} \/ y.attempt \notin used \cup {NoAttempt}
    PROVE  Hands'
<1>1. migrant'[m] = y /\ \A n \in Migrants : n # m => migrant'[n] = migrant[n]
  BY DEF Hands
<1>2. writer' \in [Writers -> WriterRec] /\ migrant' \in [Migrants -> MigrantRec]
  BY DEF Hands
<1>3. \A n \in Migrants : MigrantFits(migrant[n])'
  <2>1. MigrantFits(migrant[m])'
    BY <1>1 DEF MigrantFits, Held, FenceHolds
  <2>2. ASSUME NEW n \in Migrants, n # m
        PROVE  MigrantFits(migrant[n])'
    <3>1. migrant[n] \in MigrantRec /\ MigrantFits(migrant[n])
      BY <2>2 DEF Hands
    <3>2. migrant[m].attempt = NoAttempt \/ migrant[n].attempt # migrant[m].attempt
      BY <2>2 DEF Hands, Apart
    <3>3. migrant'[n] = migrant[n]
      BY <1>1, <2>2
    <3>4. \A z \in MigrantRec : z = migrant[n] => MigrantFits(z)'
      BY <3>1, <3>2 DEF MigrantsKept
    <3> QED
      BY <3>1, <3>3, <3>4 DEF MigrantFits, Held, FenceHolds
  <2> QED
    BY <2>1, <2>2
<1>4. \A w \in Writers : WriterFits(writer[w])'
  BY DEF Hands, Apart, WritersKept
<1>5. Apart'
  <2>1. \A w \in Writers : writer[w].attempt \in used \cup {NoAttempt} /\ writer[w].seen \in used \cup {NoAttempt}
    BY DEF Hands, WriterFits
  <2>2. \A n \in Migrants : migrant[n].attempt \in used \cup {NoAttempt}
    BY DEF Hands, MigrantFits
  <2> QED
    BY <1>1, <2>1, <2>2 DEF Hands, Apart
<1> QED
  BY <1>2, <1>3, <1>4, <1>5 DEF Hands

-----------------------------------------------------------------------------
(* The steps of a run.                                                     *)

LEMMA WriterUpdates ==
    ASSUME NEW x \in WriterRec, NEW s \in WriterSteps
    PROVE  LET y == [x EXCEPT !.at = s] IN
           /\ y \in WriterRec /\ y.at = s
           /\ y.attempt = x.attempt /\ y.seen = x.seen /\ y.value = x.value
BY DEF WriterRec

LEMMA OnlyWriterMoves ==
    ASSUME IInv, NEW w \in Writers, NEW x \in WriterRec, OnlyWriter, UNCHANGED migrationVars,
           writer' = [writer EXCEPT ![w] = x], WriterFits(x),
           x.attempt \in {writer[w].attempt, NoAttempt},
           x.seen \in {writer[w].seen, NoAttempt, ref}
    PROVE  IInv'
<1>1. Shared'
  BY DEF OnlyWriter, migrationVars, IInv, Shared, SharedType, CommittedIsReferenced, ReferencedObjectPresent
<1>2. NobodyLoses
  BY SameForHands DEF OnlyWriter, FenceHolds
<1>3. WriterFits(x)' /\ WritersKept(writer[w].attempt) /\ MigrantsKept(writer[w].attempt)
  BY <1>2 DEF NobodyLoses, WritersKept, MigrantsKept
<1>4. Hands'
  BY <1>3, WriterMoves DEF IInv, migrationVars
<1> QED
  BY <1>1, <1>4 DEF IInv

LEMMA WriterStaysIn ==
    ASSUME IInv, NEW w \in Writers, NEW s \in WriterSteps, WriterTo(w, s)
    PROVE  \E x \in WriterRec :
              /\ writer' = [writer EXCEPT ![w] = x] /\ x.at = s
              /\ x.attempt = writer[w].attempt /\ x.seen = writer[w].seen /\ x.value = writer[w].value
<1>1. writer[w] \in WriterRec
  BY DEF IInv, Hands
<1>2. writer' = [writer EXCEPT ![w] = [writer[w] EXCEPT !.at = s]]
  BY DEF WriterTo
<1> QED
  BY <1>1, <1>2, WriterUpdates

LEMMA BeginInv ==
    ASSUME IInv, NEW w \in Writers, Begin(w), UNCHANGED migrationVars
    PROVE  IInv'
<1>1. PICK r \in Results : writer' = [writer EXCEPT ![w] = [WriterIdle EXCEPT !.at = "check", !.value = r]]
  BY DEF Begin
<1> DEFINE x == [WriterIdle EXCEPT !.at = "check", !.value = r]
<1>2. x \in WriterRec /\ x.at = "check" /\ x.attempt = NoAttempt /\ x.seen = NoAttempt
  BY DEF WriterIdle, WriterRec, WriterSteps
<1>3. WriterFits(x)
  BY <1>2 DEF WriterFits, Repairs
<1>4. writer' = [writer EXCEPT ![w] = x]
  BY <1>1
<1> HIDE DEF x
<1> QED
  BY <1>2, <1>3, <1>4, OnlyWriterMoves DEF Begin

LEMMA CheckInv ==
    ASSUME IInv, NEW w \in Writers, Check(w), UNCHANGED migrationVars
    PROVE  IInv'
<1>0. writer[w] \in WriterRec /\ WriterFits(writer[w]) /\ writer[w].at = "check"
  BY DEF IInv, Hands, Check
<1>1. CASE ref # NoAttempt /\ result = writer[w].value
  <2> DEFINE x == [writer[w] EXCEPT !.at = "head", !.seen = ref]
  <2>1. writer' = [writer EXCEPT ![w] = x]
    BY <1>1 DEF Check
  <2>2. x \in WriterRec /\ x.at = "head" /\ x.attempt = writer[w].attempt /\ x.seen = ref
    <3>1. \A z \in WriterRec, a \in Attempts :
             LET y == [z EXCEPT !.at = "head", !.seen = a] IN
             y \in WriterRec /\ y.at = "head" /\ y.attempt = z.attempt /\ y.seen = a
      BY DEF WriterRec, WriterSteps
    <3>2. ref \in Attempts
      BY <1>1 DEF IInv, Shared, SharedType
    <3> QED
      BY <1>0, <3>1, <3>2
  <2>3. WriterFits(x)
    BY <1>0, <2>2 DEF WriterFits, Repairs, IInv, Shared
  <2> HIDE DEF x
  <2> QED
    BY <2>1, <2>2, <2>3, OnlyWriterMoves DEF Check
<1>2. CASE ~ (ref # NoAttempt /\ result = writer[w].value)
  <2>1. WriterTo(w, "register")
    BY <1>2 DEF Check, WriterTo
  <2>2. PICK x \in WriterRec : /\ writer' = [writer EXCEPT ![w] = x] /\ x.at = "register"
                               /\ x.attempt = writer[w].attempt /\ x.seen = writer[w].seen
    BY <2>1, WriterStaysIn DEF WriterSteps
  <2>3. WriterFits(x)
    BY <1>0, <2>2 DEF WriterFits, Repairs
  <2> QED
    BY <2>2, <2>3, OnlyWriterMoves DEF Check
<1> QED
  BY <1>1, <1>2

LEMMA HeadInv ==
    ASSUME IInv, NEW w \in Writers, Head(w), UNCHANGED migrationVars
    PROVE  IInv'
<1>0. writer[w] \in WriterRec /\ WriterFits(writer[w]) /\ writer[w].at = "head"
  BY DEF IInv, Hands, Head
<1>1. PICK s \in WriterSteps : WriterTo(w, s) /\ s = IF writer[w].seen \in object THEN "commit" ELSE "register"
  BY DEF Head, WriterSteps
<1>2. PICK x \in WriterRec : /\ writer' = [writer EXCEPT ![w] = x] /\ x.at = s
                             /\ x.attempt = writer[w].attempt /\ x.seen = writer[w].seen
  BY <1>1, WriterStaysIn
<1>3. WriterFits(x)
  BY <1>0, <1>1, <1>2 DEF WriterFits, Repairs
<1> QED
  BY <1>2, <1>3, OnlyWriterMoves DEF Head

LEMMA RegisterInv ==
    ASSUME IInv, NEW w \in Writers, Register(w), UNCHANGED migrationVars
    PROVE  IInv'
<1>0. writer[w] \in WriterRec /\ WriterFits(writer[w]) /\ writer[w].at = "register"
  BY DEF IInv, Hands, Register
<1>1. PICK a \in Attempts \ used :
         /\ used' = used \cup {a}
         /\ row' = [row EXCEPT ![a] = [busena |-> "pending", age |-> 0]]
         /\ writer' = [writer EXCEPT ![w].at = "put", ![w].attempt = a]
  BY DEF Register
<1>2. PICK x \in WriterRec : /\ writer' = [writer EXCEPT ![w] = x]
                             /\ x.at = "put" /\ x.attempt = a /\ x.seen = writer[w].seen
  <2>1. \A z \in WriterRec :
           LET y == [z EXCEPT !.at = "put", !.attempt = a] IN
           y \in WriterRec /\ y.at = "put" /\ y.attempt = a /\ y.seen = z.seen
    BY DEF WriterRec, WriterSteps
  <2>2. writer' = [writer EXCEPT ![w] = [writer[w] EXCEPT !.at = "put", !.attempt = a]]
    BY <1>1
  <2> QED
    BY <1>0, <2>1, <2>2
<1>4. Shared' /\ WritersKept(NoAttempt) /\ MigrantsKept(NoAttempt)
  BY <1>1, Registered DEF Register, migrationVars, IInv
<1>5. WriterFits(x)'
  BY <1>0, <1>1, <1>2 DEF WriterFits, Repairs, Register, IInv, Shared, SharedType
<1>6. writer[w].attempt = NoAttempt /\ x.attempt \notin used \cup {NoAttempt}
  BY <1>0, <1>1, <1>2 DEF WriterFits
<1>7. Hands'
  BY <1>2, <1>4, <1>5, <1>6, WriterMoves DEF IInv, migrationVars
<1> QED
  BY <1>4, <1>7 DEF IInv

LEMMA PutInv ==
    ASSUME IInv, NEW w \in Writers, Put(w), UNCHANGED migrationVars
    PROVE  IInv'
<1>0. writer[w] \in WriterRec /\ WriterFits(writer[w]) /\ writer[w].at = "put"
  BY DEF IInv, Hands, Put
<1>1. writer[w].attempt \in used /\ writer[w].seen # writer[w].attempt
  BY <1>0 DEF WriterFits, IInv, Hands, Apart
<1>2. PICK s \in WriterSteps : /\ WriterTo(w, s) /\ s \in {"verify", "clean"}
  BY DEF Put, WriterSteps
<1>3. PICK x \in WriterRec : /\ writer' = [writer EXCEPT ![w] = x] /\ x.at = s
                             /\ x.attempt = writer[w].attempt /\ x.seen = writer[w].seen
  BY <1>2, WriterStaysIn
<1>4. Shared' /\ WritersKept(writer[w].attempt) /\ MigrantsKept(writer[w].attempt)
  BY <1>1, WasPut DEF Put, migrationVars, IInv
<1>5. WriterFits(x)'
  BY <1>0, <1>1, <1>2, <1>3 DEF WriterFits, Repairs, Put
<1>6. Hands'
  BY <1>3, <1>4, <1>5, WriterMoves DEF IInv, migrationVars
<1> QED
  BY <1>4, <1>6 DEF IInv

LEMMA VerifyInv ==
    ASSUME IInv, NEW w \in Writers, Verify(w), UNCHANGED migrationVars
    PROVE  IInv'
<1>0. writer[w] \in WriterRec /\ WriterFits(writer[w]) /\ writer[w].at = "verify"
  BY DEF IInv, Hands, Verify
<1>1. PICK s \in WriterSteps : WriterTo(w, s) /\ s = IF writer[w].attempt \in object THEN "commit" ELSE "clean"
  BY DEF Verify, WriterSteps
<1>2. PICK x \in WriterRec : /\ writer' = [writer EXCEPT ![w] = x] /\ x.at = s
                             /\ x.attempt = writer[w].attempt /\ x.seen = writer[w].seen
  BY <1>1, WriterStaysIn
<1>3. WriterFits(x)
  BY <1>0, <1>1, <1>2 DEF WriterFits, Repairs, Held
<1> QED
  BY <1>2, <1>3, OnlyWriterMoves DEF Verify

LEMMA WriterIsDone ==
    ASSUME NEW w \in Writers, Done(w)
    PROVE  \E x \in WriterRec : /\ writer' = [writer EXCEPT ![w] = x]
                                /\ x.at = "done" /\ x.attempt = NoAttempt /\ x.seen = NoAttempt
BY RecordsFit DEF Done, WriterIdle

LEMMA CommitInv ==
    ASSUME IInv, NEW w \in Writers, Commit(w), UNCHANGED migrationVars
    PROVE  IInv'
<1>0. /\ writer[w] \in WriterRec /\ WriterFits(writer[w]) /\ writer[w].at = "commit"
      /\ writer[w].attempt \in used /\ writer[w].attempt # NoAttempt
  BY AttemptAssumption DEF IInv, Hands, Commit, Wants, WriterFits, Shared, SharedType
<1>1. ASSUME FenceHolds(writer[w].attempt), Done(w), job' = "completed", ref' = writer[w].attempt,
             result' = writer[w].value, row' = isipareigoti(writer[w].attempt)
      PROVE  IInv'
  <2>1. Held(writer[w].attempt)
    BY <1>0 DEF WriterFits
  <2>2. inline = NoResult
    BY <1>0 DEF Commit, Wants, RepairStillValid, IInv, Shared
  <2>3. writer[w].value \in Results \cup {NoResult}
    BY <1>0 DEF WriterRec
  <2>4. Shared' /\ WritersKept(writer[w].attempt) /\ MigrantsKept(writer[w].attempt)
    <3>1. inline' = NoResult /\ progress' \in {"none", "failed", "done"} /\ UNCHANGED <<object, used, mark, eraser, sweeper>>
      BY <2>2 DEF Commit, migrationVars, IInv, Shared, SharedType
    <3> QED
      BY <1>0, <1>1, <2>1, <2>3, <3>1, WasCommitted DEF IInv
  <2>5. PICK x \in WriterRec : /\ writer' = [writer EXCEPT ![w] = x]
                               /\ x.at = "done" /\ x.attempt = NoAttempt /\ x.seen = NoAttempt
    BY <1>1, WriterIsDone
  <2>6. WriterFits(x)'
    BY <2>5 DEF WriterFits, Repairs
  <2>7. Hands'
    BY <2>4, <2>5, <2>6, WriterMoves DEF IInv, migrationVars
  <2> QED
    BY <2>4, <2>7 DEF IInv
<1>2. ASSUME Done(w), UNCHANGED <<job, ref, result, row>>
      PROVE  IInv'
  <2>1. PICK x \in WriterRec : /\ writer' = [writer EXCEPT ![w] = x]
                               /\ x.at = "done" /\ x.attempt = NoAttempt /\ x.seen = NoAttempt
    BY <1>2, WriterIsDone
  <2>2. WriterFits(x)
    BY <2>1 DEF WriterFits, Repairs
  <2> QED
    BY <1>2, <2>1, <2>2, OnlyWriterMoves DEF Commit, OnlyWriter
<1>3. ASSUME writer' = [writer EXCEPT ![w].at = "clean", ![w].again = IF @ = "no" THEN "wanted" ELSE @],
             UNCHANGED <<job, ref, result, row>>
      PROVE  IInv'
  <2>1. PICK x \in WriterRec : /\ writer' = [writer EXCEPT ![w] = x]
                               /\ x.at = "clean" /\ x.attempt = writer[w].attempt /\ x.seen = writer[w].seen
    <3>1. PICK g \in {"no", "wanted", "used"} :
             writer' = [writer EXCEPT ![w] = [writer[w] EXCEPT !.at = "clean", !.again = g]]
      <4>1. writer[w].again \in {"no", "wanted", "used"}
        BY <1>0 DEF WriterRec
      <4> QED
        BY <1>3, <4>1
    <3> DEFINE x == [writer[w] EXCEPT !.at = "clean", !.again = g]
    <3>2. x \in WriterRec /\ x.at = "clean" /\ x.attempt = writer[w].attempt /\ x.seen = writer[w].seen
      BY <1>0 DEF WriterRec, WriterSteps
    <3> QED
      BY <3>1, <3>2
  <2>2. WriterFits(x)
    BY <1>0, <2>1 DEF WriterFits, Repairs
  <2> QED
    BY <1>3, <2>1, <2>2, OnlyWriterMoves DEF Commit, OnlyWriter
<1> QED
  BY <1>1, <1>2, <1>3 DEF Commit

LEMMA LoseInv ==
    ASSUME IInv, NEW w \in Writers, Lose(w), UNCHANGED migrationVars
    PROVE  IInv'
<1>0. writer[w] \in WriterRec /\ WriterFits(writer[w])
  BY DEF IInv, Hands
<1>1. ASSUME Done(w)
      PROVE  IInv'
  <2>1. PICK x \in WriterRec : /\ writer' = [writer EXCEPT ![w] = x]
                               /\ x.at = "done" /\ x.attempt = NoAttempt /\ x.seen = NoAttempt
    BY <1>1, WriterIsDone
  <2>2. WriterFits(x)
    BY <2>1 DEF WriterFits, Repairs
  <2> QED
    BY <2>1, <2>2, OnlyWriterMoves DEF Lose
<1>2. ASSUME writer[w].attempt # NoAttempt, WriterTo(w, "clean")
      PROVE  IInv'
  <2>1. PICK x \in WriterRec : /\ writer' = [writer EXCEPT ![w] = x] /\ x.at = "clean"
                               /\ x.attempt = writer[w].attempt /\ x.seen = writer[w].seen
    BY <1>2, WriterStaysIn DEF WriterSteps
  <2>2. WriterFits(x)
    BY <1>0, <1>2, <2>1 DEF WriterFits, Repairs
  <2> QED
    BY <2>1, <2>2, OnlyWriterMoves DEF Lose
<1> QED
  BY <1>1, <1>2 DEF Lose

LEMMA CleanInv ==
    ASSUME IInv, NEW w \in Writers, Clean(w), UNCHANGED migrationVars
    PROVE  IInv'
<1>0. /\ writer[w] \in WriterRec /\ WriterFits(writer[w]) /\ writer[w].at = "clean"
      /\ writer[w].attempt # NoAttempt
  BY DEF IInv, Hands, Clean, WriterFits
<1>1. writer[w].attempt \in used /\ writer[w].attempt # ref
  BY <1>0 DEF WriterFits
<1>2. PICK x \in WriterRec : /\ writer' = [writer EXCEPT ![w] = x] /\ x.at = "note"
                             /\ x.attempt = writer[w].attempt /\ x.seen = writer[w].seen
  BY WriterStaysIn DEF Clean, WriterSteps
<1>3. Shared' /\ WritersKept(writer[w].attempt) /\ MigrantsKept(writer[w].attempt)
  BY <1>1, WasCleaned DEF Clean, migrationVars, IInv
<1>4. WriterFits(x)'
  BY <1>0, <1>1, <1>2 DEF WriterFits, Repairs, Clean
<1>5. Hands'
  BY <1>2, <1>3, <1>4, WriterMoves DEF IInv, migrationVars
<1> QED
  BY <1>3, <1>5 DEF IInv

LEMMA NoteInv ==
    ASSUME IInv, NEW w \in Writers, Note(w), UNCHANGED migrationVars
    PROVE  IInv'
<1>0. /\ writer[w] \in WriterRec /\ WriterFits(writer[w])
      /\ writer[w].attempt \in used /\ writer[w].attempt # ref
  BY DEF IInv, Hands, Note, WriterFits
<1>1. PICK x \in WriterRec : /\ writer' = [writer EXCEPT ![w] = x] /\ x.at \in {"check", "done"}
                             /\ x.attempt = NoAttempt /\ x.seen = NoAttempt
  <2>1. CASE writer[w].again = "wanted"
    <3> DEFINE x == [WriterIdle EXCEPT !.at = "check", !.value = writer[w].value, !.again = "used"]
    <3>1. writer' = [writer EXCEPT ![w] = x]
      BY <2>1 DEF Note
    <3>2. x \in WriterRec /\ x.at = "check" /\ x.attempt = NoAttempt /\ x.seen = NoAttempt
      BY <1>0 DEF WriterIdle, WriterRec, WriterSteps
    <3> QED
      BY <3>1, <3>2
  <2>2. CASE writer[w].again # "wanted"
    BY <2>2, WriterIsDone DEF Note
  <2> QED
    BY <2>1, <2>2
<1>2. Shared' /\ WritersKept(writer[w].attempt) /\ MigrantsKept(writer[w].attempt)
  BY <1>0, WasNoted DEF Note, migrationVars, IInv
<1>3. WriterFits(x)'
  BY <1>1 DEF WriterFits, Repairs
<1>4. Hands'
  BY <1>1, <1>2, <1>3, WriterMoves DEF IInv, migrationVars
<1> QED
  BY <1>2, <1>4 DEF IInv

LEMMA WriterCrashInv ==
    ASSUME IInv, NEW w \in Writers, WriterCrash(w), UNCHANGED migrationVars
    PROVE  IInv'
<1>1. PICK x \in WriterRec : /\ writer' = [writer EXCEPT ![w] = x]
                             /\ x.at = "done" /\ x.attempt = NoAttempt /\ x.seen = NoAttempt
  BY WriterIsDone DEF WriterCrash
<1>2. WriterFits(x)
  BY <1>1 DEF WriterFits, Repairs
<1> QED
  BY <1>1, <1>2, OnlyWriterMoves DEF WriterCrash

-----------------------------------------------------------------------------
(* The steps of a migrant.                                                 *)

LEMMA MigrantUpdates ==
    ASSUME NEW y \in MigrantRec, NEW s \in MigrantSteps
    PROVE  LET z == [y EXCEPT !.at = s] IN
           z \in MigrantRec /\ z.at = s /\ z.attempt = y.attempt /\ z.value = y.value
BY DEF MigrantRec

LEMMA MigrantStaysIn ==
    ASSUME IInv, NEW m \in Migrants, NEW s \in MigrantSteps,
           MigrantTo(m, s) \/ (s = "clean" /\ MFails(m, BOOLEAN))
    PROVE  \E y \in MigrantRec :
              /\ migrant' = [migrant EXCEPT ![m] = y] /\ y.at = s
              /\ y.attempt = migrant[m].attempt /\ y.value = migrant[m].value
<1>1. migrant[m] \in MigrantRec
  BY DEF IInv, Hands
<1>2. CASE MigrantTo(m, s)
  <2>1. migrant' = [migrant EXCEPT ![m] = [migrant[m] EXCEPT !.at = s]]
    BY <1>2 DEF MigrantTo
  <2> QED
    BY <1>1, <2>1, MigrantUpdates
<1>3. CASE s = "clean" /\ MFails(m, BOOLEAN)
  <2>1. PICK f \in BOOLEAN : migrant' = [migrant EXCEPT ![m] = [migrant[m] EXCEPT !.at = s, !.fail = f]]
    BY <1>3 DEF MFails
  <2> DEFINE y == [migrant[m] EXCEPT !.at = s, !.fail = f]
  <2>2. y \in MigrantRec /\ y.at = s /\ y.attempt = migrant[m].attempt /\ y.value = migrant[m].value
    BY <1>1 DEF MigrantRec
  <2> QED
    BY <2>1, <2>2
<1> QED
  BY <1>2, <1>3

LEMMA MigrantLeaves ==
    ASSUME NEW m \in Migrants, Leave(m)
    PROVE  \E y \in MigrantRec : /\ migrant' = [migrant EXCEPT ![m] = y]
                                 /\ y.at = "idle" /\ y.attempt = NoAttempt
BY RecordsFit DEF Leave, MigrantIdle

LEMMA OnlyMigrantMoves ==
    ASSUME IInv, NEW m \in Migrants, NEW y \in MigrantRec, UNCHANGED <<vars, inline>>,
           progress' \in {"none", "failed", "done"},
           migrant' = [migrant EXCEPT ![m] = y], MigrantFits(y),
           y.attempt \in {migrant[m].attempt, NoAttempt}
    PROVE  IInv'
<1>1. Shared'
  BY DEF vars, IInv, Shared, SharedType, CommittedIsReferenced, ReferencedObjectPresent
<1>2. NobodyLoses
  BY SameForHands DEF vars, FenceHolds
<1>3. MigrantFits(y)' /\ WritersKept(migrant[m].attempt) /\ MigrantsKept(migrant[m].attempt)
  BY <1>2 DEF NobodyLoses, WritersKept, MigrantsKept
<1>4. Hands'
  BY <1>3, MigrantMoves DEF IInv, vars
<1> QED
  BY <1>1, <1>4 DEF IInv

LEMMA ReadInv ==
    ASSUME IInv, NEW m \in Migrants, Read(m)
    PROVE  IInv'
<1>0. migrant[m] \in MigrantRec /\ MigrantFits(migrant[m]) /\ migrant[m].at = "idle"
  BY DEF IInv, Hands, Read
<1>1. inline \in Results /\ UNCHANGED <<vars, inline>> /\ progress' \in {"none", "failed", "done"}
  BY DEF Read, OnlyMigrant, IInv, Shared, SharedType
<1>2. PICK s \in {"failed", "register"} :
         migrant' = [migrant EXCEPT ![m] = [migrant[m] EXCEPT !.at = s, !.value = inline]]
  BY DEF Read
<1>3. PICK y \in MigrantRec : /\ migrant' = [migrant EXCEPT ![m] = y] /\ y.at \in {"failed", "register"}
                              /\ y.attempt = migrant[m].attempt /\ y.value \in Results
  <2> DEFINE y == [migrant[m] EXCEPT !.at = s, !.value = inline]
  <2>1. y \in MigrantRec /\ y.at = s /\ y.attempt = migrant[m].attempt /\ y.value = inline
    BY <1>0, <1>1 DEF MigrantRec, MigrantSteps
  <2> QED
    BY <1>1, <1>2, <2>1
<1>4. MigrantFits(y)
  BY <1>0, <1>3 DEF MigrantFits
<1> QED
  BY <1>1, <1>3, <1>4, OnlyMigrantMoves

LEMMA MRegisterInv ==
    ASSUME IInv, NEW m \in Migrants, MRegister(m)
    PROVE  IInv'
<1>0. migrant[m] \in MigrantRec /\ MigrantFits(migrant[m]) /\ migrant[m].at = "register"
  BY DEF IInv, Hands, MRegister
<1>1. ASSUME Leave(m), UNCHANGED <<row, used>>
      PROVE  IInv'
  <2>1. PICK y \in MigrantRec : /\ migrant' = [migrant EXCEPT ![m] = y]
                                /\ y.at = "idle" /\ y.attempt = NoAttempt
    BY <1>1, MigrantLeaves
  <2>2. MigrantFits(y)
    BY <2>1 DEF MigrantFits
  <2>3. UNCHANGED <<vars, inline>> /\ progress' \in {"none", "failed", "done"}
    BY <1>1 DEF MRegister, vars, IInv, Shared, SharedType
  <2> QED
    BY <2>1, <2>2, <2>3, OnlyMigrantMoves
<1>2. ASSUME NEW a \in Attempts \ used, used' = used \cup {a},
             row' = [row EXCEPT ![a] = [busena |-> "pending", age |-> 0]],
             migrant' = [migrant EXCEPT ![m].at = "put", ![m].attempt = a]
      PROVE  IInv'
  <2>1. PICK y \in MigrantRec : /\ migrant' = [migrant EXCEPT ![m] = y] /\ y.at = "put"
                                /\ y.attempt = a /\ y.value = migrant[m].value
    <3> DEFINE y == [migrant[m] EXCEPT !.at = "put", !.attempt = a]
    <3>1. y \in MigrantRec /\ y.at = "put" /\ y.attempt = a /\ y.value = migrant[m].value
      BY <1>0 DEF MigrantRec, MigrantSteps
    <3>2. migrant' = [migrant EXCEPT ![m] = y]
      BY <1>2
    <3> QED
      BY <3>1, <3>2
  <2>2. Shared' /\ WritersKept(NoAttempt) /\ MigrantsKept(NoAttempt)
    BY <1>2, Registered DEF MRegister, IInv
  <2>3. MigrantFits(y)'
    BY <1>0, <1>2, <2>1 DEF MigrantFits, MRegister, IInv, Shared, SharedType
  <2>4. migrant[m].attempt = NoAttempt /\ y.attempt \notin used \cup {NoAttempt}
    BY <1>0, <1>2, <2>1 DEF MigrantFits
  <2>5. Hands'
    BY <2>1, <2>2, <2>3, <2>4, MigrantMoves DEF IInv, MRegister
  <2> QED
    BY <2>2, <2>5 DEF IInv
<1> QED
  BY <1>1, <1>2 DEF MRegister

LEMMA MPutInv ==
    ASSUME IInv, NEW m \in Migrants, MPut(m)
    PROVE  IInv'
<1>0. /\ migrant[m] \in MigrantRec /\ MigrantFits(migrant[m]) /\ migrant[m].at = "put"
      /\ migrant[m].attempt \in used
  BY DEF IInv, Hands, MPut, MigrantFits
<1>1. PICK s \in MigrantSteps : s \in {"verify", "clean"} /\ (MigrantTo(m, s) \/ (s = "clean" /\ MFails(m, BOOLEAN)))
  BY DEF MPut, MigrantSteps
<1>2. PICK y \in MigrantRec : /\ migrant' = [migrant EXCEPT ![m] = y] /\ y.at = s
                              /\ y.attempt = migrant[m].attempt /\ y.value = migrant[m].value
  BY <1>1, MigrantStaysIn
<1>3. Shared' /\ WritersKept(migrant[m].attempt) /\ MigrantsKept(migrant[m].attempt)
  BY <1>0, WasPut DEF MPut, IInv
<1>4. MigrantFits(y)'
  BY <1>0, <1>1, <1>2 DEF MigrantFits, MPut
<1>5. Hands'
  BY <1>2, <1>3, <1>4, MigrantMoves DEF IInv, MPut
<1> QED
  BY <1>3, <1>5 DEF IInv

LEMMA MVerifyInv ==
    ASSUME IInv, NEW m \in Migrants, MVerify(m)
    PROVE  IInv'
<1>0. migrant[m] \in MigrantRec /\ MigrantFits(migrant[m]) /\ migrant[m].at = "verify"
  BY DEF IInv, Hands, MVerify
<1>1. PICK s \in MigrantSteps : /\ MigrantTo(m, s) \/ (s = "clean" /\ MFails(m, BOOLEAN))
                                /\ s = "clean" \/ (s = "switch" /\ migrant[m].attempt \in object)
  BY DEF MVerify, MFails, Proven, MigrantSteps
<1>2. PICK y \in MigrantRec : /\ migrant' = [migrant EXCEPT ![m] = y] /\ y.at = s
                              /\ y.attempt = migrant[m].attempt /\ y.value = migrant[m].value
  <2>1. CASE MigrantTo(m, s)
    BY <2>1, MigrantStaysIn
  <2>2. CASE s = "clean" /\ MFails(m, BOOLEAN)
    BY <2>2, MigrantStaysIn
  <2> QED
    BY <1>1, <2>1, <2>2
<1>3. MigrantFits(y)
  BY <1>0, <1>1, <1>2 DEF MigrantFits, Held
<1>4. UNCHANGED <<vars, inline>> /\ progress' \in {"none", "failed", "done"}
  BY DEF MVerify, OnlyMigrant, IInv, Shared, SharedType
<1> QED
  BY <1>2, <1>3, <1>4, OnlyMigrantMoves

LEMMA SwitchInv ==
    ASSUME IInv, NEW m \in Migrants, Switch(m)
    PROVE  IInv'
<1>0. /\ migrant[m] \in MigrantRec /\ MigrantFits(migrant[m]) /\ migrant[m].at = "switch"
      /\ migrant[m].attempt \in used /\ migrant[m].value \in Results
  BY DEF IInv, Hands, Switch, MigrantFits
<1>1. PICK y \in MigrantRec : /\ migrant' = [migrant EXCEPT ![m] = y]
                              /\ y.at = "idle" /\ y.attempt = NoAttempt
  BY MigrantLeaves DEF Switch
<1>2. ASSUME ref' = migrant[m].attempt, result' = migrant[m].value, inline' = NoResult,
             row' = isipareigoti(migrant[m].attempt), progress' = "done"
      PROVE  IInv'
  <2>1. inline # NoResult /\ job = "completed"
    BY <1>0 DEF Switch, Unchanged, IInv, Shared
  <2>2. FenceHolds(migrant[m].attempt) /\ Held(migrant[m].attempt)
    BY <1>0 DEF Switch, MigrantFits
  <2>3. Shared' /\ WritersKept(migrant[m].attempt) /\ MigrantsKept(migrant[m].attempt)
    <3>1. job' = "completed" /\ progress' \in {"none", "failed", "done"} /\ UNCHANGED <<object, used, mark, eraser, sweeper>>
      BY <1>2, <2>1 DEF Switch
    <3> QED
      BY <1>0, <1>2, <2>2, <3>1, WasCommitted DEF IInv
  <2>4. MigrantFits(y)'
    BY <1>1 DEF MigrantFits
  <2>5. Hands'
    BY <1>1, <2>3, <2>4, MigrantMoves DEF IInv, Switch
  <2> QED
    BY <2>3, <2>5 DEF IInv
<1>3. ASSUME UNCHANGED <<ref, result, inline, row, progress>>
      PROVE  IInv'
  <2>1. MigrantFits(y)
    BY <1>1 DEF MigrantFits
  <2>2. UNCHANGED <<vars, inline>> /\ progress' \in {"none", "failed", "done"}
    BY <1>3 DEF Switch, vars, IInv, Shared, SharedType
  <2> QED
    BY <1>1, <2>1, <2>2, OnlyMigrantMoves
<1> QED
  BY <1>2, <1>3 DEF Switch

LEMMA SwitchFailsInv ==
    ASSUME IInv, NEW m \in Migrants, SwitchFails(m)
    PROVE  IInv'
<1>0. migrant[m] \in MigrantRec /\ MigrantFits(migrant[m]) /\ migrant[m].at = "switch"
  BY DEF IInv, Hands, SwitchFails
<1>1. MFails(m, BOOLEAN)
  BY DEF SwitchFails, MFails
<1>2. PICK y \in MigrantRec : /\ migrant' = [migrant EXCEPT ![m] = y] /\ y.at = "clean"
                              /\ y.attempt = migrant[m].attempt /\ y.value = migrant[m].value
  BY <1>1, MigrantStaysIn DEF MigrantSteps
<1>3. MigrantFits(y)
  BY <1>0, <1>2 DEF MigrantFits
<1>4. UNCHANGED <<vars, inline>> /\ progress' \in {"none", "failed", "done"}
  BY DEF SwitchFails, OnlyMigrant, IInv, Shared, SharedType
<1> QED
  BY <1>2, <1>3, <1>4, OnlyMigrantMoves

LEMMA MCleanInv ==
    ASSUME IInv, NEW m \in Migrants, MClean(m)
    PROVE  IInv'
<1>0. /\ migrant[m] \in MigrantRec /\ MigrantFits(migrant[m]) /\ migrant[m].at = "clean"
      /\ migrant[m].attempt \in used /\ migrant[m].attempt # ref
  BY DEF IInv, Hands, MClean, MigrantFits
<1>1. PICK y \in MigrantRec : /\ migrant' = [migrant EXCEPT ![m] = y] /\ y.at = "note"
                              /\ y.attempt = migrant[m].attempt /\ y.value = migrant[m].value
  BY MigrantStaysIn DEF MClean, MigrantSteps
<1>2. Shared' /\ WritersKept(migrant[m].attempt) /\ MigrantsKept(migrant[m].attempt)
  BY <1>0, WasCleaned DEF MClean, IInv
<1>3. MigrantFits(y)'
  BY <1>0, <1>1 DEF MigrantFits, MClean
<1>4. Hands'
  BY <1>1, <1>2, <1>3, MigrantMoves DEF IInv, MClean
<1> QED
  BY <1>2, <1>4 DEF IInv

LEMMA MNoteInv ==
    ASSUME IInv, NEW m \in Migrants, MNote(m)
    PROVE  IInv'
<1>0. /\ migrant[m] \in MigrantRec /\ MigrantFits(migrant[m]) /\ migrant[m].at = "note"
      /\ migrant[m].attempt \in used /\ migrant[m].attempt # ref
  BY DEF IInv, Hands, MNote, MigrantFits
<1>1. Shared' /\ WritersKept(migrant[m].attempt) /\ MigrantsKept(migrant[m].attempt)
  BY <1>0, WasNoted DEF MNote, IInv
<1>2. PICK y \in MigrantRec : /\ migrant' = [migrant EXCEPT ![m] = y]
                              /\ \/ y.at = "failed" /\ y.attempt = migrant[m].attempt /\ y.value = migrant[m].value
                                 \/ y.at = "idle" /\ y.attempt = NoAttempt
  BY MigrantStaysIn, MigrantLeaves DEF MNote, MigrantSteps
<1>3. MigrantFits(y)'
  BY <1>0, <1>2 DEF MigrantFits, MNote
<1>4. Hands'
  BY <1>1, <1>2, <1>3, MigrantMoves DEF IInv, MNote
<1> QED
  BY <1>1, <1>4 DEF IInv

LEMMA MEndInv ==
    ASSUME IInv, NEW m \in Migrants, NoteFailure(m) \/ MCrash(m)
    PROVE  IInv'
<1>1. UNCHANGED <<vars, inline>> /\ progress' \in {"none", "failed", "done"} /\ Leave(m)
  BY DEF NoteFailure, MCrash, OnlyMigrant, IInv, Shared, SharedType
<1>2. PICK y \in MigrantRec : /\ migrant' = [migrant EXCEPT ![m] = y]
                              /\ y.at = "idle" /\ y.attempt = NoAttempt
  BY <1>1, MigrantLeaves
<1>3. MigrantFits(y)
  BY <1>2 DEF MigrantFits
<1> QED
  BY <1>1, <1>2, <1>3, OnlyMigrantMoves

-----------------------------------------------------------------------------

LEMMA NextInv == IInv /\ [MNext]_allVars => IInv'
<1> SUFFICES ASSUME IInv, [MNext]_allVars PROVE IInv'
  OBVIOUS
<1>0. ASSUME Shared' /\ NobodyLoses, UNCHANGED <<writer, migrant>>
      PROVE  IInv'
  BY <1>0, NoHandMoves DEF IInv
<1>1. ASSUME NEW m \in Migrants, MigrantStep(m)
      PROVE  IInv'
  BY <1>1, ReadInv, MRegisterInv, MPutInv, MVerifyInv, SwitchInv, SwitchFailsInv, MCleanInv, MNoteInv, MEndInv
     DEF MigrantStep
<1>2. ASSUME NEW r \in Results, Rewrite(r)
      PROVE  IInv'
  BY <1>0, <1>2, OtherSteps DEF IInv, Rewrite, vars
<1>3. CASE MEraseRecord
  BY <1>0, <1>3, RecordErased DEF IInv, MEraseRecord, EraseRecord
<1>4. CASE MTick
  BY <1>0, <1>4, OtherSteps DEF IInv, MTick, Tick, migrationVars
<1>5. ASSUME NEW w \in Writers, Begin(w) \/ WriterStep(w) \/ WriterCrash(w), UNCHANGED migrationVars
      PROVE  IInv'
  BY <1>5, BeginInv, CheckInv, HeadInv, RegisterInv, PutInv, VerifyInv, CommitInv, LoseInv, CleanInv, NoteInv,
     WriterCrashInv DEF WriterStep
<1>6. ASSUME FailJob, UNCHANGED migrationVars
      PROVE  IInv'
  BY <1>0, <1>6, OtherSteps DEF IInv, FailJob, migrationVars
<1>7. ASSUME EraseBegin \/ EraseList \/ EraserCrash \/ (\E a \in Attempts : EraseObject(a) \/ EraseObjectFails(a)),
             UNCHANGED migrationVars
      PROVE  IInv'
  <2>1. UNCHANGED <<writer, migrant, inline, progress>>
    BY <1>7 DEF EraseBegin, EraseList, EraserCrash, EraseObject, EraseObjectFails, migrationVars
  <2> QED
    BY <1>0, <1>7, <2>1, ErasureSteps DEF IInv
<1>8. ASSUME Select \/ SweepObject \/ SweepFails \/ SweepRow, UNCHANGED migrationVars
      PROVE  IInv'
  <2>1. UNCHANGED <<writer, migrant, inline, progress>>
    BY <1>8 DEF Select, SweepObject, SweepFails, SweepRow, migrationVars
  <2> QED
    BY <1>0, <1>8, <2>1, SweepSteps DEF IInv
<1>9. CASE UNCHANGED allVars
  BY <1>9 DEF allVars, vars, migrationVars, IInv, Shared, SharedType, CommittedIsReferenced,
     ReferencedObjectPresent, Hands, Apart, WriterFits, MigrantFits, Repairs, Held, FenceHolds
<1> QED
  BY <1>1, <1>2, <1>3, <1>4, <1>5, <1>6, <1>7, <1>8, <1>9 DEF MNext, OtherStep

LEMMA Invariant == MSpec => []IInv
BY InitInv, NextInv, PTL DEF MSpec

(* The object a completed job refers to is there as long as nobody erases  *)
(* the job, whatever runs, migrants, the sweep and time do.                *)
THEOREM ContentIsThere == MSpec => []ReferencedObjectPresent
<1>1. IInv => ReferencedObjectPresent
  BY DEF IInv, Shared
<1> QED
  BY <1>1, Invariant, PTL

(* At most one attempt is committed, and it is the one that is referenced. *)
THEOREM RegistryAgrees == MSpec => []CommittedIsReferenced
<1>1. IInv => CommittedIsReferenced
  BY DEF IInv, Shared
<1> QED
  BY <1>1, Invariant, PTL

(* Once there, a result is never exchanged for another, and its reference  *)
(* moves only when the object it names is lost; a migrant moves none.      *)
THEOREM OnlyLostIsReplaced == MSpec => ReplacedOnlyWhenLost
<1> DEFINE Kept == (ref # NoAttempt /\ ref' \notin {ref, NoAttempt}) => (ref \notin object /\ result' = result)
<1>1. ASSUME IInv, [MNext]_allVars
      PROVE  [Kept]_vars
  <2>1. ASSUME NEW m \in Migrants, MigrantStep(m)
        PROVE  ref' = ref \/ ref = NoAttempt
    <3>1. Switch(m) => ref = NoAttempt
      BY <1>1 DEF Switch, Unchanged, IInv, Shared, Hands, MigrantFits
    <3> QED
      BY <2>1, <3>1 DEF MigrantStep, Read, MRegister, MPut, MVerify, SwitchFails, MClean, MNote, NoteFailure, MCrash,
         OnlyMigrant, vars
  <2>2. MEraseRecord => ref' \in {ref, NoAttempt}
    BY DEF MEraseRecord, EraseRecord
  <2>3. ASSUME NEW w \in Writers, Commit(w)
        PROVE  Kept
    <3>1. writer[w].at = "commit" /\ writer[w].attempt # NoAttempt /\ WriterFits(writer[w])
      BY <1>1, <2>3 DEF Commit, Wants, IInv, Hands
    <3>2. job = "processing" => ref = NoAttempt
      BY <1>1 DEF IInv, Shared
    <3>3. RepairStillValid(w) => ref \notin object
      BY <3>1 DEF RepairStillValid, WriterFits, Repairs
    <3> QED
      BY <2>3, <3>1, <3>2, <3>3 DEF Commit, Wants
  <2>4. ASSUME NEW w \in Writers, Begin(w) \/ WriterStep(w) \/ WriterCrash(w), ~ Commit(w)
        PROVE  ref' = ref
    BY <2>4 DEF Begin, WriterStep, WriterCrash, Check, Head, Register, Put, Verify, Lose, Clean, Note, OnlyWriter
  <2>5. (\E r \in Results : Rewrite(r)) \/ MTick \/ UNCHANGED allVars => ref' = ref
    BY DEF Rewrite, MTick, Tick, allVars, vars
  <2>6. ASSUME OtherStep
        PROVE  (\E w \in Writers : Begin(w) \/ WriterStep(w) \/ WriterCrash(w)) \/ ref' = ref
    BY <2>6 DEF OtherStep, FailJob, EraseBegin, EraseList, EraserCrash, EraseObject, EraseObjectFails, Select,
       SweepObject, SweepFails, SweepRow
  <2> QED
    BY <1>1, <2>1, <2>2, <2>3, <2>4, <2>5, <2>6 DEF MNext
<1> QED
  BY <1>1, Invariant, PTL DEF MSpec, ReplacedOnlyWhenLost

(* The inline copy of a result goes only in the step that leaves the same  *)
(* content behind a reference to an object that is there and whole.        *)
THEOREM InlineCopyKept == MSpec => OnlyCopyKept
<1> DEFINE Kept == (inline # NoResult /\ inline' = NoResult /\ mark = "none") => (result' = inline /\ ref' \in object')
<1>1. ASSUME IInv, [MNext]_allVars
      PROVE  Kept
  <2>1. ASSUME NEW m \in Migrants, Switch(m)
        PROVE  Kept
    <3>1. MigrantFits(migrant[m])
      BY <1>1 DEF IInv, Hands
    <3>2. mark = "none" => migrant[m].attempt \in object
      BY <2>1, <3>1 DEF Switch, MigrantFits, Held
    <3> QED
      BY <2>1, <3>2 DEF Switch, Unchanged
  <2>2. ASSUME NEW m \in Migrants, MigrantStep(m), ~ Switch(m)
        PROVE  inline' = inline
    BY <2>2 DEF MigrantStep, Read, MRegister, MPut, MVerify, SwitchFails, MClean, MNote, NoteFailure, MCrash, OnlyMigrant
  <2>3. MEraseRecord => mark # "none" \/ inline' = inline
    BY <1>1 DEF MEraseRecord, EraseRecord, IInv, Shared
  <2>4. \A r \in Results : Rewrite(r) => inline' # NoResult
    BY DEF Rewrite
  <2>5. MTick \/ UNCHANGED migrationVars \/ UNCHANGED allVars => inline' = inline
    BY DEF MTick, allVars, migrationVars
  <2> QED
    BY <1>1, <2>1, <2>2, <2>3, <2>4, <2>5 DEF MNext
<1>2. IInv /\ [MNext]_allVars => [Kept]_allVars
  BY <1>1
<1> QED
  BY <1>2, Invariant, PTL DEF MSpec, OnlyCopyKept

-----------------------------------------------------------------------------
(* Where no put outlasts the horizon and the fence, a migrant that is      *)
(* putting its object has a pending row that the sweep leaves alone, so    *)
(* that the record of the job cannot be removed meanwhile.                 *)

Putting(a) ==
    /\ row[a].busena = "pending" /\ row[a].age <= Horizon + Fence
    /\ sweeper.at # "idle" => sweeper.attempt # a
    /\ mark # "deleted"

PutSafe == \A m \in Migrants : migrant[m].at = "put" => Putting(migrant[m].attempt)

\* What a run or a migrant does to the registry, with b in its hands.
OneRow(b) == row' = isipareigoti(b) \/ (\E r \in RowRec : row' = [row EXCEPT ![b] = r])

LEMMA PuttingKept ==
    ASSUME IInv, NEW a \in Attempts, Putting(a), UNCHANGED <<mark, sweeper>>,
           row' = row \/ (\E b \in Attempts : b # a /\ OneRow(b))
    PROVE  Putting(a)'
<1>1. row \in [Attempts -> RowRec]
  BY DEF IInv, Shared, SharedType
<1>2. row'[a] = row[a]
  BY <1>1 DEF OneRow, isipareigoti, Putting
<1> QED
  BY <1>2 DEF Putting

LEMMA NotedRow ==
    ASSUME IInv, NEW b \in Attempts, row' = [row EXCEPT ![b].busena = "abandoned"]
    PROVE  OneRow(b)
<1>1. row[b] \in RowRec
  BY DEF IInv, Shared, SharedType
<1>2. [row[b] EXCEPT !.busena = "abandoned"] \in RowRec
  BY <1>1, RowUpdates
<1>3. row' = [row EXCEPT ![b] = [row[b] EXCEPT !.busena = "abandoned"]]
  OBVIOUS
<1> QED
  BY <1>2, <1>3 DEF OneRow

LEMMA RegisteredRow ==
    ASSUME NEW b \in Attempts, row' = [row EXCEPT ![b] = [busena |-> "pending", age |-> 0]]
    PROVE  OneRow(b)
<1>1. [busena |-> "pending", age |-> 0] \in RowRec
  BY DEF RowRec, Old
<1> QED
  BY <1>1 DEF OneRow

LEMMA WriterRows ==
    ASSUME IInv, NEW w \in Writers, Begin(w) \/ WriterStep(w) \/ WriterCrash(w)
    PROVE  /\ UNCHANGED <<mark, sweeper>>
           /\ row' = row \/ (\E b \in Attempts : (b \notin used \/ b = writer[w].attempt) /\ OneRow(b))
<1>1. UNCHANGED <<mark, sweeper>>
  BY DEF Begin, WriterStep, WriterCrash, Check, Head, Register, Put, Verify, Commit, Lose, Clean, Note, OnlyWriter
<1>2. CASE Register(w)
  BY <1>1, <1>2, RegisteredRow DEF Register
<1>3. writer[w].attempt \in Attempts \/ writer[w].attempt = NoAttempt
  BY DEF IInv, Hands, WriterFits, Shared, SharedType
<1>4. CASE Commit(w)
  BY <1>1, <1>3, <1>4 DEF Commit, Wants, OneRow
<1>5. CASE Note(w)
  <2>1. writer[w].attempt \in Attempts
    BY <1>3, <1>5 DEF Note, IInv, Hands, WriterFits
  <2> QED
    BY <1>1, <1>5, <2>1, NotedRow DEF Note
<1>6. ASSUME ~ Register(w), ~ Commit(w), ~ Note(w)
      PROVE  row' = row
  BY <1>6 DEF Begin, WriterStep, WriterCrash, Check, Head, Put, Verify, Lose, Clean, OnlyWriter
<1> QED
  BY <1>1, <1>2, <1>4, <1>5, <1>6

LEMMA MigrantRows ==
    ASSUME IInv, NEW n \in Migrants, MigrantStep(n)
    PROVE  /\ UNCHANGED <<mark, sweeper>>
           /\ row' = row \/ (\E b \in Attempts : (b \notin used \/ b = migrant[n].attempt) /\ OneRow(b))
<1>1. UNCHANGED <<mark, sweeper>>
  BY DEF MigrantStep, Read, MRegister, MPut, MVerify, Switch, SwitchFails, MClean, MNote, NoteFailure, MCrash,
     OnlyMigrant, vars
<1>2. CASE MRegister(n)
  BY <1>1, <1>2, RegisteredRow DEF MRegister
<1>3. ASSUME Switch(n) \/ MNote(n)
      PROVE  migrant[n].attempt \in Attempts
  BY <1>3 DEF Switch, MNote, IInv, Hands, MigrantFits, Shared, SharedType
<1>4. CASE Switch(n)
  BY <1>1, <1>3, <1>4 DEF Switch, OneRow
<1>5. CASE MNote(n)
  BY <1>1, <1>3, <1>5, NotedRow DEF MNote
<1>6. ASSUME ~ MRegister(n), ~ Switch(n), ~ MNote(n)
      PROVE  row' = row
  BY <1>6 DEF MigrantStep, Read, MPut, MVerify, SwitchFails, MClean, NoteFailure, MCrash, OnlyMigrant, vars
<1> QED
  BY <1>1, <1>2, <1>4, <1>5, <1>6

LEMMA PutSafeNext ==
    ASSUME ~ SlowPuts, IInv, PutSafe, [MNext]_allVars
    PROVE  PutSafe'
<1> USE DEF PutSafe
<1>0. ASSUME NEW m \in Migrants, migrant[m].at = "put"
      PROVE  /\ migrant[m].attempt \in used /\ migrant[m].attempt \in Attempts
             /\ \A w \in Writers : writer[w].attempt # migrant[m].attempt
             /\ \A n \in Migrants : n # m => migrant[n].attempt # migrant[m].attempt
             /\ Putting(migrant[m].attempt)
  <2>1. migrant[m].attempt # NoAttempt /\ migrant[m].attempt \in used
    BY <1>0 DEF IInv, Hands, MigrantFits
  <2> QED
    BY <1>0, <2>1 DEF IInv, Hands, Apart, Shared, SharedType
<1>1. ASSUME NEW n \in Migrants, MigrantStep(n), ~ MRegister(n)
      PROVE  migrant'[n].at # "put"
  <2>1. migrant \in [Migrants -> MigrantRec]
    BY DEF IInv, Hands
  <2>2. \A s \in MigrantSteps : MigrantTo(n, s) => migrant'[n].at = s
    BY <2>1 DEF MigrantTo, MigrantRec
  <2>3. Leave(n) => migrant'[n].at = "idle"
    BY <2>1 DEF Leave, MigrantIdle
  <2>4. \A k \in SUBSET BOOLEAN : MFails(n, k) => migrant'[n].at = "clean"
    BY <2>1 DEF MFails, MigrantRec
  <2>5. Read(n) => migrant'[n].at \in {"failed", "register"}
    BY <2>1 DEF Read, MigrantRec
  <2> QED
    BY <1>1, <2>2, <2>3, <2>4, <2>5 DEF MigrantStep, MPut, MVerify, Switch, SwitchFails, MClean, MNote, NoteFailure,
       MCrash, MigrantSteps
<1>2. ASSUME NEW n \in Migrants, MigrantStep(n), NEW m \in Migrants, migrant'[m].at = "put"
      PROVE  Putting(migrant[m].attempt)'
  <2>1. ASSUME m # n
        PROVE  Putting(migrant[m].attempt)'
    <3>1. migrant'[m] = migrant[m]
      BY <1>2, <2>1 DEF MigrantStep, Read, MRegister, MPut, MVerify, Switch, SwitchFails, MClean, MNote, NoteFailure,
         MCrash, Leave, MigrantTo, MFails, IInv, Hands
    <3>2. PICK a \in Attempts : a = migrant[m].attempt /\ a \in used /\ migrant[n].attempt # a /\ Putting(a)
      BY <1>0, <1>2, <2>1, <3>1
    <3>3. Putting(a)'
      BY <1>2, <3>2, MigrantRows, PuttingKept
    <3>4. migrant'[m].attempt = a
      BY <3>1, <3>2
    <3> QED
      BY <3>3, <3>4 DEF Putting
  <2>2. ASSUME m = n
        PROVE  Putting(migrant[m].attempt)'
    <3>1. MRegister(n)
      BY <1>1, <1>2, <2>2
    <3>2. PICK a \in Attempts \ used :
             /\ row' = [row EXCEPT ![a] = [busena |-> "pending", age |-> 0]]
             /\ migrant' = [migrant EXCEPT ![n].at = "put", ![n].attempt = a]
             /\ mark = "none" /\ UNCHANGED <<mark, sweeper>>
      BY <1>2, <2>2, <3>1 DEF MRegister, Leave, MigrantIdle, Barred, IInv, Hands
    <3>3. migrant'[m].attempt = a
      BY <2>2, <3>2 DEF IInv, Hands, MigrantRec
    <3>4. row'[a].busena = "pending" /\ row'[a].age = 0
      BY <3>2 DEF IInv, Shared, SharedType
    <3>5. sweeper.at # "idle" => sweeper.attempt # a
      BY <3>2 DEF IInv, Shared
    <3>6. Putting(a)'
      BY <3>2, <3>4, <3>5 DEF Putting
    <3> QED
      BY <3>3, <3>6 DEF Putting
  <2> QED
    BY <2>1, <2>2
<1>3. ASSUME UNCHANGED migrant,
             \A a \in Attempts : a \in used /\ Putting(a) /\ (\A w \in Writers : writer[w].attempt # a) => Putting(a)'
      PROVE  PutSafe'
  <2> SUFFICES ASSUME NEW m \in Migrants, migrant[m].at = "put"
               PROVE  Putting(migrant[m].attempt)'
    BY <1>3
  <2>1. PICK a \in Attempts : /\ a = migrant[m].attempt /\ a \in used /\ Putting(a)
                              /\ \A w \in Writers : writer[w].attempt # a
    BY <1>0
  <2>2. Putting(a)' /\ migrant'[m].attempt = a
    BY <1>3, <2>1
  <2> QED
    BY <2>2 DEF Putting
<1>4. ASSUME UNCHANGED migrant, row' = row, sweeper' = sweeper \/ sweeper'.at = "idle", mark' # "deleted" \/ mark' = mark
      PROVE  PutSafe'
  BY <1>3, <1>4 DEF Putting
<1>5. ASSUME NEW w \in Writers, Begin(w) \/ WriterStep(w) \/ WriterCrash(w), UNCHANGED migrationVars
      PROVE  PutSafe'
  BY <1>3, <1>5, WriterRows, PuttingKept DEF migrationVars
<1>6. CASE MEraseRecord
  <2>1. CASE UNCHANGED <<row, mark, sweeper>>
    BY <1>4, <1>6, <2>1 DEF MEraseRecord
  <2>2. CASE ~ RemovalRefused
    <3>1. \A a \in Attempts : row[a].busena # "pending"
      BY <2>2 DEF RemovalRefused, listResultArtifacts
    <3> QED
      BY <1>3, <1>6, <3>1 DEF Putting, MEraseRecord
  <2> QED
    BY <1>6, <2>1, <2>2 DEF MEraseRecord, EraseRecord
<1>7. CASE MTick
  <2>1. ASSUME NEW m \in Migrants, migrant[m].at = "put"
        PROVE  Putting(migrant[m].attempt)'
    <3>1. PICK a \in Attempts : a = migrant[m].attempt /\ Putting(a)
      BY <1>0, <2>1
    <3>2. row[a].age < Horizon + Fence /\ row[a] \in RowRec
      BY <1>7, <2>1, <3>1 DEF MTick, IInv, Shared, SharedType
    <3>3. row'[a].busena = row[a].busena /\ row'[a].age <= Horizon + Fence
      <4>1. row'[a] = IF Aged(a) THEN [row[a] EXCEPT !.age = @ + 1] ELSE row[a]
        BY <1>7 DEF MTick, Tick
      <4>2. \A r \in RowRec : r.age < Horizon + Fence =>
               LET s == [r EXCEPT !.age = @ + 1] IN s.busena = r.busena /\ s.age <= Horizon + Fence
        BY DEF RowRec, Old
      <4>3. row[a].age <= Horizon + Fence
        BY <3>2 DEF RowRec, Old
      <4> QED
        BY <3>2, <4>1, <4>2, <4>3
    <3>4. Putting(a)'
      BY <1>7, <3>1, <3>3 DEF Putting, MTick, Tick
    <3>5. migrant'[m].attempt = a
      BY <1>7, <3>1 DEF MTick, migrationVars
    <3> QED
      BY <3>4, <3>5 DEF Putting
  <2> QED
    BY <1>7, <2>1 DEF MTick, migrationVars
<1>8. ASSUME FailJob \/ EraseBegin \/ EraseList \/ EraserCrash \/ SweepObject \/ SweepFails
             \/ (\E a \in Attempts : EraseObject(a) \/ EraseObjectFails(a)), UNCHANGED migrationVars
      PROVE  PutSafe'
  <2>1. UNCHANGED migrant /\ row' = row /\ (mark' # "deleted" \/ mark' = mark)
    BY <1>8 DEF FailJob, EraseBegin, EraseList, EraserCrash, SweepObject, SweepFails, EraseObject, EraseObjectFails,
       migrationVars
  <2>2. (sweeper.at # "idle" /\ sweeper'.attempt = sweeper.attempt) \/ sweeper' = sweeper \/ sweeper'.at = "idle"
    <3>1. SweepObject => sweeper.at # "idle" /\ sweeper'.attempt = sweeper.attempt
      BY DEF SweepObject, IInv, Shared, SharedType
    <3>2. SweepFails => sweeper'.at = "idle"
      BY DEF SweepFails, SweeperIdle
    <3> QED
      BY <1>8, <3>1, <3>2 DEF FailJob, EraseBegin, EraseList, EraserCrash, EraseObject, EraseObjectFails
  <2> QED
    BY <1>3, <2>1, <2>2 DEF Putting
<1>9. ASSUME Select, UNCHANGED migrationVars
      PROVE  PutSafe'
  <2>1. PICK c \in Attempts : Candidate(c) /\ sweeper' = [at |-> "object", attempt |-> c]
    BY <1>9 DEF Select
  <2>2. \A a \in Attempts : Putting(a) => a # c
    BY <2>1 DEF Candidate, SweepAge, Putting, IInv, Shared, SharedType, RowRec, Old
  <2>3. \A a \in Attempts : Putting(a) => Putting(a)'
    BY <1>9, <2>1, <2>2 DEF Select, Putting
  <2> QED
    BY <1>3, <1>9, <2>3 DEF migrationVars
<1>10. ASSUME SweepRow, UNCHANGED migrationVars
       PROVE  PutSafe'
  <2>1. \A a \in Attempts : Putting(a) => row'[a] = row[a]
    BY <1>10 DEF SweepRow, Putting, IInv, Shared, SharedType
  <2>2. \A a \in Attempts : Putting(a) => Putting(a)'
    BY <1>10, <2>1 DEF SweepRow, SweeperIdle, Putting
  <2> QED
    BY <1>3, <1>10, <2>2 DEF migrationVars
<1>11. ASSUME NEW r \in Results, Rewrite(r)
       PROVE  PutSafe'
  BY <1>4, <1>11 DEF Rewrite, vars
<1>12. CASE UNCHANGED allVars
  BY <1>4, <1>12 DEF allVars, vars, migrationVars
<1>13. ASSUME NEW n \in Migrants, MigrantStep(n)
       PROVE  PutSafe'
  BY <1>2, <1>13
<1> QED
  BY <1>5, <1>6, <1>7, <1>8, <1>9, <1>10, <1>11, <1>12, <1>13 DEF MNext, OtherStep

(* After a confirmed erasure no migrant that had read the result before    *)
(* brings the content back, as long as no put outlasts the horizon and the *)
(* fence together.                                                         *)
THEOREM ErasedStaysAway == ~ SlowPuts /\ MSpec => ErasedNotCopied
<1> SUFFICES ASSUME ~ SlowPuts PROVE MSpec => ErasedNotCopied
  OBVIOUS
<1> DEFINE Away == (mark = "deleted" /\ UNCHANGED writer) => object' \subseteq object
<1>1. MInit => PutSafe
  BY DEF MInit, PutSafe, MigrantIdle
<1>2. IInv /\ PutSafe /\ [MNext]_allVars => PutSafe'
  BY PutSafeNext
<1>3. IInv /\ PutSafe /\ [MNext]_allVars => [Away]_allVars
  <2> SUFFICES ASSUME IInv, PutSafe, [MNext]_allVars, mark = "deleted", UNCHANGED writer
               PROVE  object' \subseteq object
    OBVIOUS
  <2>1. ASSUME NEW m \in Migrants, MigrantStep(m)
        PROVE  object' \subseteq object
    <3>1. ~ MPut(m)
      BY DEF MPut, PutSafe, Putting
    <3> QED
      BY <2>1, <3>1 DEF MigrantStep, Read, MRegister, MVerify, Switch, SwitchFails, MClean, Cleaned, MNote, NoteFailure,
         MCrash, OnlyMigrant, vars
  <2>2. ASSUME NEW w \in Writers, Begin(w) \/ WriterStep(w) \/ WriterCrash(w)
        PROVE  object' \subseteq object
    <3>1. ~ Put(w)
      BY DEF Put, WriterTo, IInv, Hands, WriterRec
    <3> QED
      BY <2>2, <3>1 DEF Begin, WriterStep, WriterCrash, Check, Head, Register, Verify, Commit, Lose, Clean, Cleaned,
         Note, OnlyWriter
  <2>3. OtherStep => object' \subseteq object
    BY <2>2 DEF OtherStep, FailJob, EraseBegin, EraseList, EraserCrash, EraseObject, EraseObjectFails, Select,
       SweepObject, SweepFails, SweepRow
  <2> QED
    BY <2>1, <2>3 DEF MNext, Rewrite, MEraseRecord, EraseRecord, MTick, Tick, allVars, vars
<1> QED
  BY <1>1, <1>2, <1>3, Invariant, PTL DEF MSpec, ErasedNotCopied

-----------------------------------------------------------------------------
(* A job nobody erases, without migrants (KeptSpec), where no put outlasts *)
(* the horizon and the fence: every object has its row.                    *)

KShared ==
    /\ row \in [Attempts -> RowRec] /\ object \subseteq Attempts /\ used \subseteq Attempts
    /\ ref \in Attempts \cup {NoAttempt}
    /\ sweeper \in [at : {"idle", "object", "row"}, attempt : Attempts \cup {NoAttempt}]
    /\ \A a \in Attempts : row[a].busena # "none" => a \in used
    /\ \A a \in object : row[a].busena # "none"
    /\ sweeper.at # "idle" => sweeper.attempt \in used
    /\ sweeper.at = "row" => sweeper.attempt \notin object

PutSwept(a) ==
    /\ row[a].busena = "pending" /\ row[a].age <= Horizon + Fence
    /\ sweeper.at # "idle" => sweeper.attempt # a

KHands ==
    /\ writer \in [Writers -> WriterRec]
    /\ \A w \in Writers :
          /\ writer[w].attempt \in used \cup {NoAttempt}
          /\ writer[w].at \in {"put", "verify", "clean", "note"} => writer[w].attempt # NoAttempt
          /\ writer[w].at = "put" => PutSwept(writer[w].attempt)
    /\ \A v, w \in Writers : v # w /\ writer[v].attempt = writer[w].attempt => writer[v].attempt = NoAttempt

KInv == KShared /\ KHands

LEMMA KInit == Init => KInv
<1> SUFFICES ASSUME Init PROVE KInv
  OBVIOUS
<1>1. KShared
  BY RecordsFit DEF Init, NothingWritten, SweeperIdle, NoRow, KShared
<1>2. writer \in [Writers -> WriterRec]
  BY RecordsFit DEF Init
<1>3. \A w \in Writers : writer[w].at = "idle" /\ writer[w].attempt = NoAttempt
  BY DEF Init, WriterIdle
<1> QED
  BY <1>1, <1>2, <1>3 DEF KInv, KHands

LEMMA KNobodyMoves ==
    ASSUME KInv, KShared', UNCHANGED <<writer, used>>,
           \A a \in used : PutSwept(a) => PutSwept(a)'
    PROVE  KInv'
<1>1. \A w \in Writers : writer[w].at = "put" => PutSwept(writer[w].attempt)'
  <2> SUFFICES ASSUME NEW w \in Writers, writer[w].at = "put" PROVE PutSwept(writer[w].attempt)'
    OBVIOUS
  <2>1. PICK a \in used : a = writer[w].attempt /\ PutSwept(a)
    BY DEF KInv, KHands
  <2>2. PutSwept(a)' /\ writer'[w].attempt = a
    BY <2>1
  <2> QED
    BY <2>2 DEF PutSwept
<1> QED
  BY <1>1 DEF KInv, KHands

\* The run w goes on with x; what it does to the registry leaves the others' rows.
LEMMA KWriterMoves ==
    ASSUME KInv, KShared', NEW w \in Writers, NEW x \in WriterRec, writer' = [writer EXCEPT ![w] = x],
           UNCHANGED sweeper, used \subseteq used',
           x.attempt \in {writer[w].attempt, NoAttempt} \/ x.attempt \in used' \ used,
           x.at \in {"put", "verify", "clean", "note"} => x.attempt # NoAttempt,
           x.at = "put" => PutSwept(x.attempt)',
           \A a \in used : a # writer[w].attempt => row'[a].age = row[a].age
                                                  /\ (row[a].busena = "pending" => row'[a].busena = "pending")
    PROVE  KInv'
<1>1. writer'[w] = x /\ (\A v \in Writers : v # w => writer'[v] = writer[v]) /\ writer' \in [Writers -> WriterRec]
  BY DEF KInv, KHands
<1>2. ASSUME NEW v \in Writers, writer'[v].at = "put"
      PROVE  PutSwept(writer[v].attempt)'
  <2>1. CASE v = w
    <3>1. PutSwept(x.attempt)' /\ writer'[v].attempt = x.attempt
      BY <1>1, <1>2, <2>1
    <3> QED
      BY <3>1 DEF PutSwept
  <2>2. CASE v # w
    <3>1. PICK a \in used : a = writer[v].attempt /\ PutSwept(a) /\ a # writer[w].attempt
      BY <1>1, <1>2, <2>2, AttemptAssumption DEF KInv, KHands, KShared
    <3>2. PutSwept(a)'
      BY <3>1 DEF PutSwept
    <3>3. writer'[v].attempt = a
      BY <1>1, <2>2, <3>1
    <3> QED
      BY <3>2, <3>3 DEF PutSwept
  <2> QED
    BY <2>1, <2>2
<1>3. ASSUME NEW v \in Writers
      PROVE  /\ writer'[v].attempt \in used' \cup {NoAttempt}
             /\ writer'[v].at \in {"put", "verify", "clean", "note"} => writer'[v].attempt # NoAttempt
  BY <1>1 DEF KInv, KHands
<1>4. ASSUME NEW v \in Writers, NEW u \in Writers, v # u, writer'[v].attempt = writer'[u].attempt
      PROVE  writer'[v].attempt = NoAttempt
  BY <1>1, <1>4 DEF KInv, KHands
<1> QED
  BY <1>1, <1>2, <1>3, <1>4 DEF KInv, KHands

LEMMA KWriterNext ==
    ASSUME KInv, NEW w \in Writers, Begin(w) \/ WriterStep(w) \/ WriterCrash(w)
    PROVE  KInv'
<1>0. writer[w] \in WriterRec /\ writer[w].attempt \in used \cup {NoAttempt} /\ row \in [Attempts -> RowRec]
  BY DEF KInv, KHands, KShared
<1> DEFINE Goes(x) == /\ writer' = [writer EXCEPT ![w] = x]
                      /\ x.attempt \in {writer[w].attempt, NoAttempt} /\ x.at # "put"
                      /\ x.at \in {"verify", "clean", "note"} => x.attempt # NoAttempt
<1>1. ASSUME NEW s \in WriterSteps \ {"put"}, WriterTo(w, s),
             s \in {"verify", "clean", "note"} => writer[w].attempt # NoAttempt
      PROVE  \E x \in WriterRec : Goes(x)
  <2> DEFINE x == [writer[w] EXCEPT !.at = s]
  <2>1. writer' = [writer EXCEPT ![w] = x]
    BY <1>1 DEF WriterTo
  <2>2. x \in WriterRec /\ x.at = s /\ x.attempt = writer[w].attempt
    BY <1>0 DEF WriterRec
  <2> QED
    BY <1>1, <2>1, <2>2
<1>2. Done(w) => \E x \in WriterRec : Goes(x)
  BY WriterIsDone
<1>3. ASSUME OnlyWriter, \E x \in WriterRec : Goes(x)
      PROVE  KInv'
  <2>1. KShared'
    BY <1>3 DEF OnlyWriter, KInv, KShared
  <2> QED
    BY <1>3, <2>1, KWriterMoves DEF OnlyWriter
<1>4. CASE Begin(w)
  <2>1. PICK r \in Results : writer' = [writer EXCEPT ![w] = [WriterIdle EXCEPT !.at = "check", !.value = r]]
    BY <1>4 DEF Begin
  <2> DEFINE x == [WriterIdle EXCEPT !.at = "check", !.value = r]
  <2>2. x \in WriterRec /\ x.at = "check" /\ x.attempt = NoAttempt
    BY DEF WriterIdle, WriterRec, WriterSteps
  <2>3. Goes(x)
    BY <2>1, <2>2
  <2> QED
    BY <1>3, <1>4, <2>2, <2>3 DEF Begin
<1>5. CASE Check(w)
  <2>1. \E x \in WriterRec : Goes(x)
    <3>1. CASE ref # NoAttempt /\ result = writer[w].value
      <4> DEFINE x == [writer[w] EXCEPT !.at = "head", !.seen = ref]
      <4>1. x \in WriterRec /\ x.at = "head" /\ x.attempt = writer[w].attempt
        BY <1>0 DEF WriterRec, WriterSteps, KInv, KShared
      <4>2. writer' = [writer EXCEPT ![w] = x]
        BY <1>5, <3>1 DEF Check
      <4> QED
        BY <4>1, <4>2
    <3>2. CASE ~ (ref # NoAttempt /\ result = writer[w].value)
      <4>1. WriterTo(w, "register")
        BY <1>5, <3>2 DEF Check, WriterTo
      <4> QED
        BY <1>1, <4>1 DEF WriterSteps
    <3> QED
      BY <3>1, <3>2
  <2> QED
    BY <1>3, <1>5, <2>1 DEF Check
<1>6. CASE Head(w)
  <2>1. PICK s \in {"commit", "register"} : WriterTo(w, s)
    BY <1>6 DEF Head
  <2> QED
    BY <1>1, <1>3, <1>6, <2>1 DEF Head, WriterSteps
<1>7. CASE Register(w)
  <2>1. PICK a \in Attempts \ used :
           /\ used' = used \cup {a}
           /\ row' = [row EXCEPT ![a] = [busena |-> "pending", age |-> 0]]
           /\ writer' = [writer EXCEPT ![w].at = "put", ![w].attempt = a]
    BY <1>7 DEF Register
  <2>2. PICK x \in WriterRec : writer' = [writer EXCEPT ![w] = x] /\ x.at = "put" /\ x.attempt = a
    <3> DEFINE x == [writer[w] EXCEPT !.at = "put", !.attempt = a]
    <3>1. x \in WriterRec /\ x.at = "put" /\ x.attempt = a
      BY <1>0 DEF WriterRec, WriterSteps
    <3>2. writer' = [writer EXCEPT ![w] = x]
      BY <2>1
    <3> QED
      BY <3>1, <3>2
  <2>3. (\A b \in Attempts : b # a => row'[b] = row[b]) /\ row'[a].busena = "pending" /\ row'[a].age = 0
    BY <1>0, <2>1
  <2>4. KShared'
    <3>1. row' \in [Attempts -> RowRec]
      BY <1>0, <2>1 DEF RowRec, Old
    <3> QED
      BY <1>7, <2>1, <2>3, <3>1 DEF Register, KInv, KShared
  <2>5. PutSwept(a)'
    BY <1>7, <2>1, <2>3 DEF PutSwept, Register, KInv, KShared
  <2>6. x.attempt # NoAttempt /\ x.attempt \in used' \ used /\ PutSwept(x.attempt)'
    BY <2>1, <2>2, <2>5, AttemptAssumption
  <2>7. \A b \in used : row'[b].age = row[b].age /\ row'[b].busena = row[b].busena
    BY <2>1, <2>3 DEF KInv, KShared
  <2>8. UNCHANGED sweeper /\ used \subseteq used'
    BY <1>7, <2>1 DEF Register
  <2>9. writer' = [writer EXCEPT ![w] = x]
    BY <2>2
  <2> QED
    BY <2>4, <2>6, <2>7, <2>8, <2>9, KWriterMoves
<1>8. CASE Put(w)
  <2>1. PICK s \in {"verify", "clean"} : WriterTo(w, s)
    BY <1>8 DEF Put
  <2>2. writer[w].attempt \in used /\ PutSwept(writer[w].attempt)
    BY <1>8 DEF Put, KInv, KHands
  <2>3. \E x \in WriterRec : Goes(x)
    BY <1>1, <1>8, <2>1 DEF WriterSteps, Put, KInv, KHands
  <2>4. KShared'
    BY <1>8, <2>2 DEF Put, PutSwept, KInv, KShared
  <2> QED
    BY <1>8, <2>3, <2>4, KWriterMoves DEF Put
<1>9. CASE Verify(w)
  <2>1. PICK s \in {"commit", "clean"} : WriterTo(w, s)
    BY <1>9 DEF Verify
  <2>2. writer[w].attempt # NoAttempt
    BY <1>9 DEF Verify, KInv, KHands
  <2> QED
    BY <1>1, <1>3, <1>9, <2>1, <2>2 DEF Verify, WriterSteps
<1>10. CASE Commit(w)
  <2>1. writer[w].attempt \in Attempts /\ writer[w].attempt # NoAttempt
    BY <1>0, <1>10 DEF Commit, Wants, KInv, KShared
  <2>2. \E x \in WriterRec : Goes(x)
    <3>1. ASSUME writer' = [writer EXCEPT ![w].at = "clean", ![w].again = IF @ = "no" THEN "wanted" ELSE @]
          PROVE  \E x \in WriterRec : Goes(x)
      <4>1. PICK g \in {"no", "wanted", "used"} :
               writer' = [writer EXCEPT ![w] = [writer[w] EXCEPT !.at = "clean", !.again = g]]
        <5>1. writer[w].again \in {"no", "wanted", "used"}
          BY <1>0 DEF WriterRec
        <5> QED
          BY <3>1, <5>1
      <4> DEFINE x == [writer[w] EXCEPT !.at = "clean", !.again = g]
      <4>2. x \in WriterRec /\ x.at = "clean" /\ x.attempt = writer[w].attempt
        BY <1>0 DEF WriterRec, WriterSteps
      <4> QED
        BY <2>1, <4>1, <4>2
    <3> QED
      BY <1>2, <1>10, <3>1 DEF Commit
  <2>3. /\ row' \in [Attempts -> RowRec]
        /\ \A b \in Attempts :
              /\ row'[b].age = row[b].age /\ (row'[b].busena = "none" <=> row[b].busena = "none")
              /\ b # writer[w].attempt /\ row[b].busena = "pending" => row'[b].busena = "pending"
    <3>1. CASE row' = row
      BY <1>0, <3>1
    <3>2. CASE row' = isipareigoti(writer[w].attempt) /\ FenceHolds(writer[w].attempt)
      <4>1. row' \in [Attempts -> RowRec]
        BY <1>0, <2>1, <3>2, RowUpdates DEF isipareigoti
      <4>2. \A b \in Attempts : /\ row'[b].age = row[b].age
                                /\ row'[b].busena = IF b = writer[w].attempt THEN "committed"
                                                   ELSE IF row[b].busena = "committed" THEN "abandoned"
                                                   ELSE row[b].busena
        BY <1>0, <2>1, <3>2 DEF isipareigoti, RowRec
      <4> QED
        BY <3>2, <4>1, <4>2 DEF FenceHolds
    <3> QED
      BY <1>10, <3>1, <3>2 DEF Commit
  <2>4. KShared'
    BY <1>10, <2>1, <2>3 DEF Commit, KInv, KShared
  <2>5. \A b \in used : b # writer[w].attempt => row'[b].age = row[b].age
                                              /\ (row[b].busena = "pending" => row'[b].busena = "pending")
    BY <2>3 DEF KInv, KShared
  <2>6. UNCHANGED <<sweeper, used>>
    BY <1>10 DEF Commit
  <2> QED
    BY <2>2, <2>4, <2>5, <2>6, KWriterMoves
<1>11. CASE Lose(w)
  <2>1. \E x \in WriterRec : Goes(x)
    BY <1>1, <1>2, <1>11 DEF Lose, WriterSteps
  <2> QED
    BY <1>3, <1>11, <2>1 DEF Lose
<1>12. CASE Clean(w)
  <2>1. \E x \in WriterRec : Goes(x)
    BY <1>1, <1>12 DEF Clean, WriterSteps, KInv, KHands
  <2>2. KShared'
    BY <1>12 DEF Clean, Cleaned, KInv, KShared
  <2> QED
    BY <1>12, <2>1, <2>2, KWriterMoves DEF Clean
<1>13. CASE Note(w)
  <2>1. writer[w].attempt \in used /\ writer[w].attempt \in Attempts
    BY <1>13 DEF Note, KInv, KHands, KShared
  <2>2. \E x \in WriterRec : Goes(x)
    <3>1. CASE writer[w].again = "wanted"
      <4> DEFINE x == [WriterIdle EXCEPT !.at = "check", !.value = writer[w].value, !.again = "used"]
      <4>1. writer' = [writer EXCEPT ![w] = x]
        BY <1>13, <3>1 DEF Note
      <4>2. x \in WriterRec /\ x.at = "check" /\ x.attempt = NoAttempt
        BY <1>0 DEF WriterIdle, WriterRec, WriterSteps
      <4> QED
        BY <4>1, <4>2
    <3>2. CASE writer[w].again # "wanted"
      BY <1>2, <1>13, <3>2 DEF Note
    <3> QED
      BY <3>1, <3>2
  <2>3. /\ row' \in [Attempts -> RowRec]
        /\ \A b \in Attempts : /\ row'[b].age = row[b].age /\ (row'[b].busena = "none" <=> row[b].busena = "none")
                               /\ b # writer[w].attempt => row'[b] = row[b]
    <3>1. CASE row' = row
      BY <1>0, <3>1
    <3>2. CASE row[writer[w].attempt].busena # "none" /\ row' = [row EXCEPT ![writer[w].attempt].busena = "abandoned"]
      <4>1. PICK r \in RowRec : /\ r = row[writer[w].attempt]
                                /\ [r EXCEPT !.busena = "abandoned"] \in RowRec
                                /\ [r EXCEPT !.busena = "abandoned"].age = r.age
                                /\ [r EXCEPT !.busena = "abandoned"].busena = "abandoned"
        <5>1. row[writer[w].attempt] \in RowRec
          BY <1>0, <2>1
        <5>2. \A r \in RowRec : LET q == [r EXCEPT !.busena = "abandoned"] IN
                                q \in RowRec /\ q.age = r.age /\ q.busena = "abandoned"
          BY DEF RowRec
        <5> QED
          BY <5>1, <5>2
      <4>2. row' = [row EXCEPT ![writer[w].attempt] = [row[writer[w].attempt] EXCEPT !.busena = "abandoned"]]
        BY <3>2
      <4> QED
        BY <1>0, <2>1, <3>2, <4>1, <4>2
    <3> QED
      BY <1>13, <3>1, <3>2 DEF Note
  <2>4. KShared'
    BY <1>13, <2>3 DEF Note, KInv, KShared
  <2>5. \A b \in used : b # writer[w].attempt => row'[b].age = row[b].age
                                              /\ (row[b].busena = "pending" => row'[b].busena = "pending")
    BY <2>3 DEF KInv, KShared
  <2>6. UNCHANGED <<sweeper, used>>
    BY <1>13 DEF Note
  <2> QED
    BY <2>2, <2>4, <2>5, <2>6, KWriterMoves
<1>14. CASE WriterCrash(w)
  BY <1>2, <1>3, <1>14 DEF WriterCrash
<1> QED
  BY <1>4, <1>5, <1>6, <1>7, <1>8, <1>9, <1>10, <1>11, <1>12, <1>13, <1>14 DEF WriterStep

LEMMA KNext ==
    ASSUME ~ SlowPuts, KInv, [KeptNext]_vars
    PROVE  KInv'
<1>1. ASSUME NEW w \in Writers, Begin(w) \/ WriterStep(w) \/ WriterCrash(w)
      PROVE  KInv'
  BY <1>1, KWriterNext
<1>2. CASE FailJob
  BY <1>2, KNobodyMoves DEF FailJob, KInv, KShared, PutSwept
<1>3. CASE Select
  <2>1. PICK c \in Attempts : Candidate(c) /\ sweeper' = [at |-> "object", attempt |-> c]
    BY <1>3 DEF Select
  <2>2. c \in used
    BY <2>1 DEF Candidate, KInv, KShared
  <2>3. KShared'
    BY <1>3, <2>1, <2>2 DEF Select, KInv, KShared
  <2>4. \A a \in used : PutSwept(a) => a # c
    BY <2>1 DEF Candidate, SweepAge, PutSwept, KInv, KShared, RowRec, Old
  <2>5. \A a \in used : PutSwept(a) => PutSwept(a)'
    BY <1>3, <2>1, <2>4 DEF Select, PutSwept
  <2> QED
    BY <1>3, <2>3, <2>5, KNobodyMoves DEF Select
<1>4. CASE SweepObject
  <2>1. sweeper'.at = "row" /\ sweeper'.attempt = sweeper.attempt
        /\ sweeper' \in [at : {"idle", "object", "row"}, attempt : Attempts \cup {NoAttempt}]
    BY <1>4 DEF SweepObject, KInv, KShared
  <2>2. KShared'
    BY <1>4, <2>1 DEF SweepObject, KInv, KShared
  <2> QED
    BY <1>4, <2>1, <2>2, KNobodyMoves DEF SweepObject, PutSwept
<1>5. CASE SweepFails
  <2>1. KShared'
    BY <1>5 DEF SweepFails, SweeperIdle, KInv, KShared
  <2> QED
    BY <1>5, <2>1, KNobodyMoves DEF SweepFails, SweeperIdle, PutSwept
<1>6. CASE SweepRow
  <2>1. sweeper.attempt \in Attempts /\ sweeper.attempt \notin object /\ row \in [Attempts -> RowRec]
    BY <1>6 DEF SweepRow, KInv, KShared
  <2>2. row' \in [Attempts -> RowRec] /\ \A a \in Attempts : a # sweeper.attempt => row'[a] = row[a]
    BY <1>6, <2>1, RecordsFit DEF SweepRow
  <2>3. row'[sweeper.attempt].busena \in {"none", row[sweeper.attempt].busena}
    BY <1>6, <2>1 DEF SweepRow, NoRow
  <2>4. KShared'
    BY <1>6, <2>1, <2>2, <2>3 DEF SweepRow, SweeperIdle, KInv, KShared
  <2>5. \A a \in used : PutSwept(a) => PutSwept(a)'
    BY <1>6, <2>2 DEF SweepRow, SweeperIdle, PutSwept, KInv, KShared
  <2> QED
    BY <1>6, <2>4, <2>5, KNobodyMoves DEF SweepRow
<1>7. CASE Tick
  <2>1. \A a \in Attempts : row[a] \in RowRec /\ row'[a] = IF Aged(a) THEN [row[a] EXCEPT !.age = @ + 1] ELSE row[a]
    BY <1>7 DEF Tick, KInv, KShared
  <2>2. \A r \in RowRec : r.age < Old =>
           LET s == [r EXCEPT !.age = @ + 1] IN s \in RowRec /\ s.busena = r.busena /\ s.age = r.age + 1
    BY DEF RowRec, Old
  <2>3. \A a \in Attempts : /\ row'[a] \in RowRec /\ row'[a].busena = row[a].busena
                            /\ row'[a].age \in {row[a].age, row[a].age + 1}
    BY <2>1, <2>2 DEF Aged
  <2>4. row' \in [Attempts -> RowRec]
    BY <1>7, <2>3 DEF Tick
  <2>5. KShared'
    BY <1>7, <2>3, <2>4 DEF Tick, KInv, KShared
  <2>6. ASSUME NEW w \in Writers, writer[w].at = "put"
        PROVE  PutSwept(writer[w].attempt)'
    <3>1. PICK a \in Attempts : a = writer[w].attempt /\ PutSwept(a)
      BY <2>6 DEF KInv, KHands, KShared
    <3>2. row[a].age < Horizon + Fence
      BY <1>7, <2>6, <3>1 DEF Tick, PutUnderWay
    <3>3. PutSwept(a)'
      BY <1>7, <2>1, <2>3, <3>1, <3>2 DEF PutSwept, Tick, RowRec, Old
    <3>4. writer'[w].attempt = a
      BY <1>7, <3>1 DEF Tick
    <3> QED
      BY <3>3, <3>4 DEF PutSwept
  <2> QED
    BY <1>7, <2>5, <2>6 DEF Tick, KInv, KHands
<1>8. CASE UNCHANGED vars
  BY <1>8, KNobodyMoves DEF vars, KInv, KShared, PutSwept
<1> QED
  BY <1>1, <1>2, <1>3, <1>4, <1>5, <1>6, <1>7, <1>8 DEF KeptNext

(* No object drops out of the books: while it exists, its attempt has a    *)
(* row by which the sweep will find it.                                    *)
THEOREM ObjectsAreTracked == ~ SlowPuts /\ KeptSpec => []NoUntrackedObject
<1> SUFFICES ASSUME ~ SlowPuts PROVE KeptSpec => []NoUntrackedObject
  OBVIOUS
<1>1. KInv /\ [KeptNext]_vars => KInv'
  BY KNext
<1>2. KInv => NoUntrackedObject
  BY DEF KInv, KShared, NoUntrackedObject
<1> QED
  BY KInit, <1>1, <1>2, PTL DEF KeptSpec
=============================================================================
