--------------------------- MODULE Storage_proofs ---------------------------
(***************************************************************************)
(* What is kept beside the job store: results in a directory (FsStore) and *)
(* the rows of the audit log (AuditLog).                                   *)
(*                                                                         *)
(* FsStore, for any number of attempts.  What is said of one attempt       *)
(* (PutPart, DataPart, ReceiptPart, ErasePart) speaks of its own put,      *)
(* erasure and names, so that the steps of any other attempt preserve it   *)
(* for one and the same reason (Elsewhere).                                *)
(*                                                                         *)
(* AuditLog, for any number of replicas and keys, any page, batch and      *)
(* limit, and any number of rows and restarts.                             *)
(***************************************************************************)
EXTENDS FsStore, AuditLog, TLAPS

Before == {"idle", "mkdir", "open"}
Writing == {"write", "sync", "rename"}
Written == {"syncdir", "parents"}

(* Where a put is, and which names there can be.                           *)
PutPart(k) ==
    /\ put[k].at \in Before => \A d \in kept : d[k] = {}
    /\ put[k].at \in Before \cup Writing => ~ put[k].renamed
    /\ put[k].at \in Written => put[k].renamed
    /\ put[k].at \in Writing \cup {"rm"} => (~ put[k].renamed => dir[k] \subseteq {"temp"})
    /\ put[k].at \in Written \cup {"rm"} => (put[k].renamed => dir[k] \subseteq {"final"})
    /\ put[k].at = "rmsync" => dir[k] = {}
    /\ told[k] \in {"stored", "failed", "removed"} => put[k].at = "over"

DataPart(k) ==
    /\ put[k].at \in Writing => \A d \in kept : d[k] \subseteq {"temp"}
    /\ put[k].at = "rename" => data[k] = "synced"
    /\ \A d \in kept : "final" \in d[k] => data[k] = "synced"

ReceiptPart(k) ==
    /\ eraser[k].at # "idle" => k \in erased
    /\ (put[k].at # "idle" /\ ~ put[k].made /\ ~ put[k].relies) => place = "durable"
    /\ (put[k].at = "syncdir" /\ k \notin erased) => "final" \in dir[k]
    /\ (put[k].at = "parents" /\ k \notin erased) => \A d \in kept : "final" \in d[k]
    /\ (told[k] = "stored" /\ k \notin erased /\ ~ put[k].relies) =>
            place = "durable" /\ \A d \in kept : "final" \in d[k]

Closing == {"temp", "untemped", "answer"}

ErasePart(k) ==
    /\ told[k] \in {"failed", "removed"} => \A d \in kept : d[k] = {}
    /\ eraser[k].at \notin Closing => ~ eraser[k].pasalinta
    /\ (eraser[k].at # "idle" /\ eraser[k].alone) =>
          /\ put[k].at = "over"
          /\ ~ eraser[k].temp => "temp" \notin dir[k]
          /\ eraser[k].at \notin {"untemped", "answer"} => (eraser[k].temp => "temp" \in dir[k])
          /\ eraser[k].at \in {"unlinked"} \cup Closing => "final" \notin dir[k]
          /\ eraser[k].at = "untemped" => "temp" \notin dir[k]
          /\ eraser[k].pasalinta => \A d \in kept : /\ "final" \notin d[k]
                                                    /\ ~ eraser[k].temp => "temp" \notin d[k]
          /\ (eraser[k].at = "answer" /\ eraser[k].pasalinta) => \A d \in kept : d[k] = {}

KeyInv(k) == PutPart(k) /\ DataPart(k) /\ ReceiptPart(k) /\ ErasePart(k)

IInv == TypeOK /\ dir \in kept /\ \A k \in Keys : KeyInv(k)

(* What a step of one attempt leaves to another one, j.                    *)
Spared(j) ==
    /\ put'[j] = put[j] /\ eraser'[j] = eraser[j] /\ told'[j] = told[j] /\ data'[j] = data[j]
    /\ dir'[j] = dir[j] /\ (j \in erased' <=> j \in erased)
    /\ kept' \subseteq kept \cup {dir'}
    /\ place = "durable" => place' = "durable"

LEMMA Elsewhere ==
    ASSUME NEW j \in Keys, dir \in kept, KeyInv(j), Spared(j)
    PROVE  KeyInv(j)'
<1>1. \A d \in kept' : d \in kept \/ d = dir'
  BY DEF Spared
<1>2. \A d \in kept' : \E c \in kept : c[j] = d[j]
  BY <1>1 DEF Spared
<1>3. PutPart(j)'
  BY <1>2 DEF KeyInv, PutPart, Spared, Before, Writing, Written
<1>4. DataPart(j)'
  BY <1>2 DEF KeyInv, DataPart, Spared, Writing
<1>5. ReceiptPart(j)'
  BY <1>2 DEF KeyInv, ReceiptPart, Spared
<1>6. ErasePart(j)'
  BY <1>2 DEF KeyInv, ErasePart, Spared, Closing
<1> QED BY <1>3, <1>4, <1>5, <1>6 DEF KeyInv

LEMMA EmptyType == Empty \in Directories /\ \A k \in Keys : Empty[k] = {}
BY DEF Empty, Directories, Names

LEMMA InitIInv == Init => IInv
<1> SUFFICES ASSUME Init PROVE IInv
  OBVIOUS
<1>1. TypeOK
  BY EmptyType DEF Init, TypeOK, PutState, PutSteps, EraseState, EraseSteps, EraserIdle, Answers
<1>2. ASSUME NEW k \in Keys PROVE KeyInv(k)
  BY EmptyType DEF Init, KeyInv, PutPart, DataPart, ReceiptPart, ErasePart, EraserIdle, Closing,
                   Before, Writing, Written
<1> QED BY <1>1, <1>2 DEF Init, IInv

-----------------------------------------------------------------------------
(* Updates of the functions of the state.                                  *)

LEMMA PutUpdates ==
    ASSUME NEW k \in Keys, NEW s \in PutSteps, TypeOK, PutTo(k, s)
    PROVE  /\ put' \in [Keys -> PutState]
           /\ put'[k].at = s /\ put'[k].made = put[k].made
           /\ put'[k].relies = put[k].relies /\ put'[k].renamed = put[k].renamed
           /\ \A j \in Keys : j # k => put'[j] = put[j]
BY DEF TypeOK, PutTo, PutState

LEMMA EraserUpdates ==
    ASSUME NEW k \in Keys, NEW s \in EraseSteps, TypeOK, EraserTo(k, s)
    PROVE  /\ eraser' \in [Keys -> EraseState]
           /\ eraser'[k].at = s /\ eraser'[k].temp = eraser[k].temp
           /\ eraser'[k].alone = eraser[k].alone /\ eraser'[k].pasalinta = eraser[k].pasalinta
           /\ \A j \in Keys : j # k => eraser'[j] = eraser[j]
BY DEF TypeOK, EraserTo, EraseState

LEMMA RemovedUpdates ==
    ASSUME NEW k \in Keys, NEW s \in EraseSteps, TypeOK, Removed(k, s)
    PROVE  /\ eraser' \in [Keys -> EraseState]
           /\ eraser'[k].at = s /\ eraser'[k].temp = eraser[k].temp
           /\ eraser'[k].alone = eraser[k].alone /\ eraser'[k].pasalinta
           /\ \A j \in Keys : j # k => eraser'[j] = eraser[j]
BY DEF TypeOK, Removed, EraseState

LEMMA NamesUpdate ==
    ASSUME NEW k \in Keys, NEW n \in SUBSET Names, TypeOK, dir \in kept, SetNames(k, n)
    PROVE  /\ dir' \in Directories /\ kept' \in SUBSET Directories /\ dir' \in kept'
           /\ dir'[k] = n /\ \A j \in Keys : j # k => dir'[j] = dir[j]
           /\ kept' = kept \cup {dir'}
BY DEF TypeOK, SetNames, Directories

LEMMA SyncUpdate ==
    ASSUME TypeOK, dir \in kept, sinchronizuotiKatalaga, dir' = dir
    PROVE  /\ kept' \in SUBSET Directories /\ dir' \in kept'
           /\ \A d \in kept' : d = dir /\ d = dir'
           /\ kept' \subseteq kept \cup {dir'}
BY DEF TypeOK, sinchronizuotiKatalaga
-----------------------------------------------------------------------------
(* One lemma per action, all of the same shape.                            *)

LEMMA Assembled ==
    ASSUME NEW k \in Keys, IInv, TypeOK', dir' \in kept', KeyInv(k)',
           \A j \in Keys : j # k => Spared(j)
    PROVE  IInv'
<1>1. ASSUME NEW j \in Keys, j # k PROVE KeyInv(j)'
  BY <1>1, Elsewhere DEF IInv
<1> QED BY <1>1 DEF IInv

LEMMA OpenStep ==
    ASSUME NEW k \in Keys, IInv, Open(k)
    PROVE  IInv'
<1>1. /\ put' \in [Keys -> PutState]
      /\ put'[k].at = "write" /\ put'[k].made = put[k].made
      /\ put'[k].relies = put[k].relies /\ put'[k].renamed = put[k].renamed
      /\ \A j \in Keys : j # k => put'[j] = put[j]
  BY PutUpdates DEF Open, IInv, PutSteps
<1>2. /\ dir' \in Directories /\ kept' \in SUBSET Directories /\ dir' \in kept'
      /\ dir'[k] = dir[k] \cup {"temp"} /\ (\A j \in Keys : j # k => dir'[j] = dir[j])
      /\ kept' = kept \cup {dir'}
  BY NamesUpdate DEF Open, IInv, TypeOK, Directories, Names
<1>3. /\ data' \in [Keys -> {"none", "part", "whole", "synced"}] /\ data'[k] = "part"
      /\ \A j \in Keys : j # k => data'[j] = data[j]
  BY DEF Open, IInv, TypeOK
<1>4. TypeOK' /\ dir' \in kept'
  BY <1>1, <1>2, <1>3 DEF Open, IInv, TypeOK
<1>5. PutPart(k)'
  BY <1>1, <1>2, <1>3 DEF Open, IInv, KeyInv, PutPart, Before, Written
<1>6. DataPart(k)'
  BY <1>1, <1>2, <1>3 DEF Open, IInv, KeyInv, PutPart, DataPart, Before
<1>7. ReceiptPart(k)'
  BY <1>1, <1>2, <1>3 DEF Open, IInv, KeyInv, ReceiptPart
<1>8. ErasePart(k)'
  BY <1>1, <1>2, <1>3 DEF Open, IInv, KeyInv, PutPart, ErasePart
<1>9. \A j \in Keys : j # k => Spared(j)
  BY <1>1, <1>2, <1>3 DEF Open, Spared
<1> QED BY <1>4, <1>5, <1>6, <1>7, <1>8, <1>9, Assembled DEF KeyInv

LEMMA WriteStep ==
    ASSUME NEW k \in Keys, IInv, Write(k)
    PROVE  IInv'
<1>1. /\ put' \in [Keys -> PutState]
      /\ put'[k].at = "sync" /\ put'[k].made = put[k].made
      /\ put'[k].relies = put[k].relies /\ put'[k].renamed = put[k].renamed
      /\ \A j \in Keys : j # k => put'[j] = put[j]
  BY PutUpdates DEF Write, IInv, PutSteps
<1>2. /\ data' \in [Keys -> {"none", "part", "whole", "synced"}] /\ data'[k] = "whole"
      /\ \A j \in Keys : j # k => data'[j] = data[j]
  BY DEF Write, IInv, TypeOK
<1>3. TypeOK' /\ dir' \in kept'
  BY <1>1, <1>2 DEF Write, IInv, TypeOK
<1>4. PutPart(k)'
  BY <1>1, <1>2 DEF Write, IInv, KeyInv, PutPart, Before, Writing, Written
<1>5. DataPart(k)'
  BY <1>1, <1>2 DEF Write, IInv, KeyInv, DataPart, Writing
<1>6. ReceiptPart(k)'
  BY <1>1, <1>2 DEF Write, IInv, KeyInv, ReceiptPart
<1>7. ErasePart(k)'
  BY <1>1, <1>2 DEF Write, IInv, KeyInv, ErasePart
<1>8. \A j \in Keys : j # k => Spared(j)
  BY <1>1, <1>2 DEF Write, Spared
<1> QED BY <1>3, <1>4, <1>5, <1>6, <1>7, <1>8, Assembled DEF KeyInv

LEMMA SyncStep ==
    ASSUME NEW k \in Keys, IInv, Sync(k)
    PROVE  IInv'
<1>1. /\ put' \in [Keys -> PutState]
      /\ put'[k].at = "rename" /\ put'[k].made = put[k].made
      /\ put'[k].relies = put[k].relies /\ put'[k].renamed = put[k].renamed
      /\ \A j \in Keys : j # k => put'[j] = put[j]
  BY PutUpdates DEF Sync, IInv, PutSteps
<1>2. /\ data' \in [Keys -> {"none", "part", "whole", "synced"}] /\ data'[k] = "synced"
      /\ \A j \in Keys : j # k => data'[j] = data[j]
  BY DEF Sync, IInv, TypeOK
<1>3. TypeOK' /\ dir' \in kept'
  BY <1>1, <1>2 DEF Sync, IInv, TypeOK
<1>4. PutPart(k)'
  BY <1>1, <1>2 DEF Sync, IInv, KeyInv, PutPart, Before, Writing, Written
<1>5. DataPart(k)'
  BY <1>1, <1>2 DEF Sync, IInv, KeyInv, DataPart, Writing
<1>6. ReceiptPart(k)'
  BY <1>1, <1>2 DEF Sync, IInv, KeyInv, ReceiptPart
<1>7. ErasePart(k)'
  BY <1>1, <1>2 DEF Sync, IInv, KeyInv, ErasePart
<1>8. \A j \in Keys : j # k => Spared(j)
  BY <1>1, <1>2 DEF Sync, Spared
<1> QED BY <1>3, <1>4, <1>5, <1>6, <1>7, <1>8, Assembled DEF KeyInv

LEMMA SyncDirStep ==
    ASSUME NEW k \in Keys, IInv, SyncDir(k)
    PROVE  IInv'
<1>1. /\ put' \in [Keys -> PutState]
      /\ put'[k].at = "parents" /\ put'[k].made = put[k].made
      /\ put'[k].relies = put[k].relies /\ put'[k].renamed = put[k].renamed
      /\ \A j \in Keys : j # k => put'[j] = put[j]
  BY PutUpdates DEF SyncDir, IInv, PutSteps
<1>2. /\ kept' \in SUBSET Directories /\ dir' \in kept'
      /\ (\A d \in kept' : d = dir /\ d = dir')
      /\ kept' \subseteq kept \cup {dir'}
  BY SyncUpdate DEF SyncDir, IInv
<1>3. TypeOK' /\ dir' \in kept'
  BY <1>1, <1>2 DEF SyncDir, IInv, TypeOK
<1>4. PutPart(k)'
  BY <1>1, <1>2 DEF SyncDir, IInv, KeyInv, PutPart, Before, Writing, Written
<1>5. DataPart(k)'
  BY <1>1, <1>2 DEF SyncDir, IInv, KeyInv, DataPart, Writing
<1>6. ReceiptPart(k)'
  BY <1>1, <1>2 DEF SyncDir, IInv, KeyInv, ReceiptPart
<1>7. ErasePart(k)'
  BY <1>1, <1>2 DEF SyncDir, IInv, KeyInv, ErasePart
<1>8. \A j \in Keys : j # k => Spared(j)
  BY <1>1, <1>2 DEF SyncDir, Spared
<1> QED BY <1>3, <1>4, <1>5, <1>6, <1>7, <1>8, Assembled DEF KeyInv

LEMMA ParentsStep ==
    ASSUME NEW k \in Keys, IInv, Parents(k)
    PROVE  IInv'
<1>1. /\ put' \in [Keys -> PutState]
      /\ put'[k].at = "over" /\ put'[k].made = put[k].made
      /\ put'[k].relies = put[k].relies /\ put'[k].renamed = put[k].renamed
      /\ \A j \in Keys : j # k => put'[j] = put[j]
  BY PutUpdates DEF Parents, IInv, PutSteps
<1>2. /\ told' \in [Keys -> Answers] /\ told'[k] = "stored"
      /\ \A j \in Keys : j # k => told'[j] = told[j]
  BY DEF Parents, IInv, TypeOK, Answers
<1>3. TypeOK' /\ dir' \in kept'
  BY <1>1, <1>2 DEF Parents, IInv, TypeOK
<1>4. PutPart(k)'
  BY <1>1, <1>2 DEF Parents, PutPart, Before, Writing, Written
<1>5. DataPart(k)'
  BY <1>1, <1>2 DEF Parents, IInv, KeyInv, DataPart, Writing
<1>6. ReceiptPart(k)'
  BY <1>1, <1>2 DEF Parents, IInv, KeyInv, ReceiptPart
<1>7. ErasePart(k)'
  BY <1>1, <1>2 DEF Parents, IInv, KeyInv, ErasePart
<1>8. \A j \in Keys : j # k => Spared(j)
  BY <1>1, <1>2 DEF Parents, Spared
<1> QED BY <1>3, <1>4, <1>5, <1>6, <1>7, <1>8, Assembled DEF KeyInv

LEMMA PutFailsStep ==
    ASSUME NEW k \in Keys, IInv, PutFails(k)
    PROVE  IInv'
<1>1. /\ put' \in [Keys -> PutState]
      /\ put'[k].at = "rm" /\ put'[k].made = put[k].made
      /\ put'[k].relies = put[k].relies /\ put'[k].renamed = put[k].renamed
      /\ \A j \in Keys : j # k => put'[j] = put[j]
  BY PutUpdates DEF PutFails, IInv, PutSteps
<1>2. TypeOK' /\ dir' \in kept'
  BY <1>1 DEF PutFails, IInv, TypeOK, OnlyPut
<1>3. PutPart(k)'
  BY <1>1 DEF PutFails, IInv, KeyInv, PutPart, OnlyPut, Before, Writing, Written
<1>4. DataPart(k)'
  BY <1>1 DEF PutFails, IInv, KeyInv, DataPart, OnlyPut, Writing
<1>5. ReceiptPart(k)'
  BY <1>1 DEF PutFails, IInv, KeyInv, ReceiptPart, OnlyPut
<1>6. ErasePart(k)'
  BY <1>1 DEF PutFails, IInv, KeyInv, ErasePart, OnlyPut
<1>7. \A j \in Keys : j # k => Spared(j)
  BY <1>1 DEF PutFails, Spared, OnlyPut
<1> QED BY <1>2, <1>3, <1>4, <1>5, <1>6, <1>7, Assembled DEF KeyInv

LEMMA RmStep ==
    ASSUME NEW k \in Keys, IInv, Rm(k)
    PROVE  IInv'
<1>1. /\ put' \in [Keys -> PutState]
      /\ put'[k].at = "rmsync" /\ put'[k].made = put[k].made
      /\ put'[k].relies = put[k].relies /\ put'[k].renamed = put[k].renamed
      /\ \A j \in Keys : j # k => put'[j] = put[j]
  BY PutUpdates DEF Rm, IInv, PutSteps
<1>2. /\ dir' \in Directories /\ kept' \in SUBSET Directories /\ dir' \in kept'
      /\ dir'[k] = dir[k] \ Remnant(k) /\ (\A j \in Keys : j # k => dir'[j] = dir[j])
      /\ kept' = kept \cup {dir'}
  BY NamesUpdate DEF Rm, IInv, TypeOK, Directories
<1>3. TypeOK' /\ dir' \in kept'
  BY <1>1, <1>2 DEF Rm, IInv, TypeOK
<1>4. PutPart(k)'
  BY <1>1, <1>2 DEF Rm, IInv, KeyInv, PutPart, Before, Writing, Written, Remnant
<1>5. DataPart(k)'
  BY <1>1, <1>2 DEF Rm, IInv, KeyInv, DataPart, Writing
<1>6. ReceiptPart(k)'
  BY <1>1, <1>2 DEF Rm, IInv, KeyInv, PutPart, ReceiptPart
<1>7. ErasePart(k)'
  BY <1>1, <1>2 DEF Rm, IInv, KeyInv, ErasePart
<1>8. \A j \in Keys : j # k => Spared(j)
  BY <1>1, <1>2 DEF Rm, Spared
<1> QED BY <1>3, <1>4, <1>5, <1>6, <1>7, <1>8, Assembled DEF KeyInv

LEMMA RmSyncStep ==
    ASSUME NEW k \in Keys, IInv, RmSync(k)
    PROVE  IInv'
<1>1. /\ put' \in [Keys -> PutState]
      /\ put'[k].at = "over" /\ put'[k].made = put[k].made
      /\ put'[k].relies = put[k].relies /\ put'[k].renamed = put[k].renamed
      /\ \A j \in Keys : j # k => put'[j] = put[j]
  BY PutUpdates DEF RmSync, IInv, PutSteps
<1>2. /\ told' \in [Keys -> Answers] /\ told'[k] = "failed"
      /\ \A j \in Keys : j # k => told'[j] = told[j]
  BY DEF RmSync, IInv, TypeOK, Answers
<1>3. /\ kept' \in SUBSET Directories /\ dir' \in kept'
      /\ (\A d \in kept' : d = dir /\ d = dir')
      /\ kept' \subseteq kept \cup {dir'}
  BY SyncUpdate DEF RmSync, IInv
<1>4. TypeOK' /\ dir' \in kept'
  BY <1>1, <1>2, <1>3 DEF RmSync, IInv, TypeOK
<1>5. PutPart(k)'
  BY <1>1, <1>2, <1>3 DEF RmSync, PutPart, Before, Writing, Written
<1>6. DataPart(k)'
  BY <1>1, <1>2, <1>3 DEF RmSync, IInv, KeyInv, PutPart, DataPart
<1>7. ReceiptPart(k)'
  BY <1>1, <1>2, <1>3 DEF RmSync, IInv, KeyInv, ReceiptPart
<1>8. ErasePart(k)'
  BY <1>1, <1>2, <1>3 DEF RmSync, IInv, KeyInv, PutPart, ErasePart
<1>9. \A j \in Keys : j # k => Spared(j)
  BY <1>1, <1>2, <1>3 DEF RmSync, Spared
<1> QED BY <1>4, <1>5, <1>6, <1>7, <1>8, <1>9, Assembled DEF KeyInv

LEMMA RmFailsStep ==
    ASSUME NEW k \in Keys, IInv, RmFails(k)
    PROVE  IInv'
<1>1. /\ put' \in [Keys -> PutState]
      /\ put'[k].at = "over" /\ put'[k].made = put[k].made
      /\ put'[k].relies = put[k].relies /\ put'[k].renamed = put[k].renamed
      /\ \A j \in Keys : j # k => put'[j] = put[j]
  BY PutUpdates DEF RmFails, IInv, PutSteps
<1>2. /\ told' \in [Keys -> Answers] /\ told'[k] = "left"
      /\ \A j \in Keys : j # k => told'[j] = told[j]
  BY DEF RmFails, IInv, TypeOK, Answers
<1>3. TypeOK' /\ dir' \in kept'
  BY <1>1, <1>2 DEF RmFails, IInv, TypeOK
<1>4. PutPart(k)'
  BY <1>1, <1>2 DEF RmFails, PutPart, Before, Writing, Written
<1>5. DataPart(k)'
  BY <1>1, <1>2 DEF RmFails, IInv, KeyInv, DataPart, Writing
<1>6. ReceiptPart(k)'
  BY <1>1, <1>2 DEF RmFails, IInv, KeyInv, ReceiptPart
<1>7. ErasePart(k)'
  BY <1>1, <1>2 DEF RmFails, IInv, KeyInv, ErasePart
<1>8. \A j \in Keys : j # k => Spared(j)
  BY <1>1, <1>2 DEF RmFails, Spared
<1> QED BY <1>3, <1>4, <1>5, <1>6, <1>7, <1>8, Assembled DEF KeyInv

LEMMA PutDiesStep ==
    ASSUME NEW k \in Keys, IInv, PutDies(k)
    PROVE  IInv'
<1>1. /\ put' \in [Keys -> PutState]
      /\ put'[k].at = "over" /\ put'[k].made = put[k].made
      /\ put'[k].relies = put[k].relies /\ put'[k].renamed = put[k].renamed
      /\ \A j \in Keys : j # k => put'[j] = put[j]
  BY PutUpdates DEF PutDies, IInv, PutSteps
<1>2. TypeOK' /\ dir' \in kept'
  BY <1>1 DEF PutDies, IInv, TypeOK, OnlyPut
<1>3. PutPart(k)'
  BY <1>1 DEF PutDies, PutPart, Before, Writing, Written
<1>4. DataPart(k)'
  BY <1>1 DEF PutDies, IInv, KeyInv, DataPart, OnlyPut, Writing
<1>5. ReceiptPart(k)'
  BY <1>1 DEF PutDies, IInv, KeyInv, ReceiptPart, OnlyPut
<1>6. ErasePart(k)'
  BY <1>1 DEF PutDies, IInv, KeyInv, ErasePart, OnlyPut
<1>7. \A j \in Keys : j # k => Spared(j)
  BY <1>1 DEF PutDies, Spared, OnlyPut
<1> QED BY <1>2, <1>3, <1>4, <1>5, <1>6, <1>7, Assembled DEF KeyInv

LEMMA HeadStep ==
    ASSUME NEW k \in Keys, IInv, Head(k)
    PROVE  IInv'
<1>1. /\ eraser' \in [Keys -> EraseState]
      /\ ("final" \in dir[k] => eraser'[k].at = "again")
      /\ ("final" \notin dir[k] => eraser'[k].at = "temp")
      /\ eraser'[k].temp = eraser[k].temp /\ eraser'[k].alone = eraser[k].alone
      /\ eraser'[k].pasalinta = eraser[k].pasalinta
      /\ \A j \in Keys : j # k => eraser'[j] = eraser[j]
  BY EraserUpdates DEF Head, IInv, EraseSteps
<1>2. eraser[k].at = "head" /\ UNCHANGED <<place, dir, kept, data, put, told, erased>>
  BY DEF Head, OnlyEraser
<1>3. ~ eraser[k].pasalinta /\ ~ eraser'[k].pasalinta
  BY <1>1, <1>2 DEF IInv, KeyInv, ErasePart, Closing
<1>4. TypeOK' /\ dir' \in kept'
  BY <1>1, <1>2, <1>3 DEF Head, IInv, TypeOK
<1>5. PutPart(k)'
  BY <1>1, <1>2, <1>3 DEF IInv, KeyInv, PutPart
<1>6. DataPart(k)'
  BY <1>1, <1>2, <1>3 DEF IInv, KeyInv, DataPart
<1>7. ReceiptPart(k)'
  BY <1>1, <1>2, <1>3 DEF IInv, KeyInv, ReceiptPart
<1>8. ErasePart(k)'
  BY <1>1, <1>2, <1>3 DEF IInv, KeyInv, ErasePart, Closing
<1>9. \A j \in Keys : j # k => Spared(j)
  BY <1>1, <1>2, <1>3 DEF Head, Spared
<1> QED BY <1>4, <1>5, <1>6, <1>7, <1>8, <1>9, Assembled DEF KeyInv

LEMMA DeleteHeadStep ==
    ASSUME NEW k \in Keys, IInv, DeleteHead(k)
    PROVE  IInv'
<1>1. /\ eraser' \in [Keys -> EraseState]
      /\ ("final" \in dir[k] => eraser'[k].at = "unlink")
      /\ ("final" \notin dir[k] => eraser'[k].at = "temp")
      /\ eraser'[k].temp = eraser[k].temp /\ eraser'[k].alone = eraser[k].alone
      /\ eraser'[k].pasalinta = eraser[k].pasalinta
      /\ \A j \in Keys : j # k => eraser'[j] = eraser[j]
  BY EraserUpdates DEF DeleteHead, IInv, EraseSteps
<1>2. eraser[k].at = "again" /\ UNCHANGED <<place, dir, kept, data, put, told, erased>>
  BY DEF DeleteHead, OnlyEraser
<1>3. ~ eraser[k].pasalinta /\ ~ eraser'[k].pasalinta
  BY <1>1, <1>2 DEF IInv, KeyInv, ErasePart, Closing
<1>4. TypeOK' /\ dir' \in kept'
  BY <1>1, <1>2, <1>3 DEF DeleteHead, IInv, TypeOK
<1>5. PutPart(k)'
  BY <1>1, <1>2, <1>3 DEF IInv, KeyInv, PutPart
<1>6. DataPart(k)'
  BY <1>1, <1>2, <1>3 DEF IInv, KeyInv, DataPart
<1>7. ReceiptPart(k)'
  BY <1>1, <1>2, <1>3 DEF IInv, KeyInv, ReceiptPart
<1>8. ErasePart(k)'
  BY <1>1, <1>2, <1>3 DEF IInv, KeyInv, ErasePart, Closing
<1>9. \A j \in Keys : j # k => Spared(j)
  BY <1>1, <1>2, <1>3 DEF DeleteHead, Spared
<1> QED BY <1>4, <1>5, <1>6, <1>7, <1>8, <1>9, Assembled DEF KeyInv

LEMMA DeleteSyncStep ==
    ASSUME NEW k \in Keys, IInv, DeleteSync(k)
    PROVE  IInv'
<1>1. /\ eraser' \in [Keys -> EraseState]
      /\ eraser'[k].at = "temp"
      /\ eraser'[k].temp = eraser[k].temp /\ eraser'[k].alone = eraser[k].alone
      /\ eraser'[k].pasalinta
      /\ \A j \in Keys : j # k => eraser'[j] = eraser[j]
  BY RemovedUpdates DEF DeleteSync, IInv, EraseSteps
<1>2. /\ kept' \in SUBSET Directories /\ dir' \in kept'
      /\ (\A d \in kept' : d = dir /\ d = dir')
      /\ kept' \subseteq kept \cup {dir'}
  BY SyncUpdate DEF DeleteSync, IInv
<1>3. TypeOK' /\ dir' \in kept'
  BY <1>1, <1>2 DEF DeleteSync, IInv, TypeOK
<1>4. PutPart(k)'
  BY <1>1, <1>2 DEF DeleteSync, IInv, KeyInv, PutPart
<1>5. DataPart(k)'
  BY <1>1, <1>2 DEF DeleteSync, IInv, KeyInv, DataPart
<1>6. ReceiptPart(k)'
  BY <1>1, <1>2 DEF DeleteSync, IInv, KeyInv, ReceiptPart
<1>7. ErasePart(k)'
  BY <1>1, <1>2 DEF DeleteSync, IInv, KeyInv, ErasePart, Closing
<1>8. \A j \in Keys : j # k => Spared(j)
  BY <1>1, <1>2 DEF DeleteSync, Spared
<1> QED BY <1>3, <1>4, <1>5, <1>6, <1>7, <1>8, Assembled DEF KeyInv

LEMMA RemoveTempSyncStep ==
    ASSUME NEW k \in Keys, IInv, RemoveTempSync(k)
    PROVE  IInv'
<1>1. \A d \in kept : d[k] \subseteq {"temp", "final"}
  BY DEF IInv, TypeOK, Directories, Names
<1>2. /\ eraser' \in [Keys -> EraseState]
      /\ eraser'[k].at = "answer"
      /\ eraser'[k].temp = eraser[k].temp /\ eraser'[k].alone = eraser[k].alone
      /\ eraser'[k].pasalinta
      /\ \A j \in Keys : j # k => eraser'[j] = eraser[j]
  BY RemovedUpdates DEF RemoveTempSync, IInv, EraseSteps
<1>3. /\ kept' \in SUBSET Directories /\ dir' \in kept'
      /\ (\A d \in kept' : d = dir /\ d = dir')
      /\ kept' \subseteq kept \cup {dir'}
  BY SyncUpdate DEF RemoveTempSync, IInv
<1>4. TypeOK' /\ dir' \in kept'
  BY <1>1, <1>2, <1>3 DEF RemoveTempSync, IInv, TypeOK
<1>5. PutPart(k)'
  BY <1>1, <1>2, <1>3 DEF RemoveTempSync, IInv, KeyInv, PutPart
<1>6. DataPart(k)'
  BY <1>1, <1>2, <1>3 DEF RemoveTempSync, IInv, KeyInv, DataPart
<1>7. ReceiptPart(k)'
  BY <1>1, <1>2, <1>3 DEF RemoveTempSync, IInv, KeyInv, ReceiptPart
<1>8. ErasePart(k)'
  BY <1>1, <1>2, <1>3 DEF RemoveTempSync, IInv, KeyInv, ErasePart, Closing
<1>9. \A j \in Keys : j # k => Spared(j)
  BY <1>1, <1>2, <1>3 DEF RemoveTempSync, Spared
<1> QED BY <1>4, <1>5, <1>6, <1>7, <1>8, <1>9, Assembled DEF KeyInv

LEMMA NoTempStep ==
    ASSUME NEW k \in Keys, IInv, NoTemp(k)
    PROVE  IInv'
<1>1. \A d \in kept : d[k] \subseteq {"temp", "final"}
  BY DEF IInv, TypeOK, Directories, Names
<1>2. /\ eraser' \in [Keys -> EraseState]
      /\ eraser'[k].at = "answer"
      /\ eraser'[k].temp = eraser[k].temp /\ eraser'[k].alone = eraser[k].alone
      /\ eraser'[k].pasalinta = eraser[k].pasalinta
      /\ \A j \in Keys : j # k => eraser'[j] = eraser[j]
  BY EraserUpdates DEF NoTemp, IInv, EraseSteps
<1>3. TypeOK' /\ dir' \in kept'
  BY <1>1, <1>2 DEF NoTemp, IInv, TypeOK, OnlyEraser
<1>4. PutPart(k)'
  BY <1>1, <1>2 DEF NoTemp, IInv, KeyInv, PutPart, OnlyEraser
<1>5. DataPart(k)'
  BY <1>1, <1>2 DEF NoTemp, IInv, KeyInv, DataPart, OnlyEraser
<1>6. ReceiptPart(k)'
  BY <1>1, <1>2 DEF NoTemp, IInv, KeyInv, ReceiptPart, OnlyEraser
<1>7. ErasePart(k)'
  BY <1>1, <1>2 DEF NoTemp, IInv, KeyInv, ErasePart, OnlyEraser, Closing
<1>8. \A j \in Keys : j # k => Spared(j)
  BY <1>1, <1>2 DEF NoTemp, Spared, OnlyEraser
<1> QED BY <1>3, <1>4, <1>5, <1>6, <1>7, <1>8, Assembled DEF KeyInv

LEMMA BeginStep ==
    ASSUME NEW k \in Keys, IInv, Begin(k)
    PROVE  IInv'
<1>1. ~ put[k].renamed /\ place \in {"absent", "made", "durable"}
  BY DEF Begin, IInv, TypeOK, KeyInv, PutPart, Before
<1>2. /\ put' \in [Keys -> PutState]
      /\ put'[k].at = "mkdir" /\ ~ put'[k].renamed
      /\ (put'[k].made <=> place = "absent") /\ (put'[k].relies <=> place = "made")
      /\ \A j \in Keys : j # k => put'[j] = put[j]
  BY <1>1 DEF Begin, IInv, TypeOK, PutState, PutSteps
<1>3. TypeOK' /\ dir' \in kept'
  BY <1>1, <1>2 DEF Begin, IInv, TypeOK, OnlyPut
<1>4. PutPart(k)'
  BY <1>1, <1>2 DEF Begin, IInv, KeyInv, PutPart, OnlyPut, Before, Written
<1>5. DataPart(k)'
  BY <1>1, <1>2 DEF Begin, IInv, KeyInv, PutPart, DataPart, OnlyPut, Before
<1>6. ReceiptPart(k)'
  BY <1>1, <1>2 DEF Begin, IInv, KeyInv, PutPart, ReceiptPart, OnlyPut
<1>7. ErasePart(k)'
  BY <1>1, <1>2 DEF Begin, IInv, KeyInv, ErasePart, OnlyPut
<1>8. \A j \in Keys : j # k => Spared(j)
  BY <1>1, <1>2 DEF Begin, Spared, OnlyPut
<1> QED BY <1>3, <1>4, <1>5, <1>6, <1>7, <1>8, Assembled DEF KeyInv

LEMMA MkdirStep ==
    ASSUME NEW k \in Keys, IInv, Mkdir(k)
    PROVE  IInv'
<1>1. /\ put' \in [Keys -> PutState]
      /\ put'[k].at \in {"open", "over"} /\ put'[k].made = put[k].made
      /\ put'[k].relies = put[k].relies /\ put'[k].renamed = put[k].renamed
      /\ \A j \in Keys : j # k => put'[j] = put[j]
  BY PutUpdates DEF Mkdir, IInv, PutSteps
<1>2. /\ told' \in [Keys -> Answers] /\ (\A j \in Keys : j # k => told'[j] = told[j])
      /\ told'[k] = (IF put'[k].at = "over" THEN "failed" ELSE told[k])
  BY PutUpdates DEF Mkdir, IInv, TypeOK, PutSteps, Answers
<1>3. place' \in {"made", "durable", place} /\ (place = "durable" => place' = "durable")
  BY DEF Mkdir
<1>4. TypeOK' /\ dir' \in kept'
  BY <1>1, <1>2, <1>3 DEF Mkdir, IInv, TypeOK
<1>5. PutPart(k)'
  BY <1>1, <1>2, <1>3 DEF Mkdir, IInv, KeyInv, PutPart, Before, Written
<1>6. DataPart(k)'
  BY <1>1, <1>2, <1>3 DEF Mkdir, IInv, KeyInv, PutPart, DataPart, Before
<1>7. ReceiptPart(k)'
  BY <1>1, <1>2, <1>3 DEF Mkdir, IInv, KeyInv, ReceiptPart
<1>8. ErasePart(k)'
  BY <1>1, <1>2, <1>3 DEF Mkdir, IInv, KeyInv, PutPart, ErasePart, Before
<1>9. \A j \in Keys : j # k => Spared(j)
  BY <1>1, <1>2, <1>3 DEF Mkdir, Spared
<1> QED BY <1>4, <1>5, <1>6, <1>7, <1>8, <1>9, Assembled DEF KeyInv

LEMMA RenameStep ==
    ASSUME NEW k \in Keys, IInv, Rename(k)
    PROVE  IInv'
<1>1. /\ put' \in [Keys -> PutState]
      /\ put'[k].at = "syncdir" /\ put'[k].made = put[k].made
      /\ put'[k].relies = put[k].relies /\ put'[k].renamed
      /\ \A j \in Keys : j # k => put'[j] = put[j]
  BY DEF Rename, IInv, TypeOK, PutState, PutSteps
<1>2. /\ dir' \in Directories /\ kept' \in SUBSET Directories /\ dir' \in kept'
      /\ dir'[k] = {"final"} /\ (\A j \in Keys : j # k => dir'[j] = dir[j])
      /\ kept' = kept \cup {dir'}
  BY NamesUpdate DEF Rename, IInv, Names
<1>3. TypeOK' /\ dir' \in kept'
  BY <1>1, <1>2 DEF Rename, IInv, TypeOK
<1>4. PutPart(k)'
  BY <1>1, <1>2 DEF Rename, IInv, KeyInv, PutPart, Before, Writing
<1>5. DataPart(k)'
  BY <1>1, <1>2 DEF Rename, IInv, KeyInv, DataPart, Writing
<1>6. ReceiptPart(k)'
  BY <1>1, <1>2 DEF Rename, IInv, KeyInv, ReceiptPart
<1>7. ErasePart(k)'
  BY <1>1, <1>2 DEF Rename, IInv, KeyInv, ErasePart
<1>8. \A j \in Keys : j # k => Spared(j)
  BY <1>1, <1>2 DEF Rename, Spared
<1> QED BY <1>3, <1>4, <1>5, <1>6, <1>7, <1>8, Assembled DEF KeyInv

LEMMA UnlinkStep ==
    ASSUME NEW k \in Keys, IInv, Unlink(k)
    PROVE  IInv'
<1>1. /\ eraser' \in [Keys -> EraseState]
      /\ eraser'[k].at = (IF "final" \in dir[k] THEN "unlinked" ELSE "temp")
      /\ eraser'[k].temp = eraser[k].temp /\ eraser'[k].alone = eraser[k].alone
      /\ eraser'[k].pasalinta = eraser[k].pasalinta
      /\ \A j \in Keys : j # k => eraser'[j] = eraser[j]
  BY EraserUpdates DEF Unlink, IInv, EraseSteps
<1>2. /\ dir' \in Directories /\ kept' \in SUBSET Directories /\ dir' \in kept'
      /\ dir'[k] = dir[k] \ {"final"} /\ (\A j \in Keys : j # k => dir'[j] = dir[j])
      /\ kept' = kept \cup {dir'}
  BY NamesUpdate DEF Unlink, IInv, TypeOK, Directories
<1>3. TypeOK' /\ dir' \in kept'
  BY <1>1, <1>2 DEF Unlink, IInv, TypeOK
<1>4. PutPart(k)'
  BY <1>1, <1>2 DEF Unlink, IInv, KeyInv, PutPart
<1>5. DataPart(k)'
  BY <1>1, <1>2 DEF Unlink, IInv, KeyInv, DataPart
<1>6. ReceiptPart(k)'
  BY <1>1, <1>2 DEF Unlink, IInv, KeyInv, ReceiptPart
<1>7. ErasePart(k)'
  BY <1>1, <1>2 DEF Unlink, IInv, KeyInv, ErasePart, Closing
<1>8. \A j \in Keys : j # k => Spared(j)
  BY <1>1, <1>2 DEF Unlink, Spared
<1> QED BY <1>3, <1>4, <1>5, <1>6, <1>7, <1>8, Assembled DEF KeyInv

LEMMA RemoveTempStep ==
    ASSUME NEW k \in Keys, IInv, RemoveTemp(k)
    PROVE  IInv'
<1>1. /\ eraser' \in [Keys -> EraseState]
      /\ eraser'[k].at = (IF "temp" \in dir[k] THEN "untemped" ELSE "answer")
      /\ eraser'[k].temp = eraser[k].temp /\ eraser'[k].alone = eraser[k].alone
      /\ eraser'[k].pasalinta = eraser[k].pasalinta
      /\ \A j \in Keys : j # k => eraser'[j] = eraser[j]
  BY EraserUpdates DEF RemoveTemp, IInv, EraseSteps
<1>2. /\ dir' \in Directories /\ kept' \in SUBSET Directories /\ dir' \in kept'
      /\ dir'[k] = dir[k] \ {"temp"} /\ (\A j \in Keys : j # k => dir'[j] = dir[j])
      /\ kept' = kept \cup {dir'}
  BY NamesUpdate DEF RemoveTemp, IInv, TypeOK, Directories
<1>3. TypeOK' /\ dir' \in kept'
  BY <1>1, <1>2 DEF RemoveTemp, IInv, TypeOK
<1>4. PutPart(k)'
  BY <1>1, <1>2 DEF RemoveTemp, IInv, KeyInv, PutPart
<1>5. DataPart(k)'
  BY <1>1, <1>2 DEF RemoveTemp, IInv, KeyInv, DataPart
<1>6. ReceiptPart(k)'
  BY <1>1, <1>2 DEF RemoveTemp, IInv, KeyInv, ReceiptPart
<1>7. ErasePart(k)'
  BY <1>1, <1>2 DEF RemoveTemp, IInv, KeyInv, ErasePart, Closing
<1>8. \A j \in Keys : j # k => Spared(j)
  BY <1>1, <1>2 DEF RemoveTemp, Spared
<1> QED BY <1>3, <1>4, <1>5, <1>6, <1>7, <1>8, Assembled DEF KeyInv

LEMMA ProbeTempStep ==
    ASSUME NEW k \in Keys, IInv, ProbeTemp(k)
    PROVE  IInv'
<1>1. /\ eraser' \in [Keys -> EraseState]
      /\ eraser'[k].at = "head" /\ ~ eraser'[k].pasalinta
      /\ eraser'[k].temp = ("temp" \in dir[k]) /\ eraser'[k].alone = (put[k].at = "over")
      /\ \A j \in Keys : j # k => eraser'[j] = eraser[j]
  BY DEF ProbeTemp, IInv, TypeOK, EraseState, EraseSteps
<1>2. TypeOK' /\ dir' \in kept'
  BY <1>1 DEF ProbeTemp, IInv, TypeOK
<1>3. PutPart(k)'
  BY <1>1 DEF ProbeTemp, IInv, KeyInv, PutPart
<1>4. DataPart(k)'
  BY <1>1 DEF ProbeTemp, IInv, KeyInv, DataPart
<1>5. ReceiptPart(k)'
  BY <1>1 DEF ProbeTemp, IInv, KeyInv, ReceiptPart
<1>6. ErasePart(k)'
  BY <1>1 DEF ProbeTemp, IInv, KeyInv, ErasePart, Closing
<1>7. \A j \in Keys : j # k => Spared(j)
  BY <1>1 DEF ProbeTemp, Spared
<1> QED BY <1>2, <1>3, <1>4, <1>5, <1>6, <1>7, Assembled DEF KeyInv

LEMMA AnswerStep ==
    ASSUME NEW k \in Keys, IInv, Answer(k)
    PROVE  IInv'
<1>1. /\ eraser' \in [Keys -> EraseState]
      /\ eraser'[k].at = "idle" /\ ~ eraser'[k].pasalinta
      /\ \A j \in Keys : j # k => eraser'[j] = eraser[j]
  BY DEF Answer, IInv, TypeOK, EraseState, EraseSteps, EraserIdle
<1>2. /\ told' \in [Keys -> Answers] /\ (\A j \in Keys : j # k => told'[j] = told[j])
      /\ told'[k] \in {"nothing", "absent", "removed"}
      /\ told'[k] = "removed" => eraser[k].alone /\ eraser[k].pasalinta
  BY DEF Answer, IInv, TypeOK, Answers
<1>3. TypeOK' /\ dir' \in kept'
  BY <1>1, <1>2 DEF Answer, IInv, TypeOK
<1>4. PutPart(k)'
  BY <1>1, <1>2 DEF Answer, IInv, KeyInv, PutPart, ErasePart
<1>5. DataPart(k)'
  BY <1>1, <1>2 DEF Answer, IInv, KeyInv, DataPart
<1>6. ReceiptPart(k)'
  BY <1>1, <1>2 DEF Answer, IInv, KeyInv, ReceiptPart
<1>7. ErasePart(k)'
  BY <1>1, <1>2 DEF Answer, IInv, KeyInv, ErasePart
<1>8. \A j \in Keys : j # k => Spared(j)
  BY <1>1, <1>2 DEF Answer, Spared
<1> QED BY <1>3, <1>4, <1>5, <1>6, <1>7, <1>8, Assembled DEF KeyInv

LEMMA EraseFailsStep ==
    ASSUME NEW k \in Keys, IInv, EraseFails(k)
    PROVE  IInv'
<1>1. /\ eraser' \in [Keys -> EraseState]
      /\ eraser'[k].at = "idle" /\ ~ eraser'[k].pasalinta
      /\ \A j \in Keys : j # k => eraser'[j] = eraser[j]
  BY DEF EraseFails, IInv, TypeOK, EraseState, EraseSteps, EraserIdle
<1>2. TypeOK' /\ dir' \in kept'
  BY <1>1 DEF EraseFails, IInv, TypeOK, OnlyEraser
<1>3. PutPart(k)'
  BY <1>1 DEF EraseFails, IInv, KeyInv, PutPart, OnlyEraser
<1>4. DataPart(k)'
  BY <1>1 DEF EraseFails, IInv, KeyInv, DataPart, OnlyEraser
<1>5. ReceiptPart(k)'
  BY <1>1 DEF EraseFails, IInv, KeyInv, ReceiptPart, OnlyEraser
<1>6. ErasePart(k)'
  BY <1>1 DEF EraseFails, IInv, KeyInv, ErasePart, OnlyEraser
<1>7. \A j \in Keys : j # k => Spared(j)
  BY <1>1 DEF EraseFails, Spared, OnlyEraser
<1> QED BY <1>2, <1>3, <1>4, <1>5, <1>6, <1>7, Assembled DEF KeyInv

(* A power loss hits every attempt at once: what is left of the directory  *)
(* is a state that was there to be kept, or nothing.                       *)
LEMMA PowerLossStep ==
    ASSUME IInv, PowerLoss
    PROVE  IInv'
<1>1. /\ put' \in [Keys -> PutState]
      /\ \A k \in Keys : /\ put'[k].made = put[k].made /\ put'[k].relies = put[k].relies
                         /\ put'[k].renamed = put[k].renamed
                         /\ put'[k].at = "idle" <=> put[k].at = "idle"
                         /\ put'[k].at \in {"idle", "over"}
                         /\ put[k].at = "over" => put'[k].at = "over"
  BY DEF PowerLoss, IInv, TypeOK, PutState, PutSteps
<1>2. /\ eraser' \in [Keys -> EraseState]
      /\ \A k \in Keys : eraser'[k].at = "idle" /\ ~ eraser'[k].pasalinta
  BY DEF PowerLoss, EraserIdle, EraseState, EraseSteps
<1>3. /\ data' \in [Keys -> {"none", "part", "whole", "synced"}]
      /\ \A k \in Keys : data[k] = "synced" => data'[k] = "synced"
  BY DEF PowerLoss, IInv, TypeOK
<1>4. \/ /\ dir' \in kept /\ kept' = {dir'}
         /\ place = "durable" => place' = "durable"
      \/ /\ place = "made" /\ dir' = Empty /\ kept' = {dir'}
  BY DEF PowerLoss
<1>5. TypeOK' /\ dir' \in kept'
  <2>1. place' \in {"absent", "made", "durable"}
    BY DEF PowerLoss, IInv, TypeOK
  <2>2. dir' \in Directories /\ kept' \in SUBSET Directories /\ dir' \in kept'
    BY <1>4, EmptyType DEF IInv, TypeOK
  <2> QED BY <1>1, <1>2, <1>3, <2>1, <2>2 DEF PowerLoss, IInv, TypeOK
<1>6. ASSUME NEW k \in Keys PROVE KeyInv(k)'
  <2>1. \A d \in kept' : d = dir'
    BY <1>4
  <2>2. dir' \in kept \/ dir'[k] = {}
    BY <1>4, EmptyType
  <2>3. KeyInv(k) /\ told'[k] = told[k] /\ erased' = erased
    BY DEF IInv, PowerLoss
  <2>4. PutPart(k)'
    BY <1>1, <2>1, <2>2, <2>3 DEF KeyInv, PutPart, Before, Writing, Written
  <2>5. DataPart(k)'
    BY <1>1, <1>3, <2>1, <2>2, <2>3 DEF KeyInv, DataPart, Writing
  <2>6. ReceiptPart(k)'
    BY <1>1, <1>2, <1>4, <2>1, <2>3 DEF KeyInv, ReceiptPart
  <2>7. ErasePart(k)'
    BY <1>2, <2>1, <2>2, <2>3 DEF KeyInv, ErasePart
  <2> QED BY <2>4, <2>5, <2>6, <2>7 DEF KeyInv
<1> QED BY <1>5, <1>6 DEF IInv

-----------------------------------------------------------------------------
LEMMA NextIInv == IInv /\ [Next]_vars => IInv'
<1> SUFFICES ASSUME IInv, [Next]_vars PROVE IInv'
  OBVIOUS
<1>1. CASE UNCHANGED vars
  <2>1. TypeOK' /\ dir' \in kept'
    BY <1>1 DEF IInv, TypeOK, vars
  <2>2. ASSUME NEW k \in Keys PROVE KeyInv(k)'
    BY <1>1 DEF IInv, vars, KeyInv, PutPart, DataPart, ReceiptPart, ErasePart
  <2> QED BY <2>1, <2>2 DEF IInv
<1>2. CASE PowerLoss
  BY <1>2, PowerLossStep
<1>3. ASSUME NEW k \in Keys, PutStep(k) PROVE IInv'
  BY <1>3, BeginStep, MkdirStep, OpenStep, WriteStep, SyncStep, RenameStep, SyncDirStep, ParentsStep,
     PutFailsStep, RmStep, RmSyncStep, RmFailsStep, PutDiesStep DEF PutStep
<1>4. ASSUME NEW k \in Keys, EraserStep(k) PROVE IInv'
  BY <1>4, ProbeTempStep, HeadStep, DeleteHeadStep, UnlinkStep, DeleteSyncStep, RemoveTempStep,
     RemoveTempSyncStep, NoTempStep, AnswerStep, EraseFailsStep DEF EraserStep
<1> QED BY <1>1, <1>2, <1>3, <1>4 DEF Next

LEMMA Invariant == Spec => []IInv
BY InitIInv, NextIInv, PTL DEF Spec

\* A file under its final name is whole: put() renames it only when its
\* content is synchronised.
THEOREM NeverTornAlways == Spec => []NeverTorn
<1>1. IInv => NeverTorn
  BY DEF IInv, KeyInv, DataPart, NeverTorn
<1> QED BY <1>1, Invariant, PTL

\* A receipt of put() outlasts every power loss, for any number of puts that
\* share the directory.
THEOREM ReceiptsLast == Spec => []ReceiptLasts
<1>1. IInv => ReceiptLasts
  BY DEF IInv, KeyInv, ReceiptPart, ReceiptLasts
<1> QED BY <1>1, Invariant, PTL

\* What a failed put or a confirmed erasure has removed stays away.
THEOREM NothingReturns == Spec => []NothingComesBack
<1>1. IInv => NothingComesBack
  BY DEF IInv, KeyInv, ErasePart, NothingComesBack
<1> QED BY <1>1, Invariant, PTL

-----------------------------------------------------------------------------
(* The audit log.                                                          *)

USE AuditConstants

LEMMA ProcessUpdates ==
    ASSUME NEW p \in Process
    PROVE  /\ [p EXCEPT !.at = "down", !.ring = NoRing] \in Process
           /\ \A s \in {"down", "purging", "serving"} : [p EXCEPT !.at = s] \in Process
BY DEF Process

LEMMA CheckedType == ASSUME NEW g PROVE Checked(g) \in {"down", "purging", "serving"}
BY DEF Checked

LEMMA ScanBeginType ==
    ASSUME NEW job \in BOOLEAN, NEW owed \in SUBSET Row
    PROVE  [NoScan EXCEPT !.at = "reading", !.job = job, !.owed = owed] \in Scan
BY DEF NoScan, Scan

LEMMA AnsweredType ==
    ASSUME LogTypeOK, NEW rest \in SUBSET Row, NEW page \in SUBSET rest, NEW at \in {"done", "reading"},
           NEW after \in Nat, NEW key \in Generations \cup {NoKey}, Answered(page, at, after, key)
    PROVE  scan' \in Scan
<1> DEFINE numbers == {row.seq : row \in page}
           seen == \E row \in page : row.seq \in scan.got
<1>1. numbers \in SUBSET Nat /\ seen \in BOOLEAN
  BY DEF Row
<1>2. scan' = [scan EXCEPT !.owed = scan.owed \ page, !.got = scan.got \cup numbers,
                           !.twice = scan.twice \/ seen, !.at = at, !.after = after, !.key = key]
  BY DEF Answered
<1> HIDE DEF numbers, seen
<1> QED
  BY <1>1, <1>2 DEF LogTypeOK, Scan

-----------------------------------------------------------------------------
(* The invariant. *)

\* Whoever runs knows the key of whoever else runs; what is being written has
\* the active key of a replica that serves; what is written is within reach.
RingInv ==
    /\ \A r \in Up : proc[r].ring \in Ring
    /\ \A r \in Up : \A s \in Up : Compatible(proc[r].ring, proc[s].ring)
    /\ \A t \in open : t.on \in Serving /\ t.row.key = proc[t.on].ring.active
    /\ RowsReachable

PrivacyInv == PrivacyMeansEmpty /\ (privacy => open = {})

\* The mark excludes appends about the job, and the list of generations that
\* an erasure works from covers every row there is of the job.
JobInv ==
    /\ mark => ~ Locked
    /\ erasing.at # "idle" => mark
    /\ erasing.at = "done" => erasing.on = Nobody
    /\ erasing.at = "listed" =>
          erasing.on \in Serving /\ \A row \in rows : row.job => row.key \in erasing.keys
    /\ ErasedLeavesNoRow

\* Numbers are given out once.
SeqInv ==
    /\ \A row \in rows \cup scan.owed : 0 < row.seq /\ row.seq <= seq
    /\ \A t \in open : 0 < t.row.seq /\ t.row.seq <= seq
    /\ \A t \in open : \A row \in rows \cup scan.owed : t.row.seq # row.seq
    /\ \A t \in open : \A u \in open : t.row.seq = u.row.seq => t = u

\* What the reader still misses lies below his cursor, what he has above it.
ScanInv ==
    /\ scan.at = "reading" => /\ \A row \in scan.owed : scan.job => row.job
                              /\ \A row \in scan.owed \cap rows : scan.after = 0 \/ row.seq < scan.after
                              /\ \A n \in scan.got : scan.after # 0 /\ scan.after <= n
    /\ ScanIsExact

AuditInv == LogTypeOK /\ RingInv /\ PrivacyInv /\ JobInv /\ SeqInv /\ ScanInv

LEMMA InitInv == LogInit => AuditInv
<1> SUFFICES ASSUME LogInit PROVE AuditInv
  OBVIOUS
<1> USE DEF LogInit
<1>1. LogTypeOK
  BY DEF LogTypeOK, Process, Idle, NoScan, Eraser, Scan
<1>2. Up = {} /\ Serving = {}
  BY DEF Up, Serving
<1>3. RingInv /\ PrivacyInv
  BY <1>2 DEF RingInv, PrivacyInv, RowsReachable, PrivacyMeansEmpty
<1>4. JobInv
  BY DEF JobInv, ErasedLeavesNoRow, Idle
<1>5. SeqInv /\ ScanInv
  BY DEF SeqInv, ScanInv, ScanIsExact, NoScan
<1> QED
  BY <1>1, <1>3, <1>4, <1>5 DEF AuditInv

-----------------------------------------------------------------------------
(* A part of the invariant is kept by a step that only takes away.         *)

LEMMA KeyLess ==
    ASSUME RingInv, UNCHANGED <<proc, open>>, rows' \subseteq rows
    PROVE  RingInv'
BY DEF RingInv, RowsReachable, Up, Serving, usedGenerations, Compatible

LEMMA PrivacyLess ==
    ASSUME PrivacyInv, UNCHANGED <<privacy, proc>>, open' \subseteq open, rows' \subseteq rows
    PROVE  PrivacyInv'
BY DEF PrivacyInv, PrivacyMeansEmpty, Serving

LEMMA JobLess ==
    ASSUME JobInv, UNCHANGED <<mark, erasing, proc>>, open' \subseteq open, rows' \subseteq rows
    PROVE  JobInv'
BY DEF JobInv, ErasedLeavesNoRow, Locked, Serving

LEMMA SeqLess ==
    ASSUME SeqInv, UNCHANGED seq, open' \subseteq open, rows' \cup scan'.owed \subseteq rows \cup scan.owed
    PROVE  SeqInv'
BY DEF SeqInv

LEMMA ScanLess ==
    ASSUME ScanInv, UNCHANGED scan, rows' \subseteq rows
    PROVE  ScanInv'
BY DEF ScanInv, ScanIsExact

-----------------------------------------------------------------------------
(* The steps of the replicas. *)

LEMMA SwitchPrivacyInv == AuditInv /\ SwitchPrivacy => AuditInv'
<1> SUFFICES ASSUME AuditInv, SwitchPrivacy PROVE AuditInv'
  OBVIOUS
<1> USE DEF SwitchPrivacy, AuditInv
<1>1. LogTypeOK'
  BY DEF LogTypeOK
<1>2. PrivacyInv'
  BY DEF PrivacyInv, PrivacyMeansEmpty, RingInv, Up, Serving
<1> QED
  BY <1>1, <1>2, KeyLess, JobLess, SeqLess, ScanLess

LEMMA BootInv == ASSUME AuditInv, NEW r \in Replicas, NEW g \in Ring, Boot(r, g) PROVE AuditInv'
<1> USE DEF Boot, AuditInv
<1>1. LogTypeOK'
  BY DEF LogTypeOK, Process
<1>2. Up' = Up \cup {r} /\ Serving' = Serving /\ r \notin Up
  BY DEF LogTypeOK, Up, Serving
<1>3. proc'[r].ring = g /\ \A s \in Up : proc'[s] = proc[s]
  BY <1>2 DEF LogTypeOK, Up
<1>4. Serving \subseteq Up
  BY DEF Up, Serving
<1>5. RingInv'
  <2>1. \A a \in Up' : proc'[a].ring \in Ring
    BY <1>2, <1>3 DEF RingInv
  <2>2. \A a \in Up' : \A b \in Up' : Compatible(proc'[a].ring, proc'[b].ring)
    BY <1>2, <1>3 DEF RingInv, Compatible, Ring
  <2>3. \A t \in open' : t.on \in Serving' /\ t.row.key = proc'[t.on].ring.active
    BY <1>2, <1>3, <1>4 DEF RingInv
  <2>4. RowsReachable'
    BY <1>2, <1>3, <1>4 DEF RingInv, RowsReachable, usedGenerations
  <2> QED
    BY <2>1, <2>2, <2>3, <2>4 DEF RingInv, Compatible
<1>6. PrivacyInv'
  BY <1>2 DEF PrivacyInv, PrivacyMeansEmpty
<1>7. JobInv'
  BY <1>2 DEF JobInv, ErasedLeavesNoRow, Locked
<1> QED
  BY <1>1, <1>5, <1>6, <1>7, SeqLess, ScanLess

\* A replica that passes to another state of its start, or goes down.
LEMMA ReachedState ==
    ASSUME LogTypeOK, NEW r \in Replicas, NEW s \in {"down", "purging", "serving"},
           proc[r].at # "down", proc' = [proc EXCEPT ![r].at = s]
    PROVE  /\ proc' \in [Replicas -> Process]
           /\ \A a \in Replicas : proc'[a].ring = proc[a].ring
           /\ Up' \subseteq Up
           /\ Serving' = IF s = "serving" THEN Serving \cup {r} ELSE Serving \ {r}
BY DEF LogTypeOK, Process, Up, Serving

LEMMA CheckKeysInv == ASSUME AuditInv, NEW r \in Replicas, CheckKeys(r) PROVE AuditInv'
<1> USE DEF CheckKeys, AuditInv
<1> DEFINE g == proc[r].ring
           s == Checked(g)
<1>1. s \in {"down", "purging", "serving"}
  BY CheckedType
<1>2. /\ proc' \in [Replicas -> Process] /\ Up' \subseteq Up
      /\ \A a \in Replicas : proc'[a].ring = proc[a].ring
      /\ Serving' = IF s = "serving" THEN Serving \cup {r} ELSE Serving \ {r}
  BY <1>1, ReachedState
<1>3. s = "serving" => ~ privacy /\ usedGenerations \subseteq g.known
  BY DEF Checked, Orphans
<1>4. r \notin Serving
  BY DEF Serving
<1> HIDE DEF s
<1>5. LogTypeOK'
  BY <1>2 DEF LogTypeOK
<1>6. Serving \subseteq Serving' /\ Serving' \subseteq Replicas /\ Up \subseteq Replicas
  BY <1>2, <1>4 DEF Serving, Up
<1>7. RingInv'
  <2>1. \A t \in open' : t.on \in Serving' /\ t.row.key = proc'[t.on].ring.active
    BY <1>2, <1>6 DEF RingInv
  <2>2. RowsReachable'
    BY <1>2, <1>3, <1>6 DEF RingInv, RowsReachable, usedGenerations
  <2> QED
    BY <1>2, <1>6, <2>1, <2>2 DEF RingInv, Compatible
<1>8. PrivacyInv'
  BY <1>2, <1>3, <1>4 DEF PrivacyInv, PrivacyMeansEmpty
<1>9. JobInv'
  BY <1>6 DEF JobInv, ErasedLeavesNoRow, Locked
<1> QED
  BY <1>5, <1>7, <1>8, <1>9, SeqLess, ScanLess

LEMMA PurgeForPrivacyInv == ASSUME AuditInv, NEW r \in Replicas, PurgeForPrivacy(r) PROVE AuditInv'
<1> USE DEF PurgeForPrivacy, AuditInv
<1> PICK removed \in SUBSET rows :
        /\ removed = {} => rows = {}
        /\ rows' = rows \ removed
        /\ proc' = [proc EXCEPT ![r].at = IF PurgedAll(removed) THEN "serving" ELSE "purging"]
  OBVIOUS
<1> DEFINE s == IF PurgedAll(removed) THEN "serving" ELSE "purging"
<1>1. s \in {"down", "purging", "serving"} /\ proc[r].at # "down"
  OBVIOUS
<1>2. /\ proc' \in [Replicas -> Process] /\ Up' \subseteq Up
      /\ \A a \in Replicas : proc'[a].ring = proc[a].ring
      /\ Serving' = IF s = "serving" THEN Serving \cup {r} ELSE Serving \ {r}
  BY <1>1, ReachedState
<1>3. s = "serving" => rows' = {}
  BY DEF PurgedAll
<1>4. r \notin Serving
  BY DEF Serving
<1> HIDE DEF s
<1>5. LogTypeOK'
  BY <1>2 DEF LogTypeOK
<1>6. Serving \subseteq Serving' /\ Serving' \subseteq Replicas /\ Up \subseteq Replicas
  BY <1>2, <1>4 DEF Serving, Up
<1>7. RingInv'
  <2>1. \A t \in open' : t.on \in Serving' /\ t.row.key = proc'[t.on].ring.active
    BY <1>2, <1>6 DEF RingInv
  <2>2. RowsReachable'
    BY <1>2, <1>3, <1>6 DEF RingInv, RowsReachable, usedGenerations
  <2> QED
    BY <1>2, <1>6, <2>1, <2>2 DEF RingInv, Compatible
<1>8. PrivacyInv'
  BY <1>2, <1>3, <1>4 DEF PrivacyInv, PrivacyMeansEmpty
<1>9. JobInv'
  BY <1>6 DEF JobInv, ErasedLeavesNoRow, Locked
<1> QED
  BY <1>5, <1>7, <1>8, <1>9, SeqLess, ScanLess

LEMMA StopInv == ASSUME AuditInv, NEW r \in Replicas, Stop(r) PROVE AuditInv'
<1> USE DEF Stop, AuditInv
<1>1. proc' \in [Replicas -> Process]
  BY ProcessUpdates DEF LogTypeOK
<1>2. LogTypeOK'
  BY <1>1 DEF LogTypeOK, Idle, Eraser
<1>3. Up' = Up \ {r} /\ Serving' = Serving \ {r} /\ Up \subseteq Replicas /\ Serving \subseteq Up
  BY <1>1 DEF LogTypeOK, Process, Up, Serving
<1>4. \A a \in Replicas \ {r} : proc'[a] = proc[a]
  BY DEF LogTypeOK
<1>5. RingInv'
  <2>1. \A t \in open' : t.on \in Serving' /\ t.row.key = proc'[t.on].ring.active
    BY <1>3, <1>4 DEF RingInv
  <2>2. RowsReachable'
    BY <1>3, <1>4 DEF RingInv, RowsReachable, usedGenerations
  <2> QED
    BY <1>3, <1>4, <2>1, <2>2 DEF RingInv, Compatible
<1>6. PrivacyInv'
  BY <1>3 DEF PrivacyInv, PrivacyMeansEmpty
<1>7. JobInv'
  BY <1>3 DEF JobInv, ErasedLeavesNoRow, Locked, Idle
<1> QED
  BY <1>2, <1>5, <1>6, <1>7, SeqLess, ScanLess

-----------------------------------------------------------------------------
(* The steps of an append. *)

LEMMA InsertInv == ASSUME AuditInv, NEW r \in Replicas, NEW job \in BOOLEAN, Insert(r, job) PROVE AuditInv'
<1> USE DEF Insert, AuditInv
<1> DEFINE row == [seq |-> seq', key |-> proc[r].ring.active, job |-> job]
<1>1. Serving \subseteq Up
  BY DEF Up, Serving
<1>2. row \in Row /\ row.seq = seq + 1 /\ row.key = proc[r].ring.active /\ row.job = job
  BY <1>1 DEF LogTypeOK, RingInv, Ring, Row
<1>3. open' = open \cup {[on |-> r, row |-> row]}
  OBVIOUS
<1> HIDE DEF row
<1>4. LogTypeOK'
  BY <1>2, <1>3 DEF LogTypeOK, Transaction
<1>5. RingInv'
  BY <1>2, <1>3 DEF RingInv, RowsReachable, Up, Serving, usedGenerations, Compatible
<1>6. PrivacyInv'
  BY DEF PrivacyInv, PrivacyMeansEmpty, Serving
<1>7. JobInv'
  BY <1>2, <1>3 DEF JobInv, ErasedLeavesNoRow, Locked, Barred, Serving
<1>8. SeqInv'
  <2>1. \A w \in rows \cup scan.owed : 0 < w.seq /\ w.seq <= seq' /\ row.seq # w.seq
    BY <1>2 DEF SeqInv, LogTypeOK, Scan, Row
  <2>2. \A t \in open' : 0 < t.row.seq /\ t.row.seq <= seq'
    BY <1>2, <1>3 DEF SeqInv, LogTypeOK, Transaction, Row
  <2>3. \A t \in open : t.row.seq # row.seq
    BY <1>2 DEF SeqInv, LogTypeOK, Transaction, Row
  <2> QED
    BY <1>3, <2>1, <2>2, <2>3 DEF SeqInv
<1> QED
  BY <1>4, <1>5, <1>6, <1>7, <1>8, ScanLess

LEMMA CommitInv == ASSUME AuditInv, NEW t \in open, Commit(t) PROVE AuditInv'
<1> USE DEF Commit, AuditInv
<1>1. LogTypeOK'
  BY DEF LogTypeOK, Transaction
<1>2. Serving \subseteq Up
  BY DEF Up, Serving
<1>3. RingInv'
  BY <1>2 DEF RingInv, RowsReachable, Up, Serving, usedGenerations, Compatible
<1>4. PrivacyInv'
  BY DEF PrivacyInv, PrivacyMeansEmpty
<1>5. JobInv'
  BY DEF JobInv, ErasedLeavesNoRow, Locked, Serving
<1>6. SeqInv'
  <2>1. \A u \in open \ {t} : u.row.seq # t.row.seq
    BY DEF SeqInv
  <2> QED
    BY <2>1 DEF SeqInv
<1>7. ScanInv'
  BY DEF ScanInv, ScanIsExact, SeqInv
<1> QED
  BY <1>1, <1>3, <1>4, <1>5, <1>6, <1>7

LEMMA RollbackInv == ASSUME AuditInv, NEW t \in open, Rollback(t) PROVE AuditInv'
<1> USE DEF Rollback, AuditInv
<1>1. LogTypeOK'
  BY DEF LogTypeOK
<1>2. RingInv'
  BY DEF RingInv, RowsReachable, Up, Serving, usedGenerations, Compatible
<1> QED
  BY <1>1, <1>2, PrivacyLess, JobLess, SeqLess, ScanLess

-----------------------------------------------------------------------------
(* The steps of the erasure and of the sweep. *)

LEMMA MarkJobInv == AuditInv /\ MarkJob => AuditInv'
<1> SUFFICES ASSUME AuditInv, MarkJob PROVE AuditInv'
  OBVIOUS
<1> USE DEF MarkJob, AuditInv
<1>1. LogTypeOK'
  BY DEF LogTypeOK
<1>2. JobInv'
  BY DEF JobInv, ErasedLeavesNoRow, Locked, Serving
<1> QED
  BY <1>1, <1>2, KeyLess, PrivacyLess, SeqLess, ScanLess

LEMMA EraseListInv == ASSUME AuditInv, NEW r \in Replicas, EraseList(r) PROVE AuditInv'
<1> USE DEF EraseList, AuditInv
<1>1. usedGenerations \in SUBSET Generations /\ \A row \in rows : row.key \in usedGenerations
  BY DEF LogTypeOK, usedGenerations, Row
<1> DEFINE keys == usedGenerations
<1>2. erasing' = [at |-> "listed", on |-> r, keys |-> keys]
  OBVIOUS
<1> HIDE DEF keys
<1>3. keys \in SUBSET Generations /\ \A row \in rows : row.key \in keys
  BY <1>1 DEF keys
<1>4. LogTypeOK'
  BY <1>2, <1>3 DEF LogTypeOK, Eraser
<1>5. JobInv'
  BY <1>2, <1>3 DEF JobInv, ErasedLeavesNoRow, Locked, Serving
<1> QED
  BY <1>4, <1>5, KeyLess, PrivacyLess, SeqLess, ScanLess

\* A replica that serves finds every row of the job under the listed keys.
LEMMA OfJobIsAll ==
    ASSUME LogTypeOK, RingInv, NEW r \in Serving, NEW keys \in SUBSET Generations,
           \A row \in rows : row.job => row.key \in keys
    PROVE  OfJob(proc[r].ring, keys) = {row \in rows : row.job}
<1>1. \A row \in rows : row.key \in proc[r].ring.known
  BY DEF RingInv, RowsReachable, usedGenerations
<1>2. \A row \in rows : row.job => row.key \in candidates(proc[r].ring, keys)
  BY <1>1 DEF candidates
<1> QED
  BY <1>2 DEF OfJob

LEMMA EraseRowsInv == AuditInv /\ EraseRows => AuditInv'
<1> SUFFICES ASSUME AuditInv, EraseRows PROVE AuditInv'
  OBVIOUS
<1> USE DEF EraseRows, AuditInv
<1>1. LogTypeOK'
  BY DEF LogTypeOK, Idle, Eraser
<1>2. erasing.on \in Serving /\ erasing.keys \in SUBSET Generations /\ \A row \in rows : row.job => row.key \in erasing.keys
  BY DEF JobInv, LogTypeOK, Eraser
<1>3. rows' = rows \ {row \in rows : row.job}
  BY <1>2, OfJobIsAll
<1>4. JobInv'
  BY <1>3 DEF JobInv, ErasedLeavesNoRow, Locked, Idle
<1> QED
  BY <1>1, <1>3, <1>4, KeyLess, PrivacyLess, SeqLess, ScanLess

LEMMA PurgeExpiredInv == AuditInv /\ PurgeExpired => AuditInv'
<1> SUFFICES ASSUME AuditInv, PurgeExpired PROVE AuditInv'
  OBVIOUS
<1> USE DEF PurgeExpired, AuditInv
<1>1. rows' \subseteq rows
  OBVIOUS
<1>2. LogTypeOK'
  BY <1>1 DEF LogTypeOK
<1> QED
  BY <1>1, <1>2, KeyLess, PrivacyLess, JobLess, SeqLess, ScanLess

-----------------------------------------------------------------------------
(* The steps of the reader. *)

LEMMA ScanBeginInv == ASSUME AuditInv, NEW job \in BOOLEAN, ScanBegin(job) PROVE AuditInv'
<1> DEFINE owed == {row \in rows : job => row.job}
<1>1. owed \in SUBSET Row /\ owed \subseteq rows /\ \A row \in owed : job => row.job
  BY DEF AuditInv, LogTypeOK
<1>2. scan' = [NoScan EXCEPT !.at = "reading", !.job = job, !.owed = owed]
  BY DEF ScanBegin
<1>3. UNCHANGED <<privacy, proc, mark, seq, rows, open, erasing>>
  BY DEF ScanBegin
<1> HIDE DEF owed
<1>4. scan' \in Scan
  BY <1>1, <1>2, ScanBeginType
<1>5. LogTypeOK'
  BY <1>3, <1>4 DEF AuditInv, LogTypeOK
<1>6. ScanInv' /\ scan'.owed = owed
  BY <1>1, <1>2, <1>3 DEF AuditInv, ScanInv, ScanIsExact, NoScan
<1> QED
  BY <1>1, <1>3, <1>5, <1>6, KeyLess, PrivacyLess, JobLess, SeqLess DEF AuditInv

\* What a page is taken from: no row that the reader misses is left out.
LEMMA RestIsComplete ==
    ASSUME AuditInv, scan.at = "reading", NEW r \in Serving
    PROVE  LET rest == Below(Matching(scan.job, proc[r].ring), scan.after)
           IN  /\ rest \in SUBSET rows
               /\ scan.owed \cap rows \subseteq rest
               /\ \A row \in rest : scan.after = 0 \/ row.seq < scan.after
<1> USE DEF AuditInv
<1> DEFINE all == Matching(scan.job, proc[r].ring)
<1>1. usedGenerations \in SUBSET Generations /\ \A row \in rows : row.job => row.key \in usedGenerations
  BY DEF LogTypeOK, usedGenerations, Row
<1>2. OfJob(proc[r].ring, usedGenerations) = {row \in rows : row.job}
  BY <1>1, OfJobIsAll
<1>3. all \subseteq rows /\ scan.owed \cap rows \subseteq all
  BY <1>2 DEF Matching, ScanInv
<1> HIDE DEF all
<1> QED
  BY <1>3 DEF Below, ScanInv, all

LEMMA ScanPageInv == ASSUME AuditInv, NEW r \in Replicas, ScanPage(r) PROVE AuditInv'
<1> USE DEF ScanPage, AuditInv
<1> SUFFICES scan' \in Scan /\ scan'.owed \subseteq scan.owed /\ ScanInv'
  BY KeyLess, PrivacyLess, JobLess, SeqLess DEF LogTypeOK
<1>1. CASE scan' = [NoScan EXCEPT !.at = "refused"]
  BY <1>1 DEF NoScan, Scan, ScanInv, ScanIsExact
<1>2. CASE privacy /\ scan' = [scan EXCEPT !.at = "done", !.got = {}, !.after = 0, !.key = NoKey]
  <2>1. rows = {}
    BY <1>2 DEF PrivacyInv, PrivacyMeansEmpty
  <2> QED
    BY <1>2, <2>1 DEF LogTypeOK, Scan, ScanInv, ScanIsExact
<1> DEFINE rest == Below(Matching(scan.job, proc[r].ring), scan.after)
<1>3. ASSUME NEW page \in SUBSET rest, Page(r, page, rest)
      PROVE  scan' \in Scan /\ scan'.owed \subseteq scan.owed /\ ScanInv'
  <2>1. /\ rest \in SUBSET rows
        /\ scan.owed \cap rows \subseteq rest
        /\ \A row \in rest : scan.after = 0 \/ row.seq < scan.after
    BY RestIsComplete
  <2> HIDE DEF rest
  <2>2. rest \in SUBSET Row
    BY <2>1 DEF LogTypeOK
  <2>3. ~ \E row \in page : row.seq \in scan.got
    BY <2>1, <2>2 DEF ScanInv, LogTypeOK, Scan, Row
  <2>4. CASE page = rest /\ Answered(page, "done", 0, NoKey)
    <3>1. scan' \in Scan
      BY <2>2, <2>4, AnsweredType
    <3>2. /\ scan'.owed = scan.owed \ page /\ scan'.at = "done"
          /\ scan'.twice = (scan.twice \/ \E row \in page : row.seq \in scan.got)
      BY <2>4 DEF Answered, LogTypeOK, Scan
    <3>3. ScanIsExact'
      BY <2>1, <2>3, <2>4, <3>2 DEF ScanInv, ScanIsExact
    <3> QED
      BY <3>1, <3>2, <3>3 DEF ScanInv
  <2>5. ASSUME NEW last \in page, page # rest, \A row \in page : last.seq <= row.seq,
               Answered(page, "reading", last.seq, proc[r].ring.active)
        PROVE  scan' \in Scan /\ scan'.owed \subseteq scan.owed /\ ScanInv'
    <3>1. last \in Row /\ last.seq \in Nat /\ 0 < last.seq
      BY <2>1, <2>2 DEF Row, SeqInv
    <3>2. proc[r].ring.active \in Generations
      BY DEF RingInv, Up, Serving, Ring
    <3>3. scan' \in Scan
      BY <2>2, <2>5, <3>1, <3>2, AnsweredType
    <3>4. /\ scan'.owed = scan.owed \ page /\ scan'.at = "reading" /\ scan'.job = scan.job
          /\ scan'.after = last.seq /\ scan'.got = scan.got \cup {row.seq : row \in page}
          /\ scan'.twice = (scan.twice \/ \E row \in page : row.seq \in scan.got)
      BY <2>5 DEF Answered, LogTypeOK, Scan
    <3>5. \A row \in scan'.owed \cap rows : row.seq < last.seq
      BY <1>3, <2>1, <2>5, <3>4 DEF Page, IsTop
    <3>6. \A n \in scan'.got : last.seq <= n
      <4>1. \A n \in scan.got : last.seq <= n
        BY <2>1, <3>1 DEF ScanInv, LogTypeOK, Scan
      <4> QED
        BY <2>5, <3>4, <4>1
    <3>7. ScanIsExact'
      BY <2>3, <3>4 DEF ScanInv, ScanIsExact
    <3> QED
      BY <3>1, <3>3, <3>4, <3>5, <3>6, <3>7 DEF ScanInv
  <2> QED
    BY <1>3, <2>4, <2>5 DEF Page
<1> QED
  BY <1>1, <1>2, <1>3

-----------------------------------------------------------------------------
LEMMA NextInv == AuditInv /\ [LogNext]_logVars => AuditInv'
<1> SUFFICES ASSUME AuditInv, [LogNext]_logVars PROVE AuditInv'
  OBVIOUS
<1>1. CASE UNCHANGED logVars
  <2>1. LogTypeOK'
    BY <1>1 DEF AuditInv, LogTypeOK, logVars
  <2> QED
    BY <1>1, <2>1, KeyLess, PrivacyLess, JobLess, SeqLess, ScanLess DEF AuditInv, logVars
<1>2. CASE LogNext
  BY <1>2, SwitchPrivacyInv, BootInv, CheckKeysInv, PurgeForPrivacyInv, StopInv, InsertInv, CommitInv,
     RollbackInv, MarkJobInv, EraseListInv, EraseRowsInv, PurgeExpiredInv, ScanBeginInv, ScanPageInv DEF LogNext
<1> QED
  BY <1>1, <1>2

LEMMA AuditInvariant == LogSpec => []AuditInv
BY InitInv, NextInv, PTL DEF LogSpec

\* No row of an erased job stays behind or comes later, for any number of
\* replicas, keys, rotations and appends under way.
THEOREM ErasureIsFinal == LogSpec => []ErasedLeavesNoRow
<1>1. AuditInv => ErasedLeavesNoRow
  BY DEF AuditInv, JobInv
<1> QED
  BY <1>1, AuditInvariant, PTL

\* Every row is within reach of every replica that serves.
THEOREM EveryRowIsReachable == LogSpec => []RowsReachable
<1>1. AuditInv => RowsReachable
  BY DEF AuditInv, RingInv
<1> QED
  BY <1>1, AuditInvariant, PTL

\* Reading page by page misses no row that stays and repeats none, for any
\* size of the page.
THEOREM PagingIsExact == LogSpec => []ScanIsExact
<1>1. AuditInv => ScanIsExact
  BY DEF AuditInv, ScanInv
<1> QED
  BY <1>1, AuditInvariant, PTL

\* A replica in privacy mode serves over an empty log.
THEOREM PrivacyIsEmpty == LogSpec => []PrivacyMeansEmpty
<1>1. AuditInv => PrivacyMeansEmpty
  BY DEF AuditInv, PrivacyInv
<1> QED
  BY <1>1, AuditInvariant, PTL

\* The operator always has a ring that starts: the new key and the keys that
\* rows are still written with, however many these are.
THEOREM NextKeyStarts ==
    ASSUME NEW g \in Ring, g.known = usedGenerations \cup {g.active}
    PROVE  Checked(g) # "down"
<1>1. (g.known \ {g.active}) \ usedGenerations = {} /\ Orphans(g) = {}
  BY DEF Orphans
<1> QED
  BY <1>1 DEF Checked, TooManyKeys
=============================================================================
