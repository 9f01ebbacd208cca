------------------------------- MODULE FsStore -------------------------------
(***************************************************************************)
(* The object store on a file system (utils/artifactStore/fsStore.js) and  *)
(* how an object is erased from it (deleteResultArtifacts of               *)
(* utils/jobStore/postgresStore.js), under failing calls, dying processes  *)
(* and power losses.                                                       *)
(*                                                                         *)
(* A key is the address of one attempt and is put at most once: the        *)
(* registry refuses an address a second time, so a put finds neither an    *)
(* older object nor an older temporary file under its names.  The keys are *)
(* those of one job; their files share a directory, which the first put    *)
(* makes.                                                                  *)
(***************************************************************************)
EXTENDS FiniteSets

CONSTANT Keys

VARIABLES
    place,   \* the directory: "absent", "made" or "durable" in its parent
    dir,     \* dir[k]: the names in the directory that belong to k
    kept,    \* the states of dir that a power loss may bring back
    data,    \* data[k]: the content: "none", "part", "whole" or "synced"
    put,     \* put[k]: where put(k) is, and what it found when it began
    eraser,  \* eraser[k]: where the erasure of k is, and what it has seen
    told,    \* told[k]: the last answer the callers of the store got on k
    erased   \* the keys of which an erasure has ever begun

vars == <<place, dir, kept, data, put, eraser, told, erased>>

Names == {"temp", "final"}

PutSteps == {"idle", "mkdir", "open", "write", "sync", "rename", "syncdir", "parents",
             "rm", "rmsync", "over"}

(* made: this put saw the directory missing.  relies: it found one that    *)
(* another put had made and not yet secured.                               *)
PutState == [at : PutSteps, made : BOOLEAN, relies : BOOLEAN, renamed : BOOLEAN]

EraseSteps == {"idle", "head", "again", "unlink", "unlinked", "temp", "untemped", "answer"}

(* temp: the temporary name was seen.  alone: no put was under way when    *)
(* the erasure began.  pasalinta: something was removed.                   *)
EraseState == [at : EraseSteps, temp : BOOLEAN, alone : BOOLEAN, pasalinta : BOOLEAN]

EraserIdle == [at |-> "idle", temp |-> FALSE, alone |-> FALSE, pasalinta |-> FALSE]

(* "removed" and "absent" are pasalinti and jauNebuvo, which count alike.   *)
Answers == {"nothing", "stored", "failed", "left", "removed", "absent"}

Directories == [Keys -> SUBSET Names]

TypeOK ==
    /\ place \in {"absent", "made", "durable"}
    /\ dir \in Directories
    /\ kept \in SUBSET Directories
    /\ data \in [Keys -> {"none", "part", "whole", "synced"}]
    /\ put \in [Keys -> PutState]
    /\ eraser \in [Keys -> EraseState]
    /\ told \in [Keys -> Answers] /\ erased \subseteq Keys

Empty == [k \in Keys |-> {}]

Init ==
    /\ place \in {"absent", "durable"}
    /\ dir = Empty /\ kept = {Empty}
    /\ data = [k \in Keys |-> "none"]
    /\ put = [k \in Keys |-> [at |-> "idle", made |-> FALSE, relies |-> FALSE, renamed |-> FALSE]]
    /\ eraser = [k \in Keys |-> EraserIdle]
    /\ told = [k \in Keys |-> "nothing"] /\ erased = {}

-----------------------------------------------------------------------------
(* The file system: a change of the directory may be lost again until the  *)
(* directory is synchronised, and so may any of several.                   *)

SetNames(k, names) ==
    /\ dir' = [dir EXCEPT ![k] = names]
    /\ kept' = kept \cup {dir'}

sinchronizuotiKatalaga == kept' = {dir}

-----------------------------------------------------------------------------
(* put().                                                                  *)

PutTo(k, step) == put' = [put EXCEPT ![k].at = step]
OnlyPut == UNCHANGED <<place, dir, kept, data, eraser, told, erased>>

(* trukstamosDalys(): which directories this put will have to secure.      *)
Begin(k) ==
    /\ put[k].at = "idle"
    /\ put' = [put EXCEPT ![k].at = "mkdir", ![k].made = (place = "absent"),
                          ![k].relies = (place = "made")]
    /\ OnlyPut

(* mkdir, recursive: it does not mind a directory that is there.           *)
Mkdir(k) ==
    /\ put[k].at = "mkdir"
    /\ \/ /\ place' = IF place = "absent" THEN "made" ELSE place
          /\ PutTo(k, "open")
          /\ UNCHANGED told
       \/ PutTo(k, "over") /\ told' = [told EXCEPT ![k] = "failed"] /\ UNCHANGED place
    /\ UNCHANGED <<dir, kept, data, eraser, erased>>

Open(k) ==
    /\ put[k].at = "open" /\ place # "absent"
    /\ SetNames(k, dir[k] \cup {"temp"})
    /\ data' = [data EXCEPT ![k] = "part"]
    /\ PutTo(k, "write")
    /\ UNCHANGED <<place, eraser, told, erased>>

Write(k) ==
    /\ put[k].at = "write"
    /\ data' = [data EXCEPT ![k] = "whole"]
    /\ PutTo(k, "sync")
    /\ UNCHANGED <<place, dir, kept, eraser, told, erased>>

\* mutant: written but not synchronised before the rename
Sync_Skipped(k) ==
    /\ put[k].at = "sync"
    /\ PutTo(k, "rename")
    /\ OnlyPut

Sync(k) ==
    /\ put[k].at = "sync"
    /\ data' = [data EXCEPT ![k] = "synced"]
    /\ PutTo(k, "rename")
    /\ UNCHANGED <<place, dir, kept, eraser, told, erased>>

(* An erasure may have taken the temporary file away.                      *)
Rename(k) ==
    /\ put[k].at = "rename" /\ "temp" \in dir[k]
    /\ SetNames(k, {"final"})
    /\ put' = [put EXCEPT ![k].at = "syncdir", ![k].renamed = TRUE]
    /\ UNCHANGED <<place, data, eraser, told, erased>>

SyncDir(k) ==
    /\ put[k].at = "syncdir"
    /\ sinchronizuotiKatalaga
    /\ PutTo(k, "parents")
    /\ UNCHANGED <<place, dir, data, eraser, told, erased>>

\* mutant: only the directory itself is secured
Parents_Skipped(k) ==
    /\ put[k].at = "parents"
    /\ PutTo(k, "over")
    /\ told' = [told EXCEPT ![k] = "stored"]
    /\ UNCHANGED <<place, dir, kept, data, eraser, erased>>

(* The parents of the directories this put made; then the receipt.         *)
Parents(k) ==
    /\ put[k].at = "parents"
    /\ place' = IF put[k].made THEN "durable" ELSE place
    /\ PutTo(k, "over")
    /\ told' = [told EXCEPT ![k] = "stored"]
    /\ UNCHANGED <<dir, kept, data, eraser, erased>>

(* Any call may fail; what the put has left is then removed.               *)
PutFails(k) ==
    /\ put[k].at \in {"open", "write", "sync", "rename", "syncdir", "parents"}
    /\ PutTo(k, "rm")
    /\ OnlyPut

Remnant(k) == IF put[k].renamed THEN {"final"} ELSE {"temp"}

Rm(k) ==
    /\ put[k].at = "rm"
    /\ SetNames(k, dir[k] \ Remnant(k))
    /\ PutTo(k, "rmsync")
    /\ UNCHANGED <<place, data, eraser, told, erased>>

RmSync(k) ==
    /\ put[k].at = "rmsync"
    /\ sinchronizuotiKatalaga
    /\ PutTo(k, "over")
    /\ told' = [told EXCEPT ![k] = "failed"]
    /\ UNCHANGED <<place, dir, data, eraser, erased>>

(* LIKO_ARTEFAKTAS: the caller learns that something may be left.          *)
RmFails(k) ==
    /\ put[k].at \in {"rm", "rmsync"}
    /\ PutTo(k, "over")
    /\ told' = [told EXCEPT ![k] = "left"]
    /\ UNCHANGED <<place, dir, kept, data, eraser, erased>>

PutDies(k) ==
    /\ put[k].at \notin {"idle", "over"}
    /\ PutTo(k, "over")
    /\ OnlyPut

-----------------------------------------------------------------------------
(* The erasure of an attempt: the temporary name is looked for first, then *)
(* the final one, and each that was seen is removed (adresuBusena,         *)
(* deleteResultArtifacts).  "Was not there" counts as success.  The sweep  *)
(* takes the same steps.                                                   *)

EraserTo(k, step) == eraser' = [eraser EXCEPT ![k].at = step]
OnlyEraser == UNCHANGED <<place, dir, kept, data, put, told, erased>>

ProbeTemp(k) ==
    /\ eraser[k].at = "idle" /\ put[k].at # "idle"
    /\ eraser' = [eraser EXCEPT ![k] = [at |-> "head", temp |-> "temp" \in dir[k],
                                        alone |-> put[k].at = "over", pasalinta |-> FALSE]]
    /\ erased' = erased \cup {k}
    /\ UNCHANGED <<place, dir, kept, data, put, told>>

Head(k) ==
    /\ eraser[k].at = "head"
    /\ EraserTo(k, IF "final" \in dir[k] THEN "again" ELSE "temp")
    /\ OnlyEraser

(* delete() itself asks head() again.                                      *)
DeleteHead(k) ==
    /\ eraser[k].at = "again"
    /\ EraserTo(k, IF "final" \in dir[k] THEN "unlink" ELSE "temp")
    /\ OnlyEraser

Unlink(k) ==
    /\ eraser[k].at = "unlink"
    /\ IF "final" \in dir[k]
       THEN SetNames(k, dir[k] \ {"final"}) /\ EraserTo(k, "unlinked")
       ELSE EraserTo(k, "temp") /\ UNCHANGED <<dir, kept>>
    /\ UNCHANGED <<place, data, put, told, erased>>

Removed(k, step) == eraser' = [eraser EXCEPT ![k].at = step, ![k].pasalinta = TRUE]

DeleteSync(k) ==
    /\ eraser[k].at = "unlinked"
    /\ sinchronizuotiKatalaga
    /\ Removed(k, "temp")
    /\ UNCHANGED <<place, dir, data, put, told, erased>>

(* pasalintiLaikinaji(), when the temporary name was seen.                 *)
RemoveTemp(k) ==
    /\ eraser[k].at = "temp" /\ eraser[k].temp
    /\ IF "temp" \in dir[k]
       THEN SetNames(k, dir[k] \ {"temp"}) /\ EraserTo(k, "untemped")
       ELSE EraserTo(k, "answer") /\ UNCHANGED <<dir, kept>>
    /\ UNCHANGED <<place, data, put, told, erased>>

\* mutant: the removal of the temporary file is not secured
RemoveTempSync_Skipped(k) ==
    /\ eraser[k].at = "untemped"
    /\ Removed(k, "answer")
    /\ OnlyEraser

RemoveTempSync(k) ==
    /\ eraser[k].at = "untemped"
    /\ sinchronizuotiKatalaga
    /\ Removed(k, "answer")
    /\ UNCHANGED <<place, dir, data, put, told, erased>>

NoTemp(k) ==
    /\ eraser[k].at = "temp" /\ ~ eraser[k].temp
    /\ EraserTo(k, "answer")
    /\ OnlyEraser

(* What an erasure beside a put under way answers binds nobody: remove()   *)
(* refuses as long as the attempt is pending.                              *)
Answer(k) ==
    /\ eraser[k].at = "answer"
    /\ told' = [told EXCEPT ![k] = IF ~ eraser[k].alone THEN "nothing"
                                   ELSE IF eraser[k].pasalinta THEN "removed" ELSE "absent"]
    /\ eraser' = [eraser EXCEPT ![k] = EraserIdle]
    /\ UNCHANGED <<place, dir, kept, data, put, erased>>

(* A call fails or the process dies; the erasure is tried again.           *)
EraseFails(k) ==
    /\ eraser[k].at # "idle"
    /\ eraser' = [eraser EXCEPT ![k] = EraserIdle]
    /\ OnlyEraser

-----------------------------------------------------------------------------
(* Everything stops; the directory is in one of the states that were not   *)
(* yet made to last, or gone with all that is in it when its parent never  *)
(* was, and a file that was not synchronised is cut off.                   *)
PowerLoss ==
    /\ \/ \E d \in kept : dir' = d /\ kept' = {d}
          /\ place' = IF place = "made" THEN "durable" ELSE place
       \/ place = "made" /\ place' = "absent" /\ dir' = Empty /\ kept' = {Empty}
    /\ data' \in {f \in [Keys -> {"none", "part", "synced"}] :
                    \A k \in Keys : \/ data[k] = "whole" /\ f[k] # "none"
                                    \/ data[k] = f[k]}
    /\ put' = [k \in Keys |-> IF put[k].at = "idle" THEN put[k] ELSE [put[k] EXCEPT !.at = "over"]]
    /\ eraser' = [k \in Keys |-> EraserIdle]
    /\ UNCHANGED <<told, erased>>

PutStep(k) ==
    \/ Begin(k) \/ Mkdir(k) \/ Open(k) \/ Write(k) \/ Sync(k) \/ Rename(k) \/ SyncDir(k) \/ Parents(k)
    \/ PutFails(k) \/ Rm(k) \/ RmSync(k) \/ RmFails(k) \/ PutDies(k)

EraserStep(k) ==
    \/ ProbeTemp(k) \/ Head(k) \/ DeleteHead(k) \/ Unlink(k) \/ DeleteSync(k)
    \/ RemoveTemp(k) \/ RemoveTempSync(k) \/ NoTemp(k) \/ Answer(k) \/ EraseFails(k)

Next == PowerLoss \/ \E k \in Keys : PutStep(k) \/ EraserStep(k)

Spec == Init /\ [][Next]_vars

-----------------------------------------------------------------------------
(* A file under its final name is whole, whatever fails or stops and when: *)
(* head() takes the name for the object (the header of fsStore.js).        *)
NeverTorn == \A k \in Keys : "final" \in dir[k] => data[k] = "synced"

(* What put() gave a receipt for outlasts every power loss, as long as     *)
(* nobody erases it, unless the put relied on a directory that another put *)
(* had made and not yet secured.                                           *)
ReceiptLasts ==
    \A k \in Keys : (told[k] = "stored" /\ k \notin erased /\ ~ put[k].relies) =>
        place = "durable" /\ \A d \in kept : "final" \in d[k]

(* When put() has failed without naming a remnant, or an erasure has       *)
(* removed something, neither name of the object is there or ever comes    *)
(* back.                                                                   *)
NothingComesBack ==
    \A k \in Keys : told[k] \in {"failed", "removed"} => \A d \in kept : d[k] = {}
=============================================================================
