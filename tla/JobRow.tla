-------------------------------- MODULE JobRow --------------------------------
(***************************************************************************)
(* A job as a row of PostgreSQL: the translation both ways, the columns an *)
(* update writes, the conditions under which it writes them, and the       *)
(* constraints of the table.                                               *)
(*                                                                         *)
(* The translations are kept by hand in several places that have to agree: *)
(* jobToRow, rowToJob, COLUMNS, IMMUTABLE_COLUMNS and PATCH_STULPELIAI.     *)
(***************************************************************************)
EXTENDS JobRecord

CONSTANTS
    TENANT_SENTINEL,  \* the tenant of a row that has none
    Iso,              \* new Date(t).toISOString(), of the texts that are a time
    Earlier           \* pairs of times in order

tenantToDb(v) == Or(v, Str(TENANT_SENTINEL))

tenantFromDb(v) == IF v = Str(TENANT_SENTINEL) THEN Null ELSE v

isoFromDb(v) == IF v = Null THEN Null ELSE Str(Iso[v.of])

Boolean(v) == IF v \in {Null, False, Num(0), Str(EmptyText)} THEN False ELSE True

\* One number of a progress; an object of another shape has none.
Part(progress, part) ==
    IF progress # Null /\ progress.of \in Points THEN Num(progress.of[part]) ELSE Null

\* What follows || in created_at: the first that is there, or the time of the write.
FirstTime(a, b, now) == IF ~Falsy(a) THEN a ELSE IF ~Falsy(b) THEN b ELSE Str(now)

jobToRow(job, now) ==
    LET v(f) == Get(job, f)
        known == v("progressKnown") = True
        progress == IF known THEN v("progress") ELSE Null
    IN  [id |-> v("id"), schema_version |-> v("schemaVersion"), type |-> v("type"),
         status |-> v("status"), phase |-> v("phase"), progress_known |-> IF known THEN True ELSE False,
         progress_current |-> Part(progress, "current"), progress_total |-> Part(progress, "total"),
         owner_kind |-> v("ownerKind"), owner_id |-> v("ownerId"),
         tenant_id |-> tenantToDb(v("tenantId")), idempotency_key |-> v("idempotencyKey"),
         actor |-> v("actor"), actor_role |-> v("actorRole"), actor_source |-> v("actorSource"),
         request_id |-> v("requestId"), storage_key |-> v("storageKey"),
         artefacts |-> Str(Json[Or(v("artefacts"), Obj(EmptyList)).of]),
         error_code |-> v("error_code"), error_message |-> Or(v("error_message"), v("error")),
         attempt_count |-> Or(v("attempt_count"), Num(0)),
         audio_cleanup_pending |-> Boolean(v("audio_cleanup_pending")),
         audio_cleanup_attempts |-> Or(v("audio_cleanup_attempts"), Num(0)),
         audio_cleanup_next_attempt_at |-> v("audio_cleanup_next_attempt_at"),
         deletion_pending |-> Boolean(v("deletion_pending")),
         deletion_attempts |-> Or(v("deletion_attempts"), Num(0)),
         deletion_next_attempt_at |-> v("deletion_next_attempt_at"),
         created_at |-> FirstTime(v("created_at"), v("createdAt"), now),
         updated_at |-> FirstTime(v("updatedAt"), Null, now),
         started_at |-> v("started_at"), completed_at |-> v("completed_at"),
         version |-> Or(v("version"), Num(1))]

\* What every row gives.
RowValues(row) ==
    [id |-> row.id, type |-> row.type, status |-> row.status, phase |-> row.phase,
     progress |-> IF row.progress_known = True
                  THEN Obj([current |-> row.progress_current.of, total |-> row.progress_total.of])
                  ELSE Null,
     progressKnown |-> row.progress_known, ownerId |-> row.owner_id,
     ownerKind |-> row.owner_kind, tenantId |-> tenantFromDb(row.tenant_id),
     idempotencyKey |-> row.idempotency_key, actor |-> row.actor, actorRole |-> row.actor_role,
     actorSource |-> row.actor_source, requestId |-> row.request_id,
     storageKey |-> row.storage_key, artefacts |-> Obj(ParseJson[row.artefacts.of]),
     error |-> row.error_message, error_code |-> row.error_code,
     error_message |-> row.error_message, attempt_count |-> row.attempt_count,
     audio_cleanup_pending |-> row.audio_cleanup_pending,
     audio_cleanup_attempts |-> row.audio_cleanup_attempts,
     audio_cleanup_next_attempt_at |-> isoFromDb(row.audio_cleanup_next_attempt_at),
     deletion_pending |-> row.deletion_pending, deletion_attempts |-> row.deletion_attempts,
     deletion_next_attempt_at |-> isoFromDb(row.deletion_next_attempt_at),
     created_at |-> isoFromDb(row.created_at), started_at |-> isoFromDb(row.started_at),
     completed_at |-> isoFromDb(row.completed_at), createdAt |-> isoFromDb(row.created_at),
     updatedAt |-> isoFromDb(row.updated_at), version |-> Or(row.version, Num(1))]

\* The record of a row without its result, { hidratuota: false }; a row of the old
\* era gives a record without the field.
rowToJobMeta(row) ==
    [f \in DOMAIN RowValues(row) \cup (IF row.schema_version = Null THEN {} ELSE {"schemaVersion"}) |->
        IF f = "schemaVersion" THEN row.schema_version ELSE RowValues(row)[f]]

rowToJob(row, result) ==
    [f \in DOMAIN rowToJobMeta(row) \cup {"result"} |->
        IF f = "result" THEN result ELSE rowToJobMeta(row)[f]]

\* What restoreRecord() demands first: a progress the two columns can hold.
assertAtstovaujamasProgresas(job) ==
    LET known == Get(job, "progressKnown")
        progress == Get(job, "progress")
    IN  /\ known # Null => known.type = "boolean"
        /\ IF known = True THEN progress # Null /\ progress.type = "object" /\ progress.of \in Points
           ELSE progress = Null

-----------------------------------------------------------------------------
(* The columns an update writes. *)

IMMUTABLE_COLUMNS ==
    {"id", "owner_id", "owner_kind", "tenant_id", "idempotency_key", "schema_version", "created_at"}

\* The mutable ones but for the time and the version, which the database sets.
KINTAMI_BE_LAIKO ==
    {"type", "status", "phase", "progress_known", "progress_current", "progress_total", "actor",
     "actor_role", "actor_source", "request_id", "storage_key", "artefacts", "error_code",
     "error_message", "attempt_count", "audio_cleanup_pending", "audio_cleanup_attempts",
     "audio_cleanup_next_attempt_at", "deletion_pending", "deletion_attempts",
     "deletion_next_attempt_at", "started_at", "completed_at"}

COLUMNS == IMMUTABLE_COLUMNS \cup KINTAMI_BE_LAIKO \cup {"updated_at", "version"}

PATCH_STULPELIAI ==
    LET progress == {"progress_known", "progress_current", "progress_total"}
    IN  [type |-> {"type"}, status |-> {"status"}, phase |-> {"phase"}, progress |-> progress,
         progressKnown |-> progress, actor |-> {"actor"}, actorRole |-> {"actor_role"},
         actorSource |-> {"actor_source"}, requestId |-> {"request_id"}, storageKey |-> {"storage_key"},
         artefacts |-> {"artefacts"}, error |-> {"error_message"}, error_message |-> {"error_message"},
         error_code |-> {"error_code"}, attempt_count |-> {"attempt_count"},
         audio_cleanup_pending |-> {"audio_cleanup_pending"},
         audio_cleanup_attempts |-> {"audio_cleanup_attempts"},
         audio_cleanup_next_attempt_at |-> {"audio_cleanup_next_attempt_at"},
         deletion_pending |-> {"deletion_pending"}, deletion_attempts |-> {"deletion_attempts"},
         deletion_next_attempt_at |-> {"deletion_next_attempt_at"}, started_at |-> {"started_at"},
         completed_at |-> {"completed_at"}, updatedAt |-> {"updated_at"}, version |-> {"version"}]

\* Named by the patch, or different from what the row is expected to hold.
changedColumns(was, row, patch) ==
    LET named == UNION {PATCH_STULPELIAI[f] : f \in DOMAIN patch \cap DOMAIN PATCH_STULPELIAI}
    IN  {c \in KINTAMI_BE_LAIKO : c \in named \/ row[c] # was[c]}

LAIKO_ZYMA(updated_at, clock) ==
    IF <<updated_at.of, clock>> \in Earlier THEN Str(clock) ELSE updated_at

\* UPDATE jobs SET ...: the row that is in the table, not the one that was read.
Updated(stored, written, row, clock) ==
    [c \in COLUMNS |->
        CASE c \in written      -> row[c]
          [] c = "updated_at"   -> LAIKO_ZYMA(stored.updated_at, clock)
          [] c = "version"      -> Num(stored.version.of + 1)
          [] OTHER              -> stored[c]]

\* Under the lock of the row every mutable column is written.
writePatched(stored, current, patch, now, clock) ==
    Updated(stored, KINTAMI_BE_LAIKO, jobToRow(applyPatch(current, patch, now), now), clock)

\* Without it, only the columns the change is about.
WritesChanged(stored, current, patch, now, clock) ==
    LET row == jobToRow(applyPatch(current, patch, now), now)
    IN  Updated(stored, changedColumns(jobToRow(current, now), row, patch), row, clock)

\* The conditions of the UPDATE of writePatchedCas, and of updateOwned.
CasMatches(stored, expectedVersion) == stored.version = Num(expectedVersion)

ScopeMatches(stored, scope) ==
    /\ stored.owner_id = scope.ownerId
    /\ stored.owner_kind # Null /\ stored.owner_kind = scope.ownerKind

writePatchedCas(stored, current, patch, expectedVersion, now, clock) ==
    IF CasMatches(stored, expectedVersion)
    THEN [answer |-> "written", row |-> WritesChanged(stored, current, patch, now, clock)]
    ELSE [answer |-> "CONCURRENCY_CONFLICT", row |-> stored]

\* One try; expectedVersion may be absent, and then a lost race is tried again
\* with the row as it is.
updateOwned(stored, current, patch, scope, expectedVersion, now, clock) ==
    CASE ~ScopeMatches(stored, scope) -> [answer |-> "FORBIDDEN", row |-> stored]
      [] ScopeMatches(stored, scope) /\ expectedVersion # Null /\ ~CasMatches(stored, expectedVersion) ->
            [answer |-> "CONCURRENCY_CONFLICT", row |-> stored]
      [] OTHER -> [answer |-> "written", row |-> WritesChanged(stored, current, patch, now, clock)]

\* An owned read asks the row again after it has fetched an external result: the
\* owner and the version must be those of the row the result is for.
getOwned(stored, later, scope, hydrate, external, result) ==
    LET owned(row) == row # Null /\ matchesOwner(rowToJobMeta(row), scope)
        again == hydrate /\ external
    IN  IF stored = Null THEN [answer |-> "none"]
        ELSE IF ~owned(stored) THEN [answer |-> "FORBIDDEN"]
        ELSE IF again /\ later = Null THEN [answer |-> "none"]
        ELSE IF again /\ ~owned(later) THEN [answer |-> "FORBIDDEN"]
        ELSE IF again /\ later.version # stored.version THEN [answer |-> "none"]
        ELSE [answer |-> "job", job |-> IF hydrate THEN rowToJob(stored, result) ELSE rowToJobMeta(stored)]

-----------------------------------------------------------------------------
(* The constraints of the table. *)

PhaseFits(row) ==
    LET phases == IF row.type = Str("transcription")
                  THEN {"validating", "transcribing", "diarizing", "merging"}
                  ELSE {"validating", "generating_protocol"}
    IN  CASE row.status # Str("processing") -> row.phase = Null
          [] row.status = Str("processing") /\ row.phase = Null -> row.schema_version = Null
          [] OTHER -> row.phase \in {Str(p) : p \in phases}

ProgressFits(row) ==
    /\ IF row.progress_known = True THEN row.progress_current # Null /\ row.progress_total # Null
       ELSE row.progress_current = Null /\ row.progress_total = Null
    /\ row.progress_current # Null =>
         row.progress_total.of > 0 /\ row.progress_current.of \in 0 .. row.progress_total.of
    /\ row.progress_known = True => row.status = Str("processing")

OwnerFits(row) ==
    IF row.owner_kind = Str("user") THEN row.owner_id # Null
    ELSE row.owner_kind \in {Null, Str("api-key"), Str("unowned")} /\ row.owner_id = Null

SchemaHolds(row) ==
    /\ row.schema_version \in {Null, Num(2)}
    /\ row.type \in {Str("transcription"), Str("protocol")}
    /\ row.status \in {Str(s) : s \in {"queued", "processing", "completed", "failed", "cancelled"}}
    /\ PhaseFits(row) /\ ProgressFits(row) /\ OwnerFits(row)
    /\ row.actor_source \in {Null, Str("api-key"), Str("session")}
    /\ row.version.of >= 1

=============================================================================
