------------------------------ MODULE JobRecord ------------------------------
(***************************************************************************)
(* The record of a job and its two persistent forms.  A job is an object   *)
(* with dynamically typed fields; Redis keeps a hash of texts and parses   *)
(* them back by three tables of field names, PostgreSQL keeps a typed row  *)
(* that four hand-written tables translate: job to row, row to job, the    *)
(* mutable columns, and the columns a field of a patch lies in.            *)
(*                                                                         *)
(* A value carries its JavaScript type.  How numbers, booleans and objects *)
(* are spelled is given by constants; what of the spelling is relied on is *)
(* EncodingAssumption.  When records are read and written is in JobStore.  *)
(***************************************************************************)
EXTENDS Integers

CONSTANTS
    Null,        \* null, and SQL's NULL
    Texts,       \* strings
    EmptyText,   \* ""
    Data,        \* JSON values: results, lists of artefacts, progress
    EmptyList,   \* []
    Text,        \* String(v)
    Json,        \* JSON.stringify(v), of a member of Data
    ParseJson,   \* JSON.parse, of the texts it accepts
    ParseInt,    \* parseInt(text, 10) || 0
    Number,      \* Number(text), of the texts that give an integer
    TrueTexts,   \* texts that are "true" in any case
    Digits       \* texts of decimal digits only

Num(n) == [type |-> "number", of |-> n]

Bool(b) == [type |-> "boolean", of |-> b]

Str(t) == [type |-> "string", of |-> t]

Obj(d) == [type |-> "object", of |-> d]

JsValue == [type : {"number"}, of : Int] \cup [type : {"boolean"}, of : {"true", "false"}]
           \cup [type : {"string"}, of : Texts] \cup [type : {"object"}, of : Data]

True == Bool("true")

False == Bool("false")

\* A progress that two columns can hold; other progress objects are in Data too.
Points == [current : Int, total : Int]

EncodingAssumption ==
    /\ Null \notin JsValue /\ EmptyText \in Texts /\ EmptyList \in Data /\ Points \subseteq Data
    /\ {"transcription", "queued"} \subseteq Texts \ {EmptyText}
    /\ Text \in [JsValue -> Texts] /\ \A t \in Texts : Text[Str(t)] = t
    /\ ParseInt \in [Texts -> Int] /\ DOMAIN Number \subseteq Texts
    /\ \A n \in Int : /\ Text[Num(n)] # EmptyText /\ ParseInt[Text[Num(n)]] = n
                      /\ Text[Num(n)] \in DOMAIN Number /\ Number[Text[Num(n)]] = n
    /\ Text[True] \in TrueTexts /\ Text[False] \notin TrueTexts
    /\ EmptyText \notin {Text[True], Text[False]}
    /\ Json \in [Data -> Texts]
    /\ \A d \in Data : /\ Json[d] # EmptyText /\ Json[d] \in DOMAIN ParseJson
                       /\ ParseJson[Json[d]] = d

-----------------------------------------------------------------------------
(* The fields. *)

BOOLEAN_FIELDS == {"audio_cleanup_pending", "deletion_pending", "progressKnown"}

NUMBER_FIELDS == {"attempt_count", "audio_cleanup_attempts", "deletion_attempts", "schemaVersion",
                  "version"}

JSON_FIELDS == {"result", "progress", "artefacts"}

TEXT_FIELDS ==
    {"id", "type", "status", "phase", "ownerId", "ownerKind", "tenantId", "idempotencyKey", "actor",
     "actorRole", "actorSource", "requestId", "storageKey", "error", "error_code", "error_message",
     "audio_cleanup_next_attempt_at", "deletion_next_attempt_at", "created_at", "started_at",
     "completed_at", "createdAt", "updatedAt"}

Fields == BOOLEAN_FIELDS \cup NUMBER_FIELDS \cup JSON_FIELDS \cup TEXT_FIELDS

Get(job, f) == IF f \in DOMAIN job THEN job[f] ELSE Null

\* a ?? b
Or(a, b) == IF a = Null THEN b ELSE a

\* What !v says of a text field.
Falsy(v) == v = Null \/ v = Str(EmptyText)

normalizeSchemaVersion(v) == IF Text[v] \in DOMAIN Number THEN Num(Number[Text[v]]) ELSE v

normalizeFieldValue(f, v) ==
    IF v = Null THEN v
    ELSE IF f = "schemaVersion" THEN normalizeSchemaVersion(v)
    ELSE IF f \in BOOLEAN_FIELDS THEN IF Text[v] \in TrueTexts THEN True ELSE False
    ELSE IF f \in NUMBER_FIELDS THEN Num(ParseInt[Text[v]])
    ELSE v

VERSIJOS_LUBOS == 2147483647

\* normalizeJob() throws on a version that is neither absent nor in range, as a
\* number or in digits.
VersionValid(job) ==
    LET v == Get(job, "version") IN
    v # Null =>
        /\ v.type = "number" \/ (v.type = "string" /\ v.of \in Digits \cap DOMAIN Number)
        /\ (IF v.type = "number" THEN v.of ELSE Number[v.of]) \in 1 .. VERSIJOS_LUBOS

normalizeJob(job) ==
    [f \in DOMAIN job \cup {"version"} |->
        IF f = "version" /\ Get(job, "version") = Null THEN Num(1)
        ELSE normalizeFieldValue(f, job[f])]

\* The values a new record takes from its caller, and those it starts with.
newJob(fields, id, now) ==
    LET given(f) == Get(fields, f)
        orNull(v) == IF Falsy(v) THEN Null ELSE v
        born == [id |-> Str(id), schemaVersion |-> Num(2),
                 type |-> IF Falsy(given("type")) THEN Str("transcription") ELSE given("type"),
                 storageKey |-> orNull(given("storageKey")), requestId |-> orNull(given("requestId")),
                 phase |-> Null, progress |-> Null, progressKnown |-> False,
                 ownerId |-> given("ownerId"), ownerKind |-> given("ownerKind"),
                 tenantId |-> given("tenantId"), idempotencyKey |-> given("idempotencyKey"),
                 actor |-> orNull(given("actor")), actorRole |-> orNull(given("actorRole")),
                 actorSource |-> orNull(given("actorSource")),
                 artefacts |-> Or(given("artefacts"), Obj(EmptyList)),
                 audio_cleanup_pending |-> False, audio_cleanup_attempts |-> Num(0),
                 status |-> Str("queued"), result |-> Null,
                 error |-> Null, error_code |-> Null, error_message |-> Null,
                 attempt_count |-> Num(0), created_at |-> Str(now), started_at |-> Null,
                 completed_at |-> Null, version |-> Num(1), createdAt |-> Str(now),
                 updatedAt |-> Str(now)]
    IN  normalizeJob(born)

-----------------------------------------------------------------------------
(* Owners. *)

OWNER_KIND == {"user", "api-key", "unowned"}

normalizeOwnerId(v) == IF v = Null THEN EmptyText ELSE v.of

assertOwnerIdentity(identity) ==
    LET hasId == ~Falsy(identity.ownerId)
    IN  /\ identity.ownerKind \in {Str(k) : k \in OWNER_KIND}
        /\ hasId <=> identity.ownerKind = Str("user")

\* A record without an owner kind is no one's.
matchesOwner(job, scope) ==
    /\ Get(job, "ownerKind") # Null
    /\ Get(job, "ownerKind") = scope.ownerKind
    /\ normalizeOwnerId(Get(job, "ownerId")) = normalizeOwnerId(scope.ownerId)

metaduomenuProjekcija(job) == [f \in DOMAIN job \ {"result"} |-> job[f]]

hasPendingCleanup(job) == True \in {Get(job, "audio_cleanup_pending"), Get(job, "deletion_pending")}

-----------------------------------------------------------------------------
(* A change of a record. *)

\* Kept as they are; one the record does not have may still be added by a patch,
\* but for the schema version.
KEPT == {"id", "ownerId", "ownerKind", "schemaVersion", "tenantId", "idempotencyKey", "created_at",
         "createdAt"}

TerminalStatus == {Str("completed"), Str("failed"), Str("cancelled")}

Starts(job, patch) == Get(patch, "status") = Str("processing") /\ Falsy(Get(job, "started_at"))

Completes(job, patch) == Get(patch, "status") \in TerminalStatus /\ Falsy(Get(job, "completed_at"))

applyPatch(job, patch, now) ==
    LET has(f) == f \in DOMAIN patch
        stamped == (IF Starts(job, patch) THEN {"started_at"} ELSE {})
                   \cup (IF Completes(job, patch) THEN {"completed_at"} ELSE {})
        copied == (IF has("error") /\ ~has("error_message") THEN {"error_message"} ELSE {})
                  \cup (IF has("error_message") /\ ~has("error") THEN {"error"} ELSE {})
        fields == (DOMAIN job \cup DOMAIN patch \cup {"id", "updatedAt", "version"} \cup stamped \cup copied)
                  \ (IF "schemaVersion" \in DOMAIN job THEN {} ELSE {"schemaVersion"})
    IN  normalizeJob(
            [f \in fields |->
                CASE f \in KEPT \cap DOMAIN job      -> job[f]
                  [] f \in {"updatedAt"} \cup stamped -> Str(now)
                  [] f = "version"                   -> Num(Or(Get(job, "version"), Num(0)).of + 1)
                  [] f \in copied                    ->
                        IF f = "error" THEN patch["error_message"] ELSE patch["error"]
                  [] OTHER                           -> IF has(f) THEN patch[f] ELSE job[f]])

-----------------------------------------------------------------------------
(* Redis: every field is a text of a hash. *)

serialize(job) ==
    [f \in DOMAIN job |->
        CASE job[f] = Null -> EmptyText
          [] job[f] # Null /\ (f \in JSON_FIELDS \/ job[f].type = "object") -> Json[job[f].of]
          [] OTHER -> Text[job[f]]]

\* What an update writes: the script that compares the version sets it.
serializeBeVersijos(job) == [f \in DOMAIN job \ {"version"} |-> serialize(job)[f]]

deserialize(flat) ==
    [f \in DOMAIN flat |->
        CASE flat[f] = EmptyText \/ (f \in JSON_FIELDS /\ flat[f] \notin DOMAIN ParseJson) -> Null
          [] flat[f] # EmptyText /\ f \in JSON_FIELDS /\ flat[f] \in DOMAIN ParseJson ->
                Obj(ParseJson[flat[f]])
          [] OTHER -> normalizeFieldValue(f, Str(flat[f]))]

=============================================================================
