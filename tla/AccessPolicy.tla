---------------------------- MODULE AccessPolicy ----------------------------
(***************************************************************************)
(* Who may do what with a job: from the credentials of a request, through  *)
(* the role and the ownership scope they give, to the answer of the routes *)
(* of jobs and exports, and again when a queued job is about to run.  All  *)
(* of it is decided afresh on every request, from the configuration of the *)
(* process at that moment; a record is written under one configuration and *)
(* asked for under another.  The definitions are decisions without state;  *)
(* OwnedRecord has the interleavings of the operations they guard.         *)
(***************************************************************************)
EXTENDS Naturals, Sequences

CONSTANTS
    UserIds,      \* the stable identifiers of AUTH_USERS
    Names,        \* the names they log in with
    NoOne,        \* no identifier
    NoJob,        \* the store has no record of the id
    Malformed     \* an entry of AUTH_USERS that parseUserEntry() rejects

Role == {"operator", "administrator"}

\* No role: an unknown API_KEY_ROLE, a user who is no longer listed.
NotARole == "none"

Permission == {"job:create", "job:read", "job:delete", "protocol:generate", "export:redacted",
               "export:original", "audit:read", "backup:create", "backup:restore"}

Granted == [operator |-> {"job:create", "job:read", "protocol:generate", "export:redacted"},
            administrator |-> Permission]

HasPermission(role, permission) == role \in Role /\ permission \in Granted[role]

-----------------------------------------------------------------------------
(* The configuration of a process. *)

Entry == [name : Names, role : Role, id : UserIds]

\* "blank" is an API_KEY of spaces only: present for the credentials, absent
\* for the scope.  "other" is an API_KEY_ROLE that is no role.
Config == [key : {"none", "blank", "set"}, keyRole : Role \cup {"", "other"},
           listed : BOOLEAN, users : Seq(Entry \cup {Malformed}), production : BOOLEAN]

\* Every use of the list parses all of it, and fails on its first defect.
Consistent(c) ==
    \A i, j \in DOMAIN c.users :
       /\ c.users[i] # Malformed
       /\ i # j => c.users[i].name # c.users[j].name /\ c.users[i].id # c.users[j].id

Users(c) == {c.users[i] : i \in DOMAIN c.users}

UsersById(c, id) == {u \in Users(c) : u.id = id}

UsersByName(c, name) == {u \in Users(c) : u.name = name}

KeyRole(c) ==
    IF c.keyRole = "" THEN "administrator" ELSE IF c.keyRole \in Role THEN c.keyRole ELSE NotARole

-----------------------------------------------------------------------------
(* The credentials of a request. *)

Session == [id : UserIds \cup {NoOne}, name : Names, role : Role]

\* "cookie": it carries a token.  "session": what touch() answers for it, with
\* NoOne for a dead one.  "storeUp": the session store is ready and answers.
\* "keyMatches": the x-api-key header equals the API_KEY of the process.
Credentials == [cookie : BOOLEAN, storeUp : BOOLEAN, session : Session \cup {NoOne},
            keyMatches : BOOLEAN]

StoreDown(q) == q.cookie /\ ~ q.storeUp

BySession(q) == q.cookie /\ q.storeUp /\ q.session # NoOne

\* A dead cookie falls through to the other credentials.
ByKey(c, q) == ~ StoreDown(q) /\ ~ BySession(q) /\ c.key # "none" /\ q.keyMatches

Open(c, q) ==
    /\ ~ StoreDown(q) /\ ~ BySession(q)
    /\ c.key = "none" /\ ~ c.listed /\ ~ c.production

Authenticated(c, q) == BySession(q) \/ ByKey(c, q) \/ Open(c, q)

RefusedWith(c, q) ==
    IF StoreDown(q) \/ (c.key = "none" /\ ~ c.listed) THEN 503 ELSE 401

RoleOf(c, q) == IF BySession(q) THEN q.session.role ELSE KeyRole(c)

Authorized(c, q, permission) == Authenticated(c, q) /\ HasPermission(RoleOf(c, q), permission)

\* What a request without the permission is answered.
DeniedWith(c, q) ==
    IF ~ Authenticated(c, q) THEN RefusedWith(c, q) ELSE IF RoleOf(c, q) = NotARole THEN 401 ELSE 403

-----------------------------------------------------------------------------
(* Ownership. *)

Kinds == {"user", "api-key", "unowned"}

Owner == [kind : Kinds, id : UserIds \cup {NoOne}]

ValidOwner(o) == o.kind \in Kinds /\ (o.kind = "user" <=> o.id # NoOne)

Scope(c, q) ==
    IF BySession(q) /\ q.session.id # NoOne THEN [kind |-> "user", id |-> q.session.id]
    ELSE IF c.key = "set" /\ ~ BySession(q) THEN [kind |-> "api-key", id |-> NoOne]
    ELSE [kind |-> "unowned", id |-> NoOne]

\* What these decisions read of a record.  An old record has no owner kind
\* ("none"), which matches no scope, and no schema (0).
Job == [owner : [kind : Kinds \cup {"none"}, id : UserIds \cup {NoOne}],
        actor : UserIds \cup Names \cup {NoOne}, source : {"session", "api-key", "none", "other"},
        schema : Nat, type : {"protocol", "transcription"},
        status : {"queued", "processing", "completed", "failed", "cancelled"}]

MatchesOwner(job, scope) == job.owner.kind \in Kinds /\ job.owner = scope

\* A session without an identifier creates nothing.
MayCreate(c, q) ==
    Authorized(c, q, "job:create") /\ (BySession(q) => q.session.id # NoOne)

NewJob(c, q, type) ==
    [owner |-> Scope(c, q), actor |-> IF BySession(q) THEN q.session.id ELSE NoOne,
     source |-> IF BySession(q) THEN "session" ELSE "api-key",
     schema |-> 2, type |-> type, status |-> "queued"]

-----------------------------------------------------------------------------
(* Access to one record. *)

Input(job, scope) ==
    IF job = NoJob THEN "missing" ELSE IF MatchesOwner(job, scope) THEN "owned" ELSE "forbidden"

SessionAdmin(scope, role) ==
    scope.kind = "user" /\ scope.id # NoOne /\ role = "administrator"

Operation == {"read", "export", "delete"}

DecideJobAccess(input, scope, role, operation) ==
    LET admin == SessionAdmin(scope, role)
        desktop == scope.kind = "unowned"
    IN  CASE input = "owned" -> "owner_access"
          [] input = "forbidden" /\ ~ admin -> "not_found"
          [] input = "forbidden" /\ admin ->
                IF operation = "delete" THEN "admin_delete_override" ELSE "denied"
          [] input = "missing" /\ ~ admin /\ ~ desktop -> "not_found"
          [] input = "missing" /\ desktop ->
                IF operation = "delete" THEN "desktop_orphan_cleanup" ELSE "not_found"
          [] input = "missing" /\ admin /\ ~ desktop ->
                IF operation = "delete" THEN "admin_orphan_cleanup" ELSE "denied"

Decision(c, q, job, operation) ==
    DecideJobAccess(Input(job, Scope(c, q)), Scope(c, q), RoleOf(c, q), operation)

DenialStatus(decision) == IF decision = "not_found" THEN 404 ELSE 403

\* GET of a job: shown to its owner, or a status.
Shown(c, q, job) == Authorized(c, q, "job:read") /\ Decision(c, q, job, "read") = "owner_access"

ReadStatus(c, q, job) ==
    CASE ~ Authorized(c, q, "job:read") -> DeniedWith(c, q)
      [] Shown(c, q, job) -> 200
      [] OTHER -> DenialStatus(Decision(c, q, job, "read"))

Finished == {"completed", "failed", "cancelled"}

\* DELETE of a job through the route of one type: what it starts, or a status.
\* The administrator's service checks its actor again, and neither the type nor
\* the status of the record.
Starts(c, q, job, type) ==
    LET decision == Decision(c, q, job, "delete") IN
    CASE ~ Authorized(c, q, "job:delete") -> "refused"
      [] Authorized(c, q, "job:delete") /\ decision \in {"not_found", "denied"} -> "refused"
      [] Authorized(c, q, "job:delete") /\ decision = "owner_access" ->
            IF job.type = type /\ job.status \in Finished THEN "erasure" ELSE "refused"
      [] Authorized(c, q, "job:delete") /\ decision = "admin_delete_override" -> "erasure"
      [] OTHER -> "orphan_cleanup"

\* POST of an export: the variant decides the permission; the job id is only the
\* link of the audit record, which a store error does not stop.
MayExport(c, q, variant) ==
    Authorized(c, q, IF variant = "original" THEN "export:original" ELSE "export:redacted")

LinkState(c, q, asked, job, storeFails) ==
    CASE ~ asked -> "none"
      [] asked /\ storeFails -> "store_error"
      [] asked /\ ~ storeFails /\ Decision(c, q, job, "export") # "owner_access" -> "missing"
      [] OTHER -> IF job.type = "transcription" THEN "job" ELSE "invalid_type"

-----------------------------------------------------------------------------
(* When a queued job is about to run, for the submitter as he is now. *)

\* The users whose role the job runs with: by identifier, or by name for a
\* record of the old schema.
Submitter(c, job) ==
    IF job.schema = 2 THEN UsersById(c, job.actor) ELSE UsersByName(c, job.actor)

CurrentRole(c, job) ==
    IF job.source = "api-key" THEN KeyRole(c)
    ELSE IF job.source = "session" /\ job.actor # NoOne /\ Submitter(c, job) # {}
         THEN (CHOOSE u \in Submitter(c, job) : TRUE).role ELSE NotARole

\* resolveCurrentRole() throws: an unknown schema, a new record whose source is
\* neither a key nor an identified session, a user list with a defect.
Unreadable(c, job) ==
    \/ job.schema \notin {0, 2}
    \/ job.schema = 2 /\ (job.source = "other" \/ (job.source = "session" /\ job.actor = NoOne))
    \/ job.source = "session" /\ job.actor # NoOne /\ ~ Consistent(c)

\* authorizeJobExecution(); a record of the first schema has no source and runs.
Execution(c, job, permission) ==
    LET role == CurrentRole(c, job) IN
    CASE Unreadable(c, job) -> "error"
      [] ~ Unreadable(c, job) /\ job.source = "none" -> "allowed"
      [] OTHER -> IF role = NotARole THEN "actor_unknown"
                  ELSE IF HasPermission(role, permission) THEN "allowed" ELSE "permission_revoked"
=============================================================================
