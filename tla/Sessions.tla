------------------------------ MODULE Sessions ------------------------------
(***************************************************************************)
(* Sessions of the API (utils/sessionStore, middleware/sessionAuth.js,     *)
(* authenticate.js, routes/auth.js) and the blocking audit write of a      *)
(* login (utils/auditWrite.js): several replicas that share a PostgreSQL   *)
(* table, or one process that keeps its sessions in memory.  Every replica *)
(* has the AUTH_USERS it was started with, reconciles the table with it    *)
(* before it serves, and is restarted in place.                            *)
(*                                                                         *)
(* An action is the code between two awaits.  A user is a stable id: names *)
(* are resolved from AUTH_USERS for display only.  Refused logins leave no *)
(* session and are not modelled.                                           *)
(***************************************************************************)
EXTENDS Naturals, FiniteSets

CONSTANTS
    Replicas,
    Tokens,     \* sessions; the order of the numbers is that of their random ids
    Requests,
    Ids,        \* user ids
    Roles,
    NoRole,     \* a user AUTH_USERS does not name
    Configs,    \* AUTH_USERS: user id -> role
    Backends,
    Solo,       \* the only replica when sessions are kept in memory
    Absolute, Idle,   \* the two time limits of a session
    Batch,      \* rows one step of reconcile() reads
    MaxNow, MaxStarts \* bounds

ASSUME SessionConstants ==
    /\ Tokens \subseteq Nat \ {0} /\ NoRole \notin Roles
    /\ Configs \subseteq [Ids -> Roles \cup {NoRole}]
    /\ Backends \subseteq {"memory", "postgres"} /\ Solo \in Replicas
    /\ Absolute \in Nat \ {0} /\ Idle \in Nat \ {0} /\ Batch \in Nat \ {0}
    /\ MaxNow \in Nat /\ MaxStarts \in Nat

VARIABLES
    backend,
    now,      \* clock of the session store
    starts,   \* restarts so far (bound)
    proc,     \* proc[r]: the process of replica r: its users and how far it has started
    row,      \* row[t]: the session
    login,    \* login[t]: the POST /auth/login that creates session t
    audited,  \* sessions with a LOGIN_SUCCESS row
    given,    \* sessions whose token has left the server in a cookie
    ended,    \* sessions that a logout has destroyed
    req       \* req[q]: the requests of one client, one after another, with a session cookie

vars == <<backend, now, starts, proc, row, login, audited, given, ended, req>>
reqVars == <<audited, given, ended, req>>

RowStates == {"none", "live", "revoked", "gone"}
Row == [is : RowStates, id : Ids, role : Roles \cup {NoRole}, expires : Nat, idle : Nat]
Process == [at : {"down", "reading", "revoking", "serving"}, users : Configs,
            cursor : Nat, more : BOOLEAN, doomed : SUBSET Tokens]
LoginCall == [at : {"idle", "audit", "undo", "done", "refused"}, on : Replicas, landing : BOOLEAN]
Request == [at : {"idle", "touch", "identify", "accepted"}, token : Tokens, on : Replicas,
            late : BOOLEAN]

TypeOK ==
    /\ backend \in Backends /\ now \in Nat /\ starts \in Nat
    /\ proc \in [Replicas -> Process] /\ row \in [Tokens -> Row]
    /\ login \in [Tokens -> LoginCall] /\ req \in [Requests -> Request]
    /\ audited \subseteq Tokens /\ given \subseteq Tokens /\ ended \subseteq Tokens

Deployed == IF backend = "memory" THEN {Solo} ELSE Replicas

\* Where the conditions of touch() and reconcile() look at the clock.
Unexpired(t) == now < row[t].expires
Usable(t) == row[t].is = "live" /\ Unexpired(t) /\ now < row[t].idle

\* patrikrintiTapatybe(): the role of the session is the one its user has now.
Identified(t, users) == users[row[t].id] = row[t].role

Init ==
    /\ backend \in Backends /\ now = 0 /\ starts = 0
    /\ \E c \in Configs : proc = [r \in Replicas |->
           [at |-> IF r \in Deployed THEN "serving" ELSE "down", users |-> c,
            cursor |-> 0, more |-> FALSE, doomed |-> {}]]
    /\ \E i \in Ids : row = [t \in Tokens |->
           [is |-> "none", id |-> i, role |-> NoRole, expires |-> 0, idle |-> 0]]
    /\ login = [t \in Tokens |-> [at |-> "idle", on |-> Solo, landing |-> FALSE]]
    /\ audited = {} /\ given = {} /\ ended = {}
    /\ \E t \in Tokens : req = [q \in Requests |->
           [at |-> "idle", token |-> t, on |-> Solo, late |-> FALSE]]

-----------------------------------------------------------------------------
(* The life of a process: it starts, reconciles the table in batches, and  *)
(* serves only then.  It may stop or die at any step.                      *)

Serving(r) == proc[r].at = "serving"

\* 401 or 503: the request is over, and the next one may come.
Refused(q) == [req[q] EXCEPT !.at = "idle", !.on = Solo, !.late = FALSE]

Deleted(t) == [row[t] EXCEPT !.is = "gone", !.expires = 0, !.idle = 0]

Revoke(dead) == row' = [t \in Tokens |->
                          IF t \in dead /\ row[t].is = "live" THEN [row[t] EXCEPT !.is = "revoked"]
                          ELSE row[t]]

\* What the process did is abandoned with it; sessions in memory are lost.
Stop(r) ==
    /\ proc[r].at # "down"
    /\ proc' = [proc EXCEPT ![r] = [@ EXCEPT !.at = "down", !.cursor = 0, !.more = FALSE, !.doomed = {}]]
    /\ login' = [t \in Tokens |-> IF login[t].on = r /\ login[t].at \in {"audit", "undo"}
                                  THEN [login[t] EXCEPT !.at = "refused", !.on = Solo] ELSE login[t]]
    /\ req' = [q \in Requests |-> IF req[q].on = r /\ req[q].at \in {"touch", "identify"}
                                  THEN Refused(q) ELSE req[q]]
    /\ row' = [t \in Tokens |-> IF backend = "memory" /\ row[t].is # "none"
                                THEN Deleted(t) ELSE row[t]]
    /\ UNCHANGED <<backend, now, starts, audited, given, ended>>

Start(r) ==
    /\ proc[r].at = "down" /\ r \in Deployed /\ starts < MaxStarts
    /\ \E c \in Configs :
         proc' = [proc EXCEPT ![r] = [at |-> IF backend = "memory" THEN "serving" ELSE "reading",
                                      users |-> c, cursor |-> 0, more |-> FALSE, doomed |-> {}]]
    /\ starts' = starts + 1
    /\ UNCHANGED <<backend, now, row, login, audited, given, ended, req>>

Ahead(r) == {t \in Tokens : row[t].is = "live" /\ Unexpired(t) /\ t > proc[r].cursor}

\* One page of reconcile(): all that is left, or the first Batch rows.
PageUpTo(r, last) == {t \in Ahead(r) : t <= last}

\* Mutant: the first page is taken for the whole table.
ReconcileRead_OnePage(r) ==
    /\ proc[r].at = "reading"
    /\ \/ /\ Cardinality(Ahead(r)) < Batch
          /\ proc' = [proc EXCEPT ![r].at = "revoking", ![r].more = FALSE,
                        ![r].doomed = {t \in Ahead(r) : ~ Identified(t, proc[r].users)}]
       \/ \E last \in Ahead(r) :
            /\ Cardinality(PageUpTo(r, last)) = Batch
            /\ proc' = [proc EXCEPT ![r].at = "revoking", ![r].more = FALSE, ![r].cursor = last,
                          ![r].doomed = {t \in PageUpTo(r, last) : ~ Identified(t, proc[r].users)}]
    /\ UNCHANGED <<backend, now, starts, row, login, reqVars>>

ReconcileRead(r) ==
    /\ proc[r].at = "reading"
    /\ \/ /\ Cardinality(Ahead(r)) < Batch
          /\ proc' = [proc EXCEPT ![r].at = "revoking", ![r].more = FALSE,
                        ![r].doomed = {t \in Ahead(r) : ~ Identified(t, proc[r].users)}]
       \/ \E last \in Ahead(r) :
            /\ Cardinality(PageUpTo(r, last)) = Batch
            /\ proc' = [proc EXCEPT ![r].at = "revoking", ![r].more = TRUE, ![r].cursor = last,
                          ![r].doomed = {t \in PageUpTo(r, last) : ~ Identified(t, proc[r].users)}]
    /\ UNCHANGED <<backend, now, starts, row, login, reqVars>>

ReconcileRevoke(r) ==
    /\ proc[r].at = "revoking"
    /\ Revoke(proc[r].doomed)
    /\ proc' = [proc EXCEPT ![r].at = IF proc[r].more THEN "reading" ELSE "serving",
                            ![r].doomed = {}, ![r].cursor = IF proc[r].more THEN @ ELSE 0]
    /\ UNCHANGED <<backend, now, starts, login, reqVars>>

-----------------------------------------------------------------------------
(* POST /auth/login: the credentials and the row, the audit record, the    *)
(* cookie; without the record the session is revoked again.                *)

NewRow(id, users) == [is |-> "live", id |-> id, role |-> users[id],
                      expires |-> now + Absolute, idle |-> now + Idle]

\* The store may answer with an error although the row was written.
Login(t, r, id) ==
    /\ Serving(r) /\ row[t].is = "none" /\ login[t].at = "idle"
    /\ proc[r].users[id] # NoRole
    /\ row' = [row EXCEPT ![t] = NewRow(id, proc[r].users)]
    /\ \E step \in {"audit", "refused"} : login' = [login EXCEPT ![t].at = step, ![t].on = r]
    /\ UNCHANGED <<backend, now, starts, proc, reqVars>>

LoginAudited(t) ==
    /\ login[t].at = "audit"
    /\ audited' = audited \cup {t}
    /\ given' = given \cup {t}
    /\ login' = [login EXCEPT ![t].at = "done", ![t].on = Solo]
    /\ UNCHANGED <<backend, now, starts, proc, row, ended, req>>

\* The write fails, or is given up by its time limit and may still land.
\* Mutant: the failure of the record does not stop the login.
LoginAuditFails_Unnoticed(t) ==
    /\ login[t].at = "audit"
    /\ given' = given \cup {t}
    /\ login' = [login EXCEPT ![t].at = "done", ![t].on = Solo]
    /\ UNCHANGED <<backend, now, starts, proc, row, audited, ended, req>>

LoginAuditFails(t) ==
    /\ login[t].at = "audit"
    /\ \E late \in BOOLEAN : login' = [login EXCEPT ![t].at = "undo", ![t].landing = late]
    /\ UNCHANGED <<backend, now, starts, proc, row, reqVars>>

AuditLands(t) ==
    /\ login[t].landing
    /\ audited' = audited \cup {t}
    /\ login' = [login EXCEPT ![t].landing = FALSE]
    /\ UNCHANGED <<backend, now, starts, proc, row, given, ended, req>>

\* destroy(); when it fails too, the session stays and nobody has its token.
LoginUndo(t) ==
    /\ login[t].at = "undo"
    /\ login' = [login EXCEPT ![t].at = "refused", ![t].on = Solo]
    /\ Revoke({t}) \/ UNCHANGED row
    /\ UNCHANGED <<backend, now, starts, proc, reqVars>>

-----------------------------------------------------------------------------
(* POST /auth/logout.  Its audit record comes after the fact.              *)
Logout(t, r) ==
    /\ t \in given /\ Serving(r)
    /\ Revoke({t})
    /\ ended' = ended \cup {t}
    /\ UNCHANGED <<backend, now, starts, proc, login, audited, given, req>>

(* The sweep of every process: what has expired goes; a revoked row stays  *)
(* until its absolute time, so that the revocation cannot be forgotten.    *)
Outlived ==
    {t \in Tokens : \/ row[t].is \in {"live", "revoked"} /\ ~ Unexpired(t)
                    \/ row[t].is = "live" /\ now >= row[t].idle}

Sweep(r) ==
    /\ proc[r].at # "down" /\ Outlived # {}
    /\ row' = [t \in Tokens |-> IF t \in Outlived THEN Deleted(t) ELSE row[t]]
    /\ UNCHANGED <<backend, now, starts, proc, login, reqVars>>

-----------------------------------------------------------------------------
(* A request with a cookie: authenticate() or requireSession().            *)

Begin(q, t, r) ==
    /\ req[q].at \in {"idle", "accepted"} /\ t \in given /\ Serving(r)
    /\ req' = [req EXCEPT ![q] = [at |-> "touch", token |-> t, on |-> r,
                                  late |-> ~ Usable(t) \/ t \in ended]]
    /\ UNCHANGED <<backend, now, starts, proc, row, login, audited, given, ended>>

\* touch(): the conditions and the new idle time are one statement.
\* Mutant: the revocation is not among the conditions.
Touched_Revoked(t) == row[t].is \in {"live", "revoked"} /\ Unexpired(t) /\ now < row[t].idle

Touched(t) == Usable(t)

Touch(q) ==
    LET t == req[q].token IN
    /\ req[q].at = "touch"
    /\ IF Touched(t)
       THEN /\ row' = [row EXCEPT ![t].idle = now + Idle]
            /\ req' = [req EXCEPT ![q].at = "identify"]
       ELSE /\ req' = [req EXCEPT ![q] = Refused(q)]
            /\ UNCHANGED row
    /\ UNCHANGED <<backend, now, starts, proc, login, audited, given, ended>>

\* The row is compared with AUTH_USERS; a mismatch revokes it in a second query.
\* (In memory there is no await in between, and never a mismatch.)
Identify(q) ==
    LET t == req[q].token
        users == proc[req[q].on].users IN
    /\ req[q].at = "identify"
    /\ IF Identified(t, users)
       THEN /\ req' = [req EXCEPT ![q].at = "accepted"]
            /\ UNCHANGED row
       ELSE /\ req' = [req EXCEPT ![q] = Refused(q)]
            /\ Revoke({t})
    /\ UNCHANGED <<backend, now, starts, proc, login, audited, given, ended>>

\* The store does not answer: 503, whatever the statement did.
TouchFails(q) ==
    /\ req[q].at \in {"touch", "identify"}
    /\ req' = [req EXCEPT ![q] = Refused(q)]
    /\ UNCHANGED <<backend, now, starts, proc, row, login, audited, given, ended>>

Tick ==
    /\ now < MaxNow
    /\ now' = now + 1
    /\ UNCHANGED <<backend, starts, proc, row, login, reqVars>>

Next ==
    \/ \E r \in Replicas : Stop(r) \/ Start(r) \/ ReconcileRead(r) \/ ReconcileRevoke(r) \/ Sweep(r)
    \/ \E t \in Tokens, r \in Replicas : Logout(t, r) \/ (\E id \in Ids : Login(t, r, id))
    \/ \E t \in Tokens : LoginAudited(t) \/ LoginAuditFails(t) \/ AuditLands(t) \/ LoginUndo(t)
    \/ \E q \in Requests : \/ \E t \in Tokens, r \in Replicas : Begin(q, t, r)
                           \/ Touch(q) \/ Identify(q) \/ TouchFails(q)
    \/ Tick

Spec == Init /\ [][Next]_vars

-----------------------------------------------------------------------------
(* A request that comes after the session was logged out, was revoked, has *)
(* expired or has been idle for too long is refused, by every replica and  *)
(* whatever else touches the session meanwhile (postgresStore.js:167-180). *)
DeadIsRefused == \A q \in Requests : req[q].at = "accepted" => ~ req[q].late

(* Nobody acts through a session whose login is not on record              *)
(* (routes/auth.js:145-184), however the record and its undoing fail.      *)
AcceptedIsAudited == \A q \in Requests : req[q].at = "accepted" => req[q].token \in audited

(* When every replica has been restarted with the same users, no session   *)
(* is left of a user or a role that they took away: a session that was     *)
(* opened at a replica still running with the old users while another one  *)
(* was reconciling is found as well (postgresStore.js:319-337).            *)
RolloutLeavesNone ==
    \A c \in Configs :
        (\A r \in Deployed : Serving(r) /\ proc[r].users = c) =>
            \A t \in Tokens : row[t].is = "live" /\ Unexpired(t) => Identified(t, c)
=============================================================================
