------------------------------- MODULE StartUp -------------------------------
(***************************************************************************)
(* How the processes of one deployment start: the API servers              *)
(* (startServer of server.js) and the queue workers (initializeWorkerOrFail *)
(* of workers/index.js).  Each chooses where jobs, sessions, audit and      *)
(* erasure marks live from the same environment, by itself, while the      *)
(* services it depends on come and go; a start that fails ends the process *)
(* and a supervisor starts it again.                                       *)
(***************************************************************************)
EXTENDS Naturals

CONSTANTS
    Servers, Workers,
    Configs,      \* the environments a deployment may have
    MaxFaults     \* bound: faults of the services and crashes of the processes

Processes == Servers \cup Workers

(* The environment: JOB_STORE_BACKEND, REDIS_URL, a PostgreSQL connection, *)
(* REDIS_REQUIRED, PERSISTENT_STORAGE, SESSION_STORE_BACKEND and           *)
(* AUDIT_BACKEND.                                                          *)
DeploymentEnvironments ==
    [backend : {"unset", "memory", "redis", "postgres"}, redisUrl : BOOLEAN, postgres : BOOLEAN,
     required : BOOLEAN, storage : {"unset", "off", "on"},
     sessions : {"memory", "postgres"}, audit : {"memory", "postgres"}]

ASSUME ConfigsAssumption == Configs \subseteq DeploymentEnvironments
ASSUME ProcessesAssumption == Servers \cap Workers = {} /\ MaxFaults \in Nat

(* schema: the migrations have been run.  artifacts: every storage type in *)
(* the database has its store configured.                                  *)
Services == {"redis", "postgres", "schema", "artifacts"}

VARIABLES
    conf,     \* the environment
    up,       \* the services that answer
    faults,   \* faults so far
    at,       \* at[p]: the step of its start, "down" or "serving"
    store,    \* store[p]: where p keeps jobs
    marks,    \* marks[p]: where p keeps erasure marks
    mode      \* mode[p]: "bullmq" or "inline"; "none" while undecided

vars == <<conf, up, faults, at, store, marks, mode>>

ServerSteps == {"config", "jobs", "sessions", "reconcile", "audit", "marks", "runner"}
WorkerSteps == {"config", "jobs", "audit", "marks", "check"}

TypeOK ==
    /\ conf \in Configs /\ up \subseteq Services /\ faults \in 0 .. MaxFaults
    /\ at \in [Processes -> ServerSteps \cup WorkerSteps \cup {"down", "serving"}]
    /\ store \in [Processes -> {"memory", "redis", "postgres"}]
    /\ marks \in [Processes -> {"memory", "postgres"}]
    /\ mode \in [Processes -> {"none", "inline", "bullmq"}]

Init ==
    /\ conf \in Configs /\ up \in SUBSET Services /\ faults = 0
    /\ at = [p \in Processes |-> "down"]
    /\ store = [p \in Processes |-> "memory"]
    /\ marks = [p \in Processes |-> "memory"]
    /\ mode = [p \in Processes |-> "none"]

-----------------------------------------------------------------------------
(* The choice of the job store (backendSelection.js).                      *)

\* mutant: PostgreSQL is not a backend the workers share
SHARED_BACKENDS_RedisOnly == {"redis"}

SHARED_BACKENDS == {"redis", "postgres"}

ContradictoryChoice ==
    \/ conf.backend = "redis" /\ ~ conf.redisUrl
    \/ conf.backend = "postgres" /\ ~ conf.postgres
    \/ conf.backend = "memory" /\ conf.required

norimas ==
    IF conf.backend # "unset" THEN conf.backend ELSE IF conf.redisUrl THEN "redis" ELSE "memory"

canUseQueue(backend) == conf.redisUrl /\ backend \in SHARED_BACKENDS

(* PERSISTENT_STORAGE against what was chosen.                             *)
ContradictoryPrivacy ==
    \/ conf.storage = "off" /\ (norimas \in SHARED_BACKENDS \/ conf.required)
    \/ conf.storage = "on" /\ norimas \notin SHARED_BACKENDS

(* What validateConfig() and initPrivacyPolicy() refuse.                   *)
Refused ==
    \/ ContradictoryChoice \/ ContradictoryPrivacy
    \/ ~ conf.postgres /\ (conf.sessions = "postgres" \/ conf.audit = "postgres")

Database == {"postgres", "schema"} \subseteq up

-----------------------------------------------------------------------------
(* One step of a start.                                                    *)

Goto(p, step) == at' = [at EXCEPT ![p] = step]
OnlyAt == UNCHANGED <<conf, up, faults, store, marks, mode>>

(* The process ends; nothing it decided survives.                          *)
Exit(p) ==
    /\ Goto(p, "down")
    /\ store' = [store EXCEPT ![p] = "memory"]
    /\ marks' = [marks EXCEPT ![p] = "memory"]
    /\ mode' = [mode EXCEPT ![p] = "none"]
    /\ UNCHANGED <<conf, up, faults>>

Launch(p) ==
    /\ at[p] = "down"
    /\ Goto(p, "config")
    /\ OnlyAt

(* A server validates the environment; a worker only asks for Redis.       *)
CheckConfig(p) ==
    /\ at[p] = "config"
    /\ IF (p \in Servers /\ Refused) \/ (p \in Workers /\ ~ conf.redisUrl)
       THEN Exit(p)
       ELSE Goto(p, "jobs") /\ OnlyAt

Keep(p, backend) ==
    /\ store' = [store EXCEPT ![p] = backend]
    /\ Goto(p, IF p \in Servers THEN "sessions" ELSE "audit")
    /\ UNCHANGED <<conf, up, faults, marks, mode>>

(* initializeStore(): without persistence nothing else is looked at.       *)
KeepNothing(p) ==
    /\ at[p] = "jobs" /\ conf.storage = "off"
    /\ Keep(p, "memory")

NoChoice(p) ==
    /\ at[p] = "jobs" /\ conf.storage # "off" /\ ContradictoryChoice
    /\ Exit(p)

Chosen(p, backend) ==
    at[p] = "jobs" /\ conf.storage # "off" /\ ~ ContradictoryChoice /\ norimas = backend

KeepInMemory(p) == Chosen(p, "memory") /\ Keep(p, "memory")

\* mutant: the fallback without a look at REDIS_REQUIRED
KeepInRedis_AlwaysFallsBack(p) ==
    /\ Chosen(p, "redis")
    /\ Keep(p, IF "redis" \in up THEN "redis" ELSE "memory")

KeepInRedis(p) ==
    /\ Chosen(p, "redis")
    /\ IF "redis" \in up THEN Keep(p, "redis")
       ELSE IF conf.required THEN Exit(p) ELSE Keep(p, "memory")

(* initializePostgres() never falls back.  When the types in the database  *)
(* cannot be looked up (nezinoma), the start goes on.                      *)
KeepInPostgres(p) ==
    /\ Chosen(p, "postgres")
    /\ \/ Database /\ Keep(p, "postgres")
       \/ (~ Database \/ "artifacts" \notin up) /\ Exit(p)

(* The other authorities are where the environment says or nowhere.        *)
Authority(p, step, inDatabase, next) ==
    /\ at[p] = step
    /\ IF inDatabase /\ ~ Database THEN Exit(p) ELSE Goto(p, next) /\ OnlyAt

Sessions(p) == Authority(p, "sessions", conf.sessions = "postgres", "reconcile")
Reconcile(p) == Authority(p, "reconcile", conf.sessions = "postgres", "audit")

Audit(p) ==
    /\ at[p] = "audit"
    /\ IF conf.audit = "postgres" /\ ~ (conf.postgres /\ Database)
       THEN Exit(p) ELSE Goto(p, "marks") /\ OnlyAt

(* Marks are in the database wherever there is one, whatever keeps jobs.   *)
Marks(p) ==
    /\ at[p] = "marks"
    /\ IF conf.postgres /\ ~ Database THEN Exit(p)
       ELSE /\ marks' = [marks EXCEPT ![p] = IF conf.postgres THEN "postgres" ELSE "memory"]
            /\ Goto(p, IF p \in Servers THEN "runner" ELSE "check")
            /\ UNCHANGED <<conf, up, faults, store, mode>>

Serve(p, how) ==
    /\ mode' = [mode EXCEPT ![p] = how]
    /\ Goto(p, "serving")
    /\ UNCHANGED <<conf, up, faults, store, marks>>

(* jobRunner.init(), with the preflight of the queue; the mode stays for   *)
(* the life of the process.  Then the server listens.                      *)
Runner(p) ==
    /\ at[p] = "runner"
    /\ IF ~ canUseQueue(store[p]) THEN Serve(p, "inline")
       ELSE IF "redis" \in up THEN Serve(p, "bullmq")
       ELSE IF conf.required THEN Exit(p) ELSE Serve(p, "inline")

(* A worker without a store that the servers share ends.                   *)
Check(p) ==
    /\ at[p] = "check"
    /\ IF canUseQueue(store[p]) THEN Serve(p, "bullmq") ELSE Exit(p)

Step(p) ==
    \/ Launch(p) \/ CheckConfig(p)
    \/ KeepNothing(p) \/ NoChoice(p) \/ KeepInMemory(p) \/ KeepInRedis(p) \/ KeepInPostgres(p)
    \/ Sessions(p) \/ Reconcile(p) \/ Audit(p) \/ Marks(p) \/ Runner(p) \/ Check(p)

-----------------------------------------------------------------------------
(* The surroundings.                                                       *)

Fault ==
    /\ faults < MaxFaults /\ faults' = faults + 1
    /\ \E s \in up : up' = up \ {s}
    /\ UNCHANGED <<conf, at, store, marks, mode>>

Recover(s) ==
    /\ s \notin up /\ up' = up \cup {s}
    /\ UNCHANGED <<conf, faults, at, store, marks, mode>>

Crash(p) ==
    /\ at[p] # "down" /\ faults < MaxFaults
    /\ faults' = faults + 1
    /\ Goto(p, "down")
    /\ store' = [store EXCEPT ![p] = "memory"]
    /\ marks' = [marks EXCEPT ![p] = "memory"]
    /\ mode' = [mode EXCEPT ![p] = "none"]
    /\ UNCHANGED <<conf, up>>

Next ==
    \/ Fault
    \/ \E s \in Services : Recover(s)
    \/ \E p \in Processes : Step(p) \/ Crash(p)

(* The supervisor restarts a process, a process carries its start through, *)
(* and a service that is down is repaired.                                 *)
Fairness ==
    /\ \A p \in Processes : WF_vars(Step(p))
    /\ \A s \in Services : WF_vars(Recover(s))

Spec == Init /\ [][Next]_vars /\ Fairness

-----------------------------------------------------------------------------
Serving(p) == at[p] = "serving"

(* Processes that share a queue keep jobs in one store they share; with    *)
(* REDIS_REQUIRED and a Redis to require nobody serves from memory; and    *)
(* where records are in PostgreSQL the marks that bar an erased job are    *)
(* there too, whatever was down when each process started.                 *)
AuthoritiesAgree ==
    /\ \A p, q \in Processes :
          (Serving(p) /\ Serving(q) /\ mode[p] = "bullmq" /\ mode[q] = "bullmq") =>
              store[p] \in {"redis", "postgres"} /\ store[p] = store[q]
    /\ \A p \in Processes : Serving(p) =>
          /\ conf.required /\ conf.redisUrl => store[p] # "memory"
          /\ store[p] = "postgres" => marks[p] = "postgres"

(* Where a process of this deployment may run at all.                      *)
Startable(p) ==
    IF p \in Servers THEN ~ Refused
    ELSE /\ conf.redisUrl /\ conf.storage # "off"
         /\ ~ ContradictoryChoice /\ norimas \in {"redis", "postgres"}
         /\ conf.audit = "postgres" => conf.postgres

(* Once faults have ceased every process that may run serves, however its  *)
(* starts failed before; and it stays up.                                  *)
EverybodyServes == \A p \in Processes : <>[](Startable(p) => Serving(p))
=============================================================================
