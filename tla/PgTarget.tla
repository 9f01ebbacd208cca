------------------------------ MODULE PgTarget ------------------------------
(***************************************************************************)
(* Which database a connection reaches (pgConnection.js), asked three      *)
(* times about one environment: by the pools of the stores, by the check   *)
(* that the dumped database is the one that keeps the erasure marks, and   *)
(* by pg_dump, a child process that runs without any PG* variable          *)
(* (pgDumpBackup.js).  There is no state.                                  *)
(*                                                                         *)
(* A connection string is what pg-connection-string makes of it.  PGSERVICE*)
(* stands for every variable only libpq reads, PG_POOL_MAX for those of    *)
(* the application itself.  The driver and libpq are external: each takes  *)
(* a value given to it, else its variable, else a default.                 *)
(***************************************************************************)
EXTENDS Naturals

CONSTANTS
    Words,        \* values of variables and of the parts of a connection string
    Blank,        \* the empty text
    Unset,        \* undefined
    NaN,
    Defaults,     \* the driver's value of each field, "user" being the system's
    SocketPaths,  \* texts that start with "/"
    ConnInfo,     \* texts with a "=" or with the scheme postgres://
    Trim,         \* trim() of each text
    LowerCase,    \* toLowerCase()
    NumberOf,     \* Number()
    Read          \* what the driver makes of the text of PGPORT and of PGSSLMODE

Given(v) == v \notin {Unset, Blank, NaN, 0}

-----------------------------------------------------------------------------
(* The environment of a process and the settings of a connection. *)

Parameters ==
    {"host", "port", "database", "user", "password", "ssl", "sslnegotiation", "options",
     "replication", "application_name", "connect_timeout", "binary", "client_encoding"}

VariableOf ==
    [host |-> "PGHOST", port |-> "PGPORT", database |-> "PGDATABASE", user |-> "PGUSER",
     password |-> "PGPASSWORD", ssl |-> "PGSSLMODE", sslnegotiation |-> "PGSSLNEGOTIATION",
     options |-> "PGOPTIONS", replication |-> "PGREPLICATION",
     application_name |-> "PGAPPNAME", connect_timeout |-> "PGCONNECT_TIMEOUT",
     binary |-> "PGBINARY", client_encoding |-> "PGCLIENT_ENCODING"]

Variables == {VariableOf[f] : f \in Parameters} \cup {"PGPASSFILE", "PGSERVICE", "PG_POOL_MAX"}

\* The variables the application reads, by the field each one fills.
PG_ATITIKMENYS == {"host", "port", "user", "password", "database"}

Ports == Nat \cup {NaN}

Settings == [Parameters -> Words \cup Ports \cup {Unset}]

Malformed == [f \in Parameters |-> NaN]

\* "url" is a connection string, "fields" are settings one by one.
Target == [kind : {"url", "fields"}, settings : Settings]

Environments == [url : Settings \cup {Unset}, pg : [Variables -> Words \cup {Unset}]]

\* DATABASE_URL, or PGHOST.
arNurodytaPostgres(env) == env.url # Unset \/ Given(env.pg["PGHOST"])

\* What a child process is given.
libpqSvariAplinka(env) == [env EXCEPT !.pg = [v \in Variables |-> Unset]]

-----------------------------------------------------------------------------
(* The driver's parameters: external. *)

FromEnvironment(f, env) ==
    IF f \in {"port", "ssl"} THEN Read[f][env.pg[VariableOf[f]]] ELSE env.pg[VariableOf[f]]

val(f, settings, env) ==
    IF Given(settings[f]) THEN settings[f]
    ELSE IF Given(env.pg[VariableOf[f]]) THEN FromEnvironment(f, env) ELSE Defaults[f]

\* A database without a name has that of the user.
ConnectionParameters(settings, env) ==
    [f \in Parameters |->
        IF f = "database" /\ val("database", settings, env) = Unset
        THEN val("user", settings, env)
        ELSE val(f, settings, env)]

Parses(settings) == settings # Malformed

normalizuotiHosta(host) ==
    IF Trim[host] \in SocketPaths THEN Trim[host] ELSE LowerCase[Trim[host]]

-----------------------------------------------------------------------------
(* An environment that gives a connection string and also variables that   *)
(* change what it means is refused, at every place where a pool is built.  *)

LAUKU_KLASES ==
    [host |-> "taikinys", port |-> "taikinys", database |-> "taikinys", user |-> "kredencialai",
     password |-> "kredencialai", ssl |-> "saugumas", sslnegotiation |-> "saugumas",
     options |-> "sesija", replication |-> "sesija"]

NEREIKSMINGI == {"application_name", "connect_timeout", "binary", "client_encoding"}

palyginamaReiksme(f, parameters) ==
    IF f = "host" THEN normalizuotiHosta(parameters["host"]) ELSE parameters[f]

Differs(f, settings, env, other) ==
    palyginamaReiksme(f, ConnectionParameters(settings, env))
        # palyginamaReiksme(f, ConnectionParameters(settings, other))

jungtiesSemantikosSkirtumai(env) ==
    IF env.url = Unset \/ ~Parses(env.url) THEN {}
    ELSE {LAUKU_KLASES[f] : f \in {g \in Parameters \ NEREIKSMINGI :
                                       Differs(g, env.url, env, libpqSvariAplinka(env))}}
         \cup (IF ~Given(ConnectionParameters(env.url, env)["password"]) /\ Given(env.pg["PGPASSFILE"])
               THEN {"kredencialai"} ELSE {})

arDviprasmiskaKonfiguracija(env) == jungtiesSemantikosSkirtumai(env) # {}

FieldsOf(env) ==
    [f \in Parameters |->
        IF f \notin PG_ATITIKMENYS THEN Unset
        ELSE IF f = "port" /\ env.pg["PGPORT"] # Unset THEN NumberOf[env.pg["PGPORT"]]
        ELSE env.pg[VariableOf[f]]]

\* Throws where the configuration is ambiguous.  Every pool of the stores, of
\* the start-up check and of the command line tools is built from it.
pgJungtiesNustatymai(env) ==
    IF env.url # Unset THEN [kind |-> "url", settings |-> env.url]
    ELSE [kind |-> "fields", settings |-> FieldsOf(env)]

-----------------------------------------------------------------------------
(* Whether two connections reach one database. *)

NoIdentity == [host |-> Unset, port |-> Unset, database |-> Unset, options |-> Unset]

\* Where the driver goes, as far as it tells databases apart.  An option can
\* name another schema.
Reaches(settings, env) ==
    LET p == ConnectionParameters(settings, env)
    IN [host |-> normalizuotiHosta(p["host"]), port |-> p["port"],
        database |-> p["database"], options |-> p["options"]]

\* The name of the system's user is no name of a database.
NamesBase(settings, env) ==
    \/ Given(settings["database"]) \/ Given(env.pg["PGDATABASE"])
    \/ Given(settings["user"]) \/ Given(env.pg["PGUSER"])

efektyvusJungtiesParametrai(target, env) ==
    LET base == Reaches(target.settings, env)
    IN IF /\ Parses(target.settings)
          /\ NamesBase(target.settings, env)
          /\ Given(base.host) /\ Given(base.database)
       THEN base ELSE NoIdentity

\* arTaPatiBaze(url, env, vykdymoAplinka); it throws where env is ambiguous.
arTaPatiBaze(target, env, childEnv) ==
    LET konfiguracija == efektyvusJungtiesParametrai(pgJungtiesNustatymai(env), env)
        nurodyta == efektyvusJungtiesParametrai(target, childEnv)
    IN konfiguracija # NoIdentity /\ nurodyta # NoIdentity /\ konfiguracija = nurodyta

\* The guard of a merge, a replay and a reconciliation of a restored database.
patikrintiSargus(target, env) ==
    /\ arNurodytaPostgres(env)
    /\ ~arDviprasmiskaKonfiguracija(env)
    /\ arTaPatiBaze(target, env, env)

-----------------------------------------------------------------------------
(* The dump. *)

\* The variables whose effect pg_dump would lose, the password among them.
vaikinioProcesoKliutys(env) ==
    {v \in Variables \ {"PG_POOL_MAX"} :
        /\ Given(env.pg[v])
        /\ v = "PGPASSWORD" \/ v \notin {VariableOf[f] : f \in PG_ATITIKMENYS}}

pgTaikinysPasses(env) ==
    /\ arNurodytaPostgres(env)
    /\ vaikinioProcesoKliutys(env) = {}
    /\ ~arDviprasmiskaKonfiguracija(env)
    /\ env.url = Unset => env.pg["PGDATABASE"] \notin ConnInfo

\* _pgTaikinysIsAplinkos(): the target of a dump without --url.  The password
\* is dropped; it was an obstacle.
pgTaikinysIsAplinkos(env) ==
    LET target == pgJungtiesNustatymai(env)
    IN IF target.kind = "url" THEN target ELSE [target EXCEPT !.settings["password"] = Unset]

\* Asked before the dump and again before the horizon is recorded.
patikrintiZymuTapatuma(target, env) ==
    /\ arNurodytaPostgres(env)
    /\ ~arDviprasmiskaKonfiguracija(env)
    /\ arTaPatiBaze(target, env, libpqSvariAplinka(env))

\* A connection string is passed whole; of the fields the port only if it is
\* a number above zero.
Flags(settings) ==
    {"host", "user", "database"} \cup (IF Given(settings["port"]) THEN {"port"} ELSE {})

PG_DUMP_ARGUMENTAI(target) ==
    IF target.kind = "url" THEN target
    ELSE [target EXCEPT
            !.settings = [f \in Parameters |-> IF f \in Flags(target.settings) THEN @[f] ELSE Unset]]

\* libpq, external.  Its default host is a socket, not the driver's; a flag
\* -d whose value is a connection string is one.
libpqVal(f, settings) ==
    IF Given(settings[f]) THEN settings[f] ELSE IF f = "host" THEN Blank ELSE Defaults[f]

LibpqReaches(arguments) ==
    LET s == arguments.settings
    IN IF arguments.kind = "fields" /\ s["database"] \in ConnInfo THEN NoIdentity
       ELSE [host |-> normalizuotiHosta(libpqVal("host", s)), port |-> libpqVal("port", s),
             database |-> IF Given(s["database"]) THEN s["database"] ELSE libpqVal("user", s),
             options |-> libpqVal("options", s)]
=============================================================================
