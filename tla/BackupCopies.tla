---------------------------- MODULE BackupCopies ----------------------------
(***************************************************************************)
(* What a copy consists of and who can open it: the two kinds of copy, the *)
(* copy of the records made over HTTP (backupService, restoreService) and  *)
(* the dump of the database (pgDumpBackup), each a manifest that travels   *)
(* beside the data it describes.  Everything decided about a copy is       *)
(* decided twice, by the process that makes it and years or a key rotation *)
(* later by another one that has only the two files; the definitions are   *)
(* those decisions, without state.  DisasterRecovery and Restore have the  *)
(* interleavings.                                                          *)
(*                                                                         *)
(* AES-GCM and SHA-256 are ideal: an envelope opens under its own key and  *)
(* its own AAD only, and a checksum is as good as what it was taken of.    *)
(* The conjuncts of a decision are in the order of the code's checks; all  *)
(* of them come before the first write.                                    *)
(***************************************************************************)
EXTENDS Naturals, Integers, Sequences

CONSTANTS
    Bodies,     \* what there is to copy: the records with their audio, the SQL of a dump
    Keys,       \* 32-byte keys
    Databases,  \* databases a connection can name
    Absent,     \* null or undefined
    BadKey      \* a key that is not 64 hexadecimal digits

-----------------------------------------------------------------------------
(* Which artefacts a copy may hold. *)

Persistence ==
    [source_audio |-> "persistent", upload_temp |-> "temporary", conversion_temp |-> "temporary",
     transcript |-> "persistent", transcript_redacted |-> "ephemeral", protocol |-> "persistent",
     export_redacted |-> "ephemeral", export_original |-> "ephemeral",
     queue_record |-> "persistent", job_record |-> "persistent", audit_entry |-> "persistent"]

Types == DOMAIN Persistence

\* The state of the queue would start runs again, the audit log would bring
\* back erased entries.
EXCLUDED_DESPITE_PERSISTENT == {"queue_record", "audit_entry"}

isIncluded(type) ==
    /\ type \in Types
    /\ type \notin EXCLUDED_DESPITE_PERSISTENT
    /\ Persistence[type] = "persistent"

\* The tables of the database the types live in; the others live in files, in
\* the queue or nowhere.
TABLE_BY_TYPE ==
    [transcript |-> "job_results", protocol |-> "job_results", job_record |-> "jobs",
     audit_entry |-> "audit_log"]

excludedTables == {TABLE_BY_TYPE[t] : t \in {u \in DOMAIN TABLE_BY_TYPE : ~isIncluded(u)}}

\* The table whose rows the flags of pg_dump leave out.
PG_DUMP_BENDROS == {"audit_log"}

-----------------------------------------------------------------------------
(* The process that makes or restores a copy. *)

\* A release by its major number and the rest; "unknown" without package.json.
Versions == (Nat \X Nat) \cup {"unknown"}

\* "revealing" are the bodies in which the value of a configured secret
\* occurs, "fits" those every record of which the active store can represent,
\* "marks" the database that keeps the erasure marks.
Environment ==
    [enabled : BOOLEAN, key : Keys \cup {Absent, BadKey}, previous : Keys \cup {Absent, BadKey},
     retention : Nat \cup {Absent}, version : Versions, config : BOOLEAN,
     privacy : {"ok", "off", "invalid"}, marks : Databases \cup {Absent},
     revealing : SUBSET Bodies, fits : SUBSET Bodies]

DEFAULT_RETENTION_DAYS == 7

retentionDays(env) ==
    IF env.retention \in Nat \ {0} THEN env.retention ELSE DEFAULT_RETENTION_DAYS

findLeakedSecrets(env, body) == body \in env.revealing

\* PERSISTENT_STORAGE=false and a privacy configuration that contradicts itself
\* both refuse a restore: what is copied back would stay.
PrivacyAllows(env) == env.privacy = "ok"

\* Every record that is not under an erasure mark, before the first is written.
validateContent(env, text) == text.kind = "records" /\ text.body \in env.fits

-----------------------------------------------------------------------------
(* The manifest. *)

BACKUP_FORMAT_VERSION == 1

MIN_RESTORABLE_VERSION == 1

ENCRYPTION_ALGORITHM == "aes-256-gcm-v2"

REQUIRED_FIELDS == {"formatVersion", "applicationVersion", "createdAt", "policy", "contents", "checksum"}

policySnapshot(env) ==
    [includedTypes |-> {t \in Types : isIncluded(t)}, retentionDays |-> retentionDays(env)]

createManifest(env, contents, checksum, now) ==
    [formatVersion |-> BACKUP_FORMAT_VERSION, applicationVersion |-> env.version,
     createdAt |-> now, expiresAt |-> now + retentionDays(env),
     policy |-> policySnapshot(env),
     contents |-> contents, checksum |-> checksum,
     encrypted |-> Absent, encryptionAlgorithm |-> Absent, snapshotTime |-> Absent,
     excludedInFlightJobs |-> Absent]

\* "other" is any type the inventory does not know.
Entry == [type : Types \cup {"other"}, count : Nat, bytes : Nat]

OnlyIncluded(contents) == \A i \in DOMAIN contents : isIncluded(contents[i].type)

validateManifest(m) ==
    /\ \A f \in REQUIRED_FIELDS : m[f] # Absent
    /\ m.contents \in Seq(Entry)
    /\ OnlyIncluded(m.contents)
    /\ m.createdAt \in Nat
    /\ m.expiresAt \in Nat \cup {Absent}

checkRestoreCompatibility(v) ==
    /\ v \in Int
    /\ v \in MIN_RESTORABLE_VERSION .. BACKUP_FORMAT_VERSION

\* A copy of an unknown version passes.
checkApplicationVersion(env, v) ==
    v # "unknown" => env.version # "unknown" /\ v[1] = env.version[1]

-----------------------------------------------------------------------------
(* The data, as it lies beside its manifest. *)

\* "records" is the JSON of createBackup(), "dump" the SQL under its header.
Plaintext == [kind : {"records", "dump"}, body : Bodies]

AUTHENTICATED_MANIFEST_FIELDS ==
    {"formatVersion", "applicationVersion", "encrypted", "encryptionAlgorithm", "snapshotTime",
     "excludedInFlightJobs", "contents"}

\* The entries in the order of their types, equal types as they stand.
canonicalContents(contents) ==
    [t \in {contents[i].type : i \in DOMAIN contents} |->
        SelectSeq(contents, LAMBDA e : e.type = t)]

manifestAad(m) ==
    [f \in AUTHENTICATED_MANIFEST_FIELDS |->
        IF f = "contents" THEN canonicalContents(m.contents) ELSE m[f]]

\* SHA-256, as the function it is taken for: no two inputs have one sum.
computeChecksum(bytes) == [sha256 |-> bytes]

verifyChecksum(m, bytes) == m.checksum = computeChecksum(bytes)

Plain(text) == [form |-> "plain", text |-> text]

encrypt(key, m, text) ==
    [form |-> "envelope", format |-> "v2", key |-> key, aad |-> manifestAad(m), text |-> text,
     intact |-> TRUE]

\* The current key is tried first, then the previous one; a key that cannot be
\* read fails the whole attempt, whichever of the two it is.
decrypts(env, m, data) ==
    /\ data.form = "envelope"
    /\ data.format = "v2"
    /\ data.intact
    /\ BadKey \notin {env.key, env.previous}
    /\ data.key \in {env.key, env.previous} \ {Absent}
    /\ data.aad = manifestAad(m)

looksLikeEnvelope(data) == data.form = "envelope"

-----------------------------------------------------------------------------
(* The copy of the records. *)

sealedManifest(env, contents, checksum, sealed, now, inFlight) ==
    [createManifest(env, contents, checksum, now) EXCEPT
        !.encrypted = sealed,
        !.encryptionAlgorithm = IF sealed THEN ENCRYPTION_ALGORITHM ELSE Absent,
        !.snapshotTime = now,
        !.excludedInFlightJobs = inFlight]

RecordsContents(jobs, audio) ==
    <<[type |-> "job_record", count |-> jobs.count, bytes |-> jobs.bytes],
      [type |-> "source_audio", count |-> audio.count, bytes |-> audio.bytes]>>

createBackupPasses(env, body, jobs, audio) ==
    /\ env.enabled
    /\ ~findLeakedSecrets(env, body)
    /\ OnlyIncluded(RecordsContents(jobs, audio))
    /\ env.key # BadKey

\* The checksum is of the data as stored, so it comes last and no AAD has it.
createBackup(env, body, jobs, audio, inFlight, now) ==
    LET sealed == env.key # Absent
        m == sealedManifest(env, RecordsContents(jobs, audio), "pending", sealed, now, inFlight)
        text == [kind |-> "records", body |-> body]
        data == IF sealed THEN encrypt(env.key, m, text) ELSE Plain(text)
    IN [manifest |-> [m EXCEPT !.checksum = computeChecksum(data)], data |-> data]

\* No encryption where the data is an envelope, no algorithm where there is no
\* encryption: a manifest cannot be downgraded.
NotDowngraded(m, data) ==
    IF m.encrypted
    THEN m.encryptionAlgorithm = ENCRYPTION_ALGORITHM
    ELSE m.encryptionAlgorithm = Absent /\ ~looksLikeEnvelope(data)

\* What is asked of the contents once they are open.
ContentsPass(env, text) ==
    /\ validateContent(env, text)
    /\ ~findLeakedSecrets(env, text.body)
    /\ env.config
    /\ PrivacyAllows(env)

restoreBackupPasses(env, m, data) ==
    /\ validateManifest(m)
    /\ checkRestoreCompatibility(m.formatVersion)
    /\ checkApplicationVersion(env, m.applicationVersion)
    /\ verifyChecksum(m, data)
    /\ m.encrypted \in BOOLEAN
    /\ NotDowngraded(m, data)
    /\ m.encrypted => decrypts(env, m, data)
    /\ ContentsPass(env, data.text)

-----------------------------------------------------------------------------
(* The dump of the database. *)

\* The base that is dumped must be the base the horizon will be recorded in.
SourceKeepsMarks(env, source) == env.marks # Absent /\ source = env.marks

\* pg_dump itself, its size limit and the record of the horizon may fail too:
\* DisasterRecovery has those.
sukurtiPasses(env, source) ==
    /\ env.enabled
    /\ env.key # Absent
    /\ env.key # BadKey
    /\ SourceKeepsMarks(env, source)

\* The checksum is of the plaintext, before the manifest exists.
sukurtiSifruotaKopija(env, body, now) ==
    LET text == [kind |-> "dump", body |-> body]
        m == sealedManifest(env, << >>, computeChecksum(text), TRUE, now, 0)
    IN [manifest |-> m, envelope |-> encrypt(env.key, m, text)]

patikrintiSifravimoMetaduomenis(m) ==
    /\ m.encrypted \in BOOLEAN
    /\ m.encrypted
    /\ m.encryptionAlgorithm = ENCRYPTION_ALGORITHM

atkurtiPasses(env, m, envelope) ==
    /\ validateManifest(m)
    /\ checkRestoreCompatibility(m.formatVersion)
    /\ checkApplicationVersion(env, m.applicationVersion)
    /\ PrivacyAllows(env)
    /\ patikrintiSifravimoMetaduomenis(m)
    /\ decrypts(env, m, envelope)
    /\ verifyChecksum(m, envelope.text)
    /\ envelope.text.kind = "dump"

\* What a database holds, as the bodies it was filled with.  Any relation,
\* function, enumeration or schema of a user counts.
patikrintiTikslasTuscias(target) == target = {}

\* psql runs the script as one transaction and stops at the first error.
psqlSuStdin(target, body, succeeds) == IF succeeds THEN target \cup {body} ELSE target

atkurtiSifruotaKopija(env, m, envelope, target, psqlSucceeds) ==
    IF atkurtiPasses(env, m, envelope) /\ patikrintiTikslasTuscias(target)
    THEN psqlSuStdin(target, envelope.text.body, psqlSucceeds)
    ELSE target
=============================================================================
