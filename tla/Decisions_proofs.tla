-------------------------- MODULE Decisions_proofs --------------------------
(***************************************************************************)
(* What the decisions promise that need no state of their own, or only      *)
(* what the environment says: the copies a process trusts                   *)
(* (BackupCopies), the results outside the database it believes            *)
(* (ArtifactReads), the forms in which a job is kept (JobRow), the ledger  *)
(* of marks a recovery merges (ErasureLedger), the database a connection   *)
(* reaches (PgTarget), the providers data may go to (ProviderPrivacy), the *)
(* count of erasures that failed (DeletionRetry), and where each process of *)
(* a deployment keeps what it keeps when it starts (StartUp).              *)
(* A process has only a manifest or a row, and the data beside it: what    *)
(* was made together opens and reads back, and what was not does not; and  *)
(* what one store keeps of a job the other keeps too.                      *)
(***************************************************************************)
EXTENDS BackupCopies, ArtifactReads, JobRow, PgTarget, ErasureLedger, ProviderPrivacy,
        DeletionRetry, StartUp, TLAPS

Sizes == [count : Nat, bytes : Nat]

-----------------------------------------------------------------------------
(* The policy. *)

(* The rows pg_dump leaves out are those of the artefacts the policy        *)
(* excludes: the audit log, and no table an included artefact lives in.     *)
THEOREM DumpFollowsPolicy ==
    /\ excludedTables = PG_DUMP_BENDROS
    /\ \A t \in DOMAIN TABLE_BY_TYPE : isIncluded(t) => TABLE_BY_TYPE[t] \notin PG_DUMP_BENDROS
<1>1. DOMAIN TABLE_BY_TYPE = {"transcript", "protocol", "job_record", "audit_entry"}
  BY DEF TABLE_BY_TYPE
<1>2. /\ TABLE_BY_TYPE["transcript"] = "job_results"
      /\ TABLE_BY_TYPE["protocol"] = "job_results"
      /\ TABLE_BY_TYPE["job_record"] = "jobs"
      /\ TABLE_BY_TYPE["audit_entry"] = "audit_log"
  BY DEF TABLE_BY_TYPE
<1>3. /\ isIncluded("transcript") /\ isIncluded("protocol") /\ isIncluded("job_record")
      /\ ~isIncluded("audit_entry")
  BY DEF isIncluded, Types, Persistence, EXCLUDED_DESPITE_PERSISTENT
<1>4. {u \in DOMAIN TABLE_BY_TYPE : ~isIncluded(u)} = {"audit_entry"}
  BY <1>1, <1>3
<1>5. excludedTables = {"audit_log"}
  BY <1>2, <1>4 DEF excludedTables
<1>6. \A t \in DOMAIN TABLE_BY_TYPE : isIncluded(t) => TABLE_BY_TYPE[t] # "audit_log"
  BY <1>1, <1>2, <1>3
<1> QED
  BY <1>5, <1>6 DEF PG_DUMP_BENDROS

LEMMA RecordsAreIncluded ==
    ASSUME NEW jobs \in Sizes, NEW audio \in Sizes
    PROVE  /\ RecordsContents(jobs, audio) \in Seq(Entry)
           /\ OnlyIncluded(RecordsContents(jobs, audio))
<1>1. isIncluded("job_record") /\ isIncluded("source_audio")
  BY DEF isIncluded, Types, Persistence, EXCLUDED_DESPITE_PERSISTENT
<1>2. /\ [type |-> "job_record", count |-> jobs.count, bytes |-> jobs.bytes] \in Entry
      /\ [type |-> "source_audio", count |-> audio.count, bytes |-> audio.bytes] \in Entry
  BY <1>1 DEF isIncluded, Entry, Sizes
<1>3. RecordsContents(jobs, audio) \in Seq(Entry)
  BY <1>2 DEF RecordsContents
<1>4. OnlyIncluded(RecordsContents(jobs, audio))
  BY <1>1 DEF OnlyIncluded, RecordsContents
<1> QED
  BY <1>3, <1>4

-----------------------------------------------------------------------------
(* The manifest of a copy. *)

\* What JSON tells from null; the prover knows nothing of Absent.
AbsentIsNoValue ==
    /\ Absent \notin Nat /\ Absent \notin BOOLEAN /\ Absent \notin Versions /\ Absent \notin Seq(Entry)
    /\ \A b : Absent # computeChecksum(b)
    /\ \A e \in Environment : Absent # policySnapshot(e)
    /\ Absent # ENCRYPTION_ALGORITHM

ManifestFields ==
    {"formatVersion", "applicationVersion", "createdAt", "expiresAt", "policy", "contents", "checksum",
     "encrypted", "encryptionAlgorithm", "snapshotTime", "excludedInFlightJobs"}

LEMMA SealedManifest ==
    ASSUME NEW env, NEW contents, NEW first, NEW sealed, NEW now, NEW inFlight
    PROVE  /\ DOMAIN sealedManifest(env, contents, first, sealed, now, inFlight) = ManifestFields
           /\ sealedManifest(env, contents, first, sealed, now, inFlight).formatVersion = 1
           /\ sealedManifest(env, contents, first, sealed, now, inFlight).applicationVersion = env.version
           /\ sealedManifest(env, contents, first, sealed, now, inFlight).createdAt = now
           /\ sealedManifest(env, contents, first, sealed, now, inFlight).expiresAt
                = now + retentionDays(env)
           /\ sealedManifest(env, contents, first, sealed, now, inFlight).policy = policySnapshot(env)
           /\ sealedManifest(env, contents, first, sealed, now, inFlight).contents = contents
           /\ sealedManifest(env, contents, first, sealed, now, inFlight).checksum = first
           /\ sealedManifest(env, contents, first, sealed, now, inFlight).encrypted = sealed
           /\ sealedManifest(env, contents, first, sealed, now, inFlight).encryptionAlgorithm
                = IF sealed THEN ENCRYPTION_ALGORITHM ELSE Absent
           /\ sealedManifest(env, contents, first, sealed, now, inFlight).snapshotTime = now
           /\ sealedManifest(env, contents, first, sealed, now, inFlight).excludedInFlightJobs = inFlight
BY DEF sealedManifest, createManifest, ManifestFields, BACKUP_FORMAT_VERSION

\* The sum is in no AAD: it is set when the data is there.
LEMMA ChecksumOutsideAad ==
    ASSUME NEW m, NEW sum, DOMAIN m = ManifestFields, m = [f \in DOMAIN m |-> m[f]]
    PROVE  /\ \A f \in ManifestFields : f # "checksum" => [m EXCEPT !.checksum = sum][f] = m[f]
           /\ [m EXCEPT !.checksum = sum].checksum = sum
           /\ manifestAad([m EXCEPT !.checksum = sum]) = manifestAad(m)
<1> DEFINE n == [m EXCEPT !.checksum = sum]
<1>1. \A f \in ManifestFields : f # "checksum" => n[f] = m[f]
  OBVIOUS
<1>2. n.checksum = sum
  BY DEF ManifestFields
<1>3. n.contents = m.contents
  BY <1>1 DEF ManifestFields
<1>4. \A f \in AUTHENTICATED_MANIFEST_FIELDS : n[f] = m[f]
  BY <1>1 DEF ManifestFields, AUTHENTICATED_MANIFEST_FIELDS
<1> QED
  BY <1>1, <1>2, <1>3, <1>4 DEF manifestAad

\* The manifest of a copy, seen from a process that has only the file.
IssuedManifest(env, n, contents, sum, sealed, now, inFlight) ==
    /\ n.formatVersion = 1 /\ n.applicationVersion = env.version /\ n.createdAt = now
    /\ n.expiresAt = now + retentionDays(env) /\ n.policy = policySnapshot(env)
    /\ n.contents = contents /\ n.encrypted = sealed /\ n.checksum = computeChecksum(sum)
    /\ n.encryptionAlgorithm = IF sealed THEN ENCRYPTION_ALGORITHM ELSE Absent
    /\ n.snapshotTime = now /\ n.excludedInFlightJobs = inFlight

LEMMA LateChecksum ==
    ASSUME NEW env, NEW contents, NEW first, NEW sum, NEW sealed, NEW now, NEW inFlight
    PROVE  LET m == sealedManifest(env, contents, first, sealed, now, inFlight)
               n == [m EXCEPT !.checksum = computeChecksum(sum)]
           IN  /\ IssuedManifest(env, n, contents, sum, sealed, now, inFlight)
               /\ manifestAad(n) = manifestAad(m)
<1> DEFINE m == sealedManifest(env, contents, first, sealed, now, inFlight)
           n == [m EXCEPT !.checksum = computeChecksum(sum)]
<1>1. /\ DOMAIN m = ManifestFields
      /\ m.formatVersion = 1 /\ m.applicationVersion = env.version /\ m.createdAt = now
      /\ m.expiresAt = now + retentionDays(env) /\ m.policy = policySnapshot(env)
      /\ m.contents = contents /\ m.encrypted = sealed
      /\ m.encryptionAlgorithm = IF sealed THEN ENCRYPTION_ALGORITHM ELSE Absent
      /\ m.snapshotTime = now /\ m.excludedInFlightJobs = inFlight
  <2> HIDE DEF m
  <2>1. m = sealedManifest(env, contents, first, sealed, now, inFlight)
    BY DEF m
  <2> QED
    BY <2>1, SealedManifest
<1>2. m = [f \in DOMAIN m |-> m[f]]
  BY DEF sealedManifest, createManifest
<1> HIDE DEF m
<1>3. /\ \A f \in ManifestFields : f # "checksum" => n[f] = m[f]
      /\ n.checksum = computeChecksum(sum)
      /\ manifestAad(n) = manifestAad(m)
  BY <1>1, <1>2, ChecksumOutsideAad
<1> HIDE DEF n
<1>4. IssuedManifest(env, n, contents, sum, sealed, now, inFlight)
  BY <1>1, <1>3 DEF ManifestFields, IssuedManifest
<1> QED
  BY <1>3, <1>4 DEF m, n

LEMMA ManifestIsValid ==
    ASSUME NEW env \in Environment, NEW n, NEW contents \in Seq(Entry), OnlyIncluded(contents),
           NEW sum, NEW sealed \in BOOLEAN, NEW now \in Nat, NEW inFlight \in Nat, AbsentIsNoValue,
           IssuedManifest(env, n, contents, sum, sealed, now, inFlight)
    PROVE  /\ validateManifest(n)
           /\ checkRestoreCompatibility(n.formatVersion)
           /\ verifyChecksum(n, sum)
<1>1. retentionDays(env) \in Nat
  BY DEF retentionDays, DEFAULT_RETENTION_DAYS
<1>2. env.version \in Versions
  BY DEF Environment
<1>3. /\ n.formatVersion # Absent /\ n.applicationVersion # Absent /\ n.createdAt # Absent
      /\ n.policy # Absent /\ n.contents # Absent /\ n.checksum # Absent
  BY <1>2 DEF AbsentIsNoValue, IssuedManifest
<1>4. validateManifest(n)
  BY <1>1, <1>3 DEF validateManifest, REQUIRED_FIELDS, IssuedManifest
<1> QED
  BY <1>4 DEF checkRestoreCompatibility, MIN_RESTORABLE_VERSION, BACKUP_FORMAT_VERSION,
              verifyChecksum, IssuedManifest

-----------------------------------------------------------------------------
(* Copies that open. *)

\* A process that restores what another one of its major release made, and has
\* the key of then as its current or its previous one.
Successor(env, later) ==
    /\ later.privacy = "ok"
    /\ checkApplicationVersion(later, env.version)
    /\ BadKey \notin {later.key, later.previous}
    /\ env.key # Absent => env.key \in {later.key, later.previous}

(* A copy of the records, sealed or not, is restored to what it was made    *)
(* of by every successor whose configuration is sound and whose store can   *)
(* represent the records, whatever else changed: one rotation of the key    *)
(* loses no copy.                                                           *)
THEOREM RecordsRoundTrip ==
    ASSUME NEW env \in Environment, NEW later \in Environment, NEW body \in Bodies,
           NEW jobs \in Sizes, NEW audio \in Sizes, NEW inFlight \in Nat, NEW now \in Nat,
           AbsentIsNoValue,
           createBackupPasses(env, body, jobs, audio),
           Successor(env, later), later.config,
           body \in later.fits, ~findLeakedSecrets(later, body),
           NEW c, c = createBackup(env, body, jobs, audio, inFlight, now)
    PROVE  /\ restoreBackupPasses(later, c.manifest, c.data)
           /\ c.data.text.body = body
<1> DEFINE sealed == env.key # Absent
           contents == RecordsContents(jobs, audio)
           m == sealedManifest(env, contents, "pending", sealed, now, inFlight)
           text == [kind |-> "records", body |-> body]
           data == IF sealed THEN encrypt(env.key, m, text) ELSE Plain(text)
           n == [m EXCEPT !.checksum = computeChecksum(data)]
<1>1. c.manifest = n /\ c.data = data
  BY DEF createBackup
<1>2. /\ contents \in Seq(Entry)
      /\ OnlyIncluded(contents)
  BY RecordsAreIncluded
<1>3. data.text = text
  BY DEF encrypt, Plain
<1>4. text.kind = "records" /\ text.body = body
  OBVIOUS
<1>5. sealed => /\ data.form = "envelope" /\ data.format = "v2" /\ data.intact
                /\ data.key = env.key /\ data.aad = manifestAad(m)
  BY DEF encrypt
<1>6. ~sealed => data.form = "plain"
  BY DEF Plain
<1>7. /\ IssuedManifest(env, n, contents, data, sealed, now, inFlight)
      /\ manifestAad(n) = manifestAad(m)
  <2> HIDE DEF contents, data
  <2> QED
    BY LateChecksum
<1> HIDE DEF contents, m, text, data, n
<1>8. /\ validateManifest(n)
       /\ checkRestoreCompatibility(n.formatVersion)
       /\ verifyChecksum(n, data)
  BY <1>2, <1>7, ManifestIsValid
<1>9. /\ n.applicationVersion = env.version
       /\ n.encrypted = sealed
       /\ n.encryptionAlgorithm = IF sealed THEN ENCRYPTION_ALGORITHM ELSE Absent
  BY <1>7 DEF IssuedManifest
<1>10. NotDowngraded(n, data)
  BY <1>6, <1>9 DEF NotDowngraded, looksLikeEnvelope
<1>11. sealed => decrypts(later, n, data)
  BY <1>5, <1>7 DEF decrypts, Successor
<1>12. n.encrypted \in BOOLEAN /\ (n.encrypted => decrypts(later, n, data))
  BY <1>11, <1>9
<1>13. restoreBackupPasses(later, n, data)
  BY <1>3, <1>4, <1>10, <1>12, <1>8, <1>9 DEF restoreBackupPasses, ContentsPass, validateContent, PrivacyAllows,
              Successor
<1> QED
  BY <1>1, <1>3, <1>4, <1>13

\* A dump and a ledger of marks: the sum of the plaintext is known before the
\* manifest, and the envelope is sealed under the whole of it.
PlaintextManifest(env, text, now) ==
    sealedManifest(env, << >>, computeChecksum(text), TRUE, now, 0)

OpensAs(env, later, text, m, e) ==
    /\ validateManifest(m)
    /\ checkRestoreCompatibility(m.formatVersion)
    /\ m.applicationVersion = env.version
    /\ m.encrypted = TRUE
    /\ m.encryptionAlgorithm = ENCRYPTION_ALGORITHM
    /\ decrypts(later, m, e)
    /\ e.text = text
    /\ verifyChecksum(m, e.text)

LEMMA SealedPlaintext ==
    ASSUME NEW env \in Environment, NEW later \in Environment, NEW text, NEW now \in Nat,
           AbsentIsNoValue, env.key # Absent,
           BadKey \notin {later.key, later.previous}, env.key \in {later.key, later.previous},
           NEW m, m = PlaintextManifest(env, text, now),
           NEW e, e = encrypt(env.key, m, text)
    PROVE  OpensAs(env, later, text, m, e)
<1>1. /\ e.text = text /\ e.form = "envelope" /\ e.format = "v2" /\ e.intact
      /\ e.key = env.key /\ e.aad = manifestAad(m)
  BY DEF encrypt
<1>2. << >> \in Seq(Entry) /\ OnlyIncluded(<< >>)
  BY DEF OnlyIncluded
<1>3. IssuedManifest(env, m, << >>, text, TRUE, now, 0)
  <2>1. TRUE \in BOOLEAN /\ (IF TRUE THEN ENCRYPTION_ALGORITHM ELSE Absent) = ENCRYPTION_ALGORITHM
    OBVIOUS
  <2>2. /\ m.formatVersion = 1 /\ m.applicationVersion = env.version /\ m.createdAt = now
        /\ m.expiresAt = now + retentionDays(env) /\ m.policy = policySnapshot(env)
        /\ m.contents = << >> /\ m.checksum = computeChecksum(text)
        /\ m.encryptionAlgorithm = ENCRYPTION_ALGORITHM
        /\ m.snapshotTime = now /\ m.excludedInFlightJobs = 0
    BY <2>1 DEF PlaintextManifest, sealedManifest, createManifest, BACKUP_FORMAT_VERSION
  <2>3. m.encrypted = TRUE
    BY DEF PlaintextManifest, sealedManifest, createManifest
  <2> QED
    BY <2>1, <2>2, <2>3 DEF IssuedManifest
<1>4. /\ validateManifest(m)
      /\ checkRestoreCompatibility(m.formatVersion)
      /\ verifyChecksum(m, text)
  BY <1>2, <1>3, ManifestIsValid
<1>5. /\ m.applicationVersion = env.version
      /\ m.encrypted = TRUE
      /\ m.encryptionAlgorithm = ENCRYPTION_ALGORITHM
  BY <1>3 DEF IssuedManifest
<1>6. decrypts(later, m, e)
  BY <1>1 DEF decrypts
<1> QED
  BY <1>1, <1>4, <1>5, <1>6 DEF OpensAs

(* A dump is restored by every successor into an empty database, which then *)
(* holds what was dumped; into one that is not empty, or when psql fails,   *)
(* not at all.                                                              *)
THEOREM DumpRoundTrip ==
    ASSUME NEW env \in Environment, NEW later \in Environment, NEW body \in Bodies,
           NEW source \in Databases, NEW now \in Nat, AbsentIsNoValue,
           sukurtiPasses(env, source), Successor(env, later),
           NEW target \in SUBSET Bodies, NEW psqlSucceeds \in BOOLEAN,
           NEW c, c = sukurtiSifruotaKopija(env, body, now),
           NEW after, after = atkurtiSifruotaKopija(later, c.manifest, c.envelope, target, psqlSucceeds)
    PROVE  after = IF target = {} /\ psqlSucceeds THEN {body} ELSE target
<1> DEFINE text == [kind |-> "dump", body |-> body]
           m == sealedManifest(env, << >>, computeChecksum(text), TRUE, now, 0)
           e == encrypt(env.key, m, text)
<1>1. c.manifest = m /\ c.envelope = e
  BY DEF sukurtiSifruotaKopija
<1>2. text.kind = "dump" /\ text.body = body
  OBVIOUS
<1>3. /\ env.key # Absent
      /\ BadKey \notin {later.key, later.previous} /\ env.key \in {later.key, later.previous}
  BY DEF sukurtiPasses, Successor
<1>4. m = PlaintextManifest(env, text, now) /\ e = encrypt(env.key, m, text)
  BY DEF PlaintextManifest
<1> HIDE DEF text, m, e
<1>5. OpensAs(env, later, text, m, e)
  BY <1>3, <1>4, SealedPlaintext
<1>6. atkurtiPasses(later, m, e)
  BY <1>2, <1>5 DEF OpensAs, atkurtiPasses, patikrintiSifravimoMetaduomenis, PrivacyAllows, Successor
<1> QED
  BY <1>1, <1>2, <1>5, <1>6 DEF OpensAs, atkurtiSifruotaKopija, patikrintiTikslasTuscias, psqlSuStdin

-----------------------------------------------------------------------------
(* Pairs that do not. *)

(* An envelope opens for a manifest only if the two agree in every          *)
(* authenticated field, and for a process only if it holds the key: for     *)
(* either kind of copy, and whatever the manifest says of encryption.  A    *)
(* key that was rotated away twice takes its copies with it.                *)
THEOREM EnvelopeBindsManifest ==
    ASSUME NEW env \in Environment, NEW m, NEW key \in Keys, NEW sealedUnder, NEW text,
           \/ restoreBackupPasses(env, m, encrypt(key, sealedUnder, text))
           \/ atkurtiPasses(env, m, encrypt(key, sealedUnder, text))
    PROVE  /\ m.encrypted
           /\ key \in {env.key, env.previous}
           /\ \A f \in AUTHENTICATED_MANIFEST_FIELDS \ {"contents"} : m[f] = sealedUnder[f]
           /\ canonicalContents(m.contents) = canonicalContents(sealedUnder.contents)
<1> DEFINE e == encrypt(key, sealedUnder, text)
<1>1. e.form = "envelope" /\ e.key = key /\ e.aad = manifestAad(sealedUnder)
  BY DEF encrypt
<1> HIDE DEF e
<1>2. m.encrypted /\ decrypts(env, m, e)
  <2>1. CASE restoreBackupPasses(env, m, e)
    BY <1>1, <2>1 DEF restoreBackupPasses, NotDowngraded, looksLikeEnvelope
  <2>2. CASE atkurtiPasses(env, m, e)
    BY <2>2 DEF atkurtiPasses, patikrintiSifravimoMetaduomenis
  <2> QED
    BY <2>1, <2>2 DEF e
<1>3. key \in {env.key, env.previous} /\ manifestAad(m) = manifestAad(sealedUnder)
  BY <1>1, <1>2 DEF decrypts
<1>4. \A f \in AUTHENTICATED_MANIFEST_FIELDS : manifestAad(m)[f] = manifestAad(sealedUnder)[f]
  BY <1>3
<1>5. \A f \in AUTHENTICATED_MANIFEST_FIELDS \ {"contents"} : m[f] = sealedUnder[f]
  BY <1>4 DEF manifestAad
<1>6. "contents" \in AUTHENTICATED_MANIFEST_FIELDS
  BY DEF AUTHENTICATED_MANIFEST_FIELDS
<1>7. canonicalContents(m.contents) = canonicalContents(sealedUnder.contents)
  BY <1>4, <1>6 DEF manifestAad
<1> QED
  BY <1>2, <1>3, <1>5, <1>7

(* The manifest of one dump beside the envelope of another is restored      *)
(* only if both hold the same, of the same moment: what is restored is      *)
(* what the manifest was issued for.                                        *)
THEOREM MixedDumpsRefused ==
    ASSUME NEW one \in Environment, NEW other \in Environment, NEW env \in Environment,
           NEW body \in Bodies, NEW otherBody \in Bodies, NEW now \in Nat, NEW then \in Nat,
           other.key \in Keys,
           NEW c, c = sukurtiSifruotaKopija(one, body, now),
           NEW d, d = sukurtiSifruotaKopija(other, otherBody, then),
           atkurtiPasses(env, c.manifest, d.envelope)
    PROVE  otherBody = body /\ then = now /\ other.version = one.version
<1> DEFINE text == [kind |-> "dump", body |-> body]
           otherText == [kind |-> "dump", body |-> otherBody]
           m == sealedManifest(one, << >>, computeChecksum(text), TRUE, now, 0)
           n == sealedManifest(other, << >>, computeChecksum(otherText), TRUE, then, 0)
<1>1. c.manifest = m /\ d.envelope = encrypt(other.key, n, otherText)
  BY DEF sukurtiSifruotaKopija
<1>2. /\ m.checksum = computeChecksum(text) /\ m.applicationVersion = one.version
      /\ m.snapshotTime = now
  BY DEF sealedManifest, createManifest
<1>3. n.applicationVersion = other.version /\ n.snapshotTime = then
  BY DEF sealedManifest, createManifest
<1> HIDE DEF m, n
<1>4. encrypt(other.key, n, otherText).text = otherText
  BY DEF encrypt
<1>5. m.checksum = computeChecksum(otherText)
  BY <1>1, <1>4 DEF atkurtiPasses, verifyChecksum
<1>6. text = otherText
  BY <1>2, <1>5 DEF computeChecksum
<1>7. m.applicationVersion = n.applicationVersion /\ m.snapshotTime = n.snapshotTime
  BY <1>1, EnvelopeBindsManifest DEF AUTHENTICATED_MANIFEST_FIELDS
<1> QED
  BY <1>2, <1>3, <1>6, <1>7

(* A copy of the records is never taken for a dump, nor a dump for a copy   *)
(* of the records, not even with its own manifest.                          *)
THEOREM KindsApart ==
    ASSUME NEW env \in Environment, NEW m, NEW maker, NEW body, NEW jobs, NEW audio,
           NEW inFlight, NEW now
    PROVE  /\ ~atkurtiPasses(env, m, createBackup(maker, body, jobs, audio, inFlight, now).data)
           /\ ~restoreBackupPasses(env, m, sukurtiSifruotaKopija(maker, body, now).envelope)
<1>1. createBackup(maker, body, jobs, audio, inFlight, now).data.text.kind = "records"
  BY DEF createBackup, encrypt, Plain
<1>2. sukurtiSifruotaKopija(maker, body, now).envelope.text.kind = "dump"
  BY DEF sukurtiSifruotaKopija, encrypt
<1> QED
  BY <1>1, <1>2 DEF atkurtiPasses, restoreBackupPasses, ContentsPass, validateContent
-----------------------------------------------------------------------------
(* The ledger of erasure marks. *)

(* A ledger opens, one rotation of the key later, to the marks it was made  *)
(* of, and is accepted by the databases of its own deployment only, dumps   *)
(* of which carry the identity.  It is never taken for a dump, nor a dump   *)
(* for a ledger.                                                            *)
THEOREM LedgerRoundTrip ==
    ASSUME NEW env \in Environment, NEW later \in Environment, NEW now \in Nat, AbsentIsNoValue,
           NEW deploymentId, NEW horizon, NEW table \in Tables,
           sudarytiPasses(env, deploymentId),
           BadKey \notin {later.key, later.previous}, env.key \in {later.key, later.previous},
           NEW ledger, ledger = LedgerOf(deploymentId, horizon, table),
           NEW c, c = sudarytiArtefakta(env, ledger, now),
           NEW m, NEW body
    PROVE  /\ perskaitytiPasses(later, c.manifest, c.envelope)
           /\ c.envelope.text.body = ledger
           /\ \A id : patikrintiKilme(ledger, id) <=> id = deploymentId
           /\ ~atkurtiPasses(later, m, c.envelope)
           /\ ~perskaitytiPasses(later, m, sukurtiSifruotaKopija(env, body, now).envelope)
<1> DEFINE text == [kind |-> "ledger", body |-> ledger]
           n == sealedManifest(env, << >>, computeChecksum(text), TRUE, now, 0)
           e == encrypt(env.key, n, text)
<1>1. c.manifest = n /\ c.envelope = e
  BY DEF sudarytiArtefakta
<1>2. text.kind = "ledger" /\ text.body = ledger
  OBVIOUS
<1>3. env.key # Absent
  BY DEF sudarytiPasses
<1>4. n = PlaintextManifest(env, text, now) /\ e = encrypt(env.key, n, text)
  BY DEF PlaintextManifest
<1> HIDE DEF text, n, e
<1>5. OpensAs(env, later, text, n, e)
  BY <1>3, <1>4, SealedPlaintext
<1>6. \A id : patikrintiKilme(ledger, id) <=> id = deploymentId
  BY DEF patikrintiKilme, LedgerOf, sudarytiPasses
<1>7. ~atkurtiPasses(later, m, e)
  BY <1>2, <1>5 DEF OpensAs, atkurtiPasses
<1>8. sukurtiSifruotaKopija(env, body, now).envelope.text.kind = "dump"
  BY DEF sukurtiSifruotaKopija, encrypt
<1> QED
  BY <1>1, <1>2, <1>5, <1>6, <1>7, <1>8 DEF OpensAs, perskaitytiPasses

LEMMA MarkUpdates ==
  ASSUME NEW mark \in Mark
  PROVE  /\ beClaimo(mark) \in Mark
         /\ beClaimo(mark).status = mark.status /\ beClaimo(mark).updatedAt = mark.updatedAt
         /\ beClaimo(mark).requestedAt = mark.requestedAt /\ beClaimo(mark).attempts = mark.attempts
         /\ beClaimo(mark).claimToken = Absent
BY DEF beClaimo, Mark

LEMMA ImportedMark ==
  ASSUME NEW mark \in Mark, NEW table \in Tables, NEW j,
         NEW result, result = importuotiZyma(mark, table, j)
  PROVE  /\ result \in Mark
         /\ result.status = mark.status /\ result.updatedAt = mark.updatedAt
         /\ result.claimToken = Absent
         /\ result.requestedAt <= mark.requestedAt /\ result.attempts >= mark.attempts
         /\ j \in DOMAIN table => /\ result.requestedAt <= table[j].requestedAt
                                  /\ result.attempts >= table[j].attempts
<1> DEFINE r == FirstRequest(mark, table, j)
           a == MoreAttempts(mark, table, j)
<1>1. j \in DOMAIN table => table[j].requestedAt \in Nat /\ table[j].attempts \in Nat
  BY DEF Tables, Mark
<1>2. mark.requestedAt \in Nat /\ mark.attempts \in Nat
  BY DEF Mark
<1>3. /\ r \in Nat /\ r <= mark.requestedAt
      /\ j \in DOMAIN table => r <= table[j].requestedAt
  BY <1>1, <1>2 DEF FirstRequest
<1>4. /\ a \in Nat /\ a >= mark.attempts
      /\ j \in DOMAIN table => a >= table[j].attempts
  BY <1>1, <1>2 DEF MoreAttempts
<1> HIDE DEF r, a
<1>5. result = [mark EXCEPT !.requestedAt = r, !.attempts = a, !.claimToken = Absent]
  BY DEF importuotiZyma, r, a
<1>6. /\ result.requestedAt = r /\ result.attempts = a /\ result.claimToken = Absent
      /\ result.status = mark.status /\ result.updatedAt = mark.updatedAt
  BY <1>5 DEF Mark
<1>7. result \in Mark
  BY <1>3, <1>4, <1>5 DEF Mark
<1> QED  BY <1>3, <1>4, <1>6, <1>7

(* The merge of a ledger into the marks of a restored database.  Every job  *)
(* of either is marked, no confirmed erasure is taken back, a confirmed one *)
(* of the ledger is confirmed, no request becomes younger, and nothing is   *)
(* left for the same file to do: a merge that died is started again.        *)
THEOREM MergeSettles ==
  ASSUME NEW local \in Tables, NEW table \in Tables,
         NEW after, after = sulieti(local, table, suliejimoPlanas(local, table))
  PROVE  /\ after \in Tables
         /\ DOMAIN after = DOMAIN local \cup DOMAIN table
         /\ \A j \in DOMAIN table : arTerminalus(table[j].status) => after[j] = table[j]
         /\ \A j \in DOMAIN local : arTerminalus(local[j].status) => arTerminalus(after[j].status)
         /\ \A j \in DOMAIN table : after[j].requestedAt <= table[j].requestedAt
         /\ suliejimoPlanas(local, after) = {}
<1> DEFINE written == suliejimoPlanas(local, table)
<1>1. /\ \A j \in DOMAIN local : local[j] \in Mark /\ beClaimo(local[j]) \in Mark
      /\ \A j \in DOMAIN table : table[j] \in Mark
      /\ DOMAIN local \in SUBSET Jobs /\ DOMAIN table \in SUBSET Jobs
  BY MarkUpdates DEF Tables
<1>2. /\ written \subseteq DOMAIN local
      /\ \A j \in DOMAIN local : j \in written <=> (j \in DOMAIN table => laimiImportuotas(beClaimo(local[j]), table[j]))
  BY DEF suliejimoPlanas
<1>3. /\ DOMAIN after = DOMAIN table \cup written
      /\ \A j \in written : after[j] = importuotiZyma(beClaimo(local[j]), table, j)
      /\ \A j \in DOMAIN table \ written : after[j] = table[j]
  BY DEF sulieti
<1> HIDE DEF written
<1>4. ASSUME NEW j \in written
      PROVE /\ after[j] \in Mark
            /\ after[j].status = local[j].status /\ after[j].updatedAt = local[j].updatedAt
            /\ j \in DOMAIN table => after[j].requestedAt <= table[j].requestedAt
  BY <1>1, <1>2, <1>3, MarkUpdates, ImportedMark
<1>5. DOMAIN after = DOMAIN local \cup DOMAIN table
  BY <1>2, <1>3
<1>6. after \in Tables
  <2>1. \A j \in DOMAIN after : after[j] \in Mark  BY <1>1, <1>3, <1>4
  <2>2. DOMAIN after \in SUBSET Jobs  BY <1>1, <1>5
  <2>3. after = [j \in DOMAIN after |-> after[j]]  BY DEF sulieti
  <2>4. after \in [DOMAIN after -> Mark]  BY <2>1, <2>3
  <2> QED  BY <2>2, <2>4 DEF Tables
<1>7. ASSUME NEW j \in DOMAIN table, arTerminalus(table[j].status) PROVE after[j] = table[j]
  <2>1. j \notin written  BY <1>2, <1>7 DEF laimiImportuotas
  <2> QED  BY <1>3, <2>1
<1>8. ASSUME NEW j \in DOMAIN local, arTerminalus(local[j].status) PROVE arTerminalus(after[j].status)
  <2>1. CASE j \in written  BY <1>4, <1>8, <2>1
  <2>2. CASE j \notin written
    <3>1. /\ j \in DOMAIN table
          /\ ~laimiImportuotas(beClaimo(local[j]), table[j])
      BY <1>2, <2>2
    <3>2. arTerminalus(table[j].status)
      BY <1>1, <1>8, <3>1, MarkUpdates DEF laimiImportuotas
    <3> QED  BY <1>7, <3>1, <3>2
  <2> QED  BY <2>1, <2>2
<1>9. ASSUME NEW j \in DOMAIN table PROVE after[j].requestedAt <= table[j].requestedAt
  <2>1. table[j].requestedAt \in Nat  BY <1>1 DEF Mark
  <2> QED  BY <1>3, <1>4, <2>1
<1>10. suliejimoPlanas(local, after) = {}
  <2>1. ASSUME NEW j \in DOMAIN local PROVE ~laimiImportuotas(beClaimo(local[j]), after[j])
    <3>1. beClaimo(local[j]).status = local[j].status /\ beClaimo(local[j]).updatedAt = local[j].updatedAt
          /\ local[j].updatedAt \in Nat
      BY <1>1, MarkUpdates DEF Mark
    <3>2. CASE j \in written
      BY <1>4, <3>1, <3>2 DEF laimiImportuotas
    <3>3. CASE j \notin written
      BY <1>2, <1>3, <3>3
    <3> QED  BY <3>2, <3>3
  <2>2. DOMAIN local \subseteq DOMAIN after  BY <1>5
  <2> QED  BY <2>1, <2>2 DEF suliejimoPlanas
<1> QED  BY <1>5, <1>6, <1>7, <1>8, <1>9, <1>10
-----------------------------------------------------------------------------
(* Where a connection goes. *)

\* The driver's database is undefined by default.
ConnectionDefaults == Defaults["database"] = Unset /\ Unset # NaN

\* A target a dump can be made of: one given with --url, or that of the
\* environment.
DumpTarget(target, env) ==
    /\ IF target.kind = "url" THEN Parses(target.settings)
       ELSE pgTaikinysPasses(env) /\ target = pgTaikinysIsAplinkos(env)
    /\ Given(target.settings["host"])

LEMMA CleanValues ==
  ASSUME NEW env \in Environments, NEW settings, NEW f \in Parameters
  PROVE val(f, settings, libpqSvariAplinka(env))
            = IF Given(settings[f]) THEN settings[f] ELSE Defaults[f]
<1>1. VariableOf[f] \in Variables  BY DEF Variables
<1>2. libpqSvariAplinka(env).pg = [v \in Variables |-> Unset]
  BY DEF libpqSvariAplinka, Environments
<1>3. libpqSvariAplinka(env).pg[VariableOf[f]] = Unset  BY <1>1, <1>2
<1> QED  BY <1>3 DEF val, Given

LEMMA ReachedFields ==
  ASSUME NEW env, NEW settings
  PROVE Reaches(settings, env) =
          [host |-> normalizuotiHosta(val("host", settings, env)),
           port |-> val("port", settings, env),
           database |-> IF val("database", settings, env) = Unset
                        THEN val("user", settings, env) ELSE val("database", settings, env),
           options |-> val("options", settings, env)]
<1> DEFINE P == ConnectionParameters(settings, env)
<1>1. /\ P["host"] = val("host", settings, env)
      /\ P["port"] = val("port", settings, env)
      /\ P["options"] = val("options", settings, env)
      /\ P["database"] = IF val("database", settings, env) = Unset
                         THEN val("user", settings, env) ELSE val("database", settings, env)
  BY DEF ConnectionParameters, Parameters
<1> HIDE DEF P
<1>2. Reaches(settings, env) =
        [host |-> normalizuotiHosta(P["host"]), port |-> P["port"],
         database |-> P["database"], options |-> P["options"]]
  BY DEF Reaches, P
<1> QED  BY <1>1, <1>2

LEMMA ReachedBase ==
  ASSUME NEW target, NEW env, efektyvusJungtiesParametrai(target, env) # NoIdentity
  PROVE efektyvusJungtiesParametrai(target, env) = Reaches(target.settings, env)
<1> QED  BY DEF efektyvusJungtiesParametrai

LEMMA OwnTargetSettings ==
  ASSUME NEW env \in Environments, env.url = Unset
  PROVE /\ pgTaikinysIsAplinkos(env).kind = "fields"
        /\ pgTaikinysIsAplinkos(env).settings = [FieldsOf(env) EXCEPT !["password"] = Unset]
        /\ \A f \in Parameters \ {"password"} : pgTaikinysIsAplinkos(env).settings[f] = FieldsOf(env)[f]
        /\ pgTaikinysIsAplinkos(env).settings["password"] = Unset
        /\ DOMAIN pgTaikinysIsAplinkos(env).settings = Parameters
<1>1. FieldsOf(env) = [f \in Parameters |-> FieldsOf(env)[f]]  BY DEF FieldsOf
<1> DEFINE F == FieldsOf(env)
<1> HIDE DEF F
<1>2. pgTaikinysIsAplinkos(env) = [[kind |-> "fields", settings |-> F] EXCEPT !.settings["password"] = Unset]
  BY DEF pgTaikinysIsAplinkos, pgJungtiesNustatymai, F
<1>3. /\ pgTaikinysIsAplinkos(env).kind = "fields"
      /\ pgTaikinysIsAplinkos(env).settings = [F EXCEPT !["password"] = Unset]
  BY <1>2
<1>4. "password" \in Parameters  BY DEF Parameters
<1> QED  BY <1>1, <1>3, <1>4 DEF F

LEMMA FlagFields ==
  ASSUME NEW target, target.kind = "fields"
  PROVE /\ "host" \in Parameters /\ "port" \in Parameters /\ "user" \in Parameters
        /\ "database" \in Parameters /\ "options" \in Parameters
        /\ "host" \in Flags(target.settings) /\ "user" \in Flags(target.settings)
        /\ "database" \in Flags(target.settings) /\ "options" \notin Flags(target.settings)
        /\ "port" \in Flags(target.settings) <=> Given(target.settings["port"])
<1> QED  BY DEF Parameters, Flags

\* What pg_dump reads, given a host, is what the driver would without PG*.
LEMMA DumpReads ==
  ASSUME NEW env \in Environments, NEW target \in Target, ConnectionDefaults,
         Given(target.settings["host"]),
         target.kind = "fields" => /\ ~Given(target.settings["options"])
                                   /\ target.settings["database"] \notin ConnInfo
  PROVE LibpqReaches(PG_DUMP_ARGUMENTAI(target)) = Reaches(target.settings, libpqSvariAplinka(env))
<1> DEFINE S == target.settings
           A == PG_DUMP_ARGUMENTAI(target).settings
           C == libpqSvariAplinka(env)
<1>1. /\ val("host", S, C) = S["host"]
      /\ val("port", S, C) = IF Given(S["port"]) THEN S["port"] ELSE Defaults["port"]
      /\ val("database", S, C) = IF Given(S["database"]) THEN S["database"] ELSE Unset
      /\ val("user", S, C) = IF Given(S["user"]) THEN S["user"] ELSE Defaults["user"]
      /\ val("options", S, C) = IF Given(S["options"]) THEN S["options"] ELSE Defaults["options"]
  <2>1. \A f \in Parameters : val(f, S, C) = IF Given(S[f]) THEN S[f] ELSE Defaults[f]
    BY CleanValues
  <2>2. {"host", "port", "database", "user", "options"} \subseteq Parameters  BY DEF Parameters
  <2> QED  BY <2>1, <2>2 DEF ConnectionDefaults
<1>2. /\ A["host"] = S["host"]
      /\ A["database"] = S["database"]
      /\ A["user"] = S["user"]
      /\ Given(A["port"]) <=> Given(S["port"])
      /\ Given(S["port"]) => A["port"] = S["port"]
      /\ Given(A["options"]) <=> Given(S["options"])
      /\ Given(S["options"]) => A["options"] = S["options"]
      /\ PG_DUMP_ARGUMENTAI(target).kind = target.kind
  <2>1. CASE target.kind = "url"
    BY <2>1 DEF PG_DUMP_ARGUMENTAI
  <2>2. CASE target.kind = "fields"
    <3>1. /\ A = [f \in Parameters |-> IF f \in Flags(S) THEN S[f] ELSE Unset]
          /\ PG_DUMP_ARGUMENTAI(target).kind = target.kind
      BY <2>2 DEF PG_DUMP_ARGUMENTAI, Target
    <3>2. /\ A["host"] = S["host"] /\ A["database"] = S["database"] /\ A["user"] = S["user"]
          /\ A["options"] = Unset
          /\ A["port"] = IF Given(S["port"]) THEN S["port"] ELSE Unset
      BY <2>2, <3>1, FlagFields
    <3>3. ~Given(Unset)  BY DEF Given
    <3> QED  BY <2>2, <3>1, <3>2, <3>3
  <2> QED  BY <2>1, <2>2 DEF Target
<1> HIDE DEF S, A, C
<1>3. /\ libpqVal("host", A) = S["host"]
      /\ libpqVal("port", A) = val("port", S, C)
      /\ libpqVal("user", A) = val("user", S, C)
      /\ libpqVal("options", A) = val("options", S, C)
  BY <1>1, <1>2 DEF libpqVal, S
<1>4. (IF Given(A["database"]) THEN A["database"] ELSE libpqVal("user", A))
        = (IF val("database", S, C) = Unset THEN val("user", S, C) ELSE val("database", S, C))
  <2>1. Given(A["database"]) => A["database"] # Unset  BY DEF Given
  <2> QED  BY <1>1, <1>2, <1>3, <2>1
<1>5. ~(PG_DUMP_ARGUMENTAI(target).kind = "fields" /\ A["database"] \in ConnInfo)
  BY <1>2 DEF S
<1>6. LibpqReaches(PG_DUMP_ARGUMENTAI(target)) =
        [host |-> normalizuotiHosta(libpqVal("host", A)), port |-> libpqVal("port", A),
         database |-> IF Given(A["database"]) THEN A["database"] ELSE libpqVal("user", A),
         options |-> libpqVal("options", A)]
  BY <1>5 DEF LibpqReaches, A
<1>7. Reaches(S, C) =
          [host |-> normalizuotiHosta(val("host", S, C)), port |-> val("port", S, C),
           database |-> IF val("database", S, C) = Unset
                        THEN val("user", S, C) ELSE val("database", S, C),
           options |-> val("options", S, C)]
  BY ReachedFields
<1>8. LibpqReaches(PG_DUMP_ARGUMENTAI(target)) = Reaches(S, C)
  BY <1>1, <1>3, <1>4, <1>6, <1>7
<1> QED  BY <1>8 DEF S, C

(* A dump that is not refused is read from the database whose marks its     *)
(* horizon will keep: pg_dump, in an environment without PG*, goes to the   *)
(* host, port, database and schema the pool of the marks goes to.  The host *)
(* has to be named: libpq's default is not the driver's.                    *)
THEOREM DumpReadsMarksBase ==
  ASSUME NEW env \in Environments, NEW target \in Target, ConnectionDefaults,
         DumpTarget(target, env), patikrintiZymuTapatuma(target, env)
  PROVE LibpqReaches(PG_DUMP_ARGUMENTAI(target)) = Reaches(pgJungtiesNustatymai(env).settings, env)
<1> DEFINE C == libpqSvariAplinka(env)
           J == pgJungtiesNustatymai(env)
<1>1. Reaches(target.settings, C) = Reaches(J.settings, env)
  <2>1. arTaPatiBaze(target, env, C)  BY DEF patikrintiZymuTapatuma
  <2>2. /\ efektyvusJungtiesParametrai(J, env) # NoIdentity
        /\ efektyvusJungtiesParametrai(target, C) # NoIdentity
        /\ efektyvusJungtiesParametrai(J, env) = efektyvusJungtiesParametrai(target, C)
    BY <2>1 DEF arTaPatiBaze
  <2> HIDE DEF J, C
  <2> QED  BY <2>2, ReachedBase
<1>2. Given(target.settings["host"])  BY DEF DumpTarget
<1>3. ASSUME target.kind = "fields"
      PROVE /\ ~Given(target.settings["options"])
            /\ target.settings["database"] \notin ConnInfo
  <2>1. pgTaikinysPasses(env) /\ target = pgTaikinysIsAplinkos(env)
    BY <1>3 DEF DumpTarget
  <2>2. env.url = Unset
    BY <1>3, <2>1 DEF pgTaikinysIsAplinkos, pgJungtiesNustatymai
  <2>3. \A f \in Parameters \ {"password"} : target.settings[f] = FieldsOf(env)[f]
    BY <2>1, <2>2, OwnTargetSettings
  <2>4. /\ FieldsOf(env)["options"] = Unset
        /\ FieldsOf(env)["database"] = env.pg["PGDATABASE"]
        /\ {"options", "database"} \subseteq Parameters \ {"password"}
    BY DEF FieldsOf, Parameters, PG_ATITIKMENYS, VariableOf
  <2>5. env.pg["PGDATABASE"] \notin ConnInfo  BY <2>1, <2>2 DEF pgTaikinysPasses
  <2> QED  BY <2>3, <2>4, <2>5 DEF Given
<1> QED  BY <1>1, <1>2, <1>3, DumpReads

(* A connection string that is not refused as ambiguous means the same      *)
(* with the variables and without them.                                     *)
THEOREM UnambiguousMeansOne ==
  ASSUME NEW env \in Environments, env.url # Unset, Parses(env.url),
         ~arDviprasmiskaKonfiguracija(env)
  PROVE /\ \A f \in Parameters \ NEREIKSMINGI : ~Differs(f, env.url, env, libpqSvariAplinka(env))
        /\ Reaches(env.url, env) = Reaches(env.url, libpqSvariAplinka(env))
<1> DEFINE C == libpqSvariAplinka(env)
<1>1. \A f \in Parameters \ NEREIKSMINGI : ~Differs(f, env.url, env, C)
  <2>1. jungtiesSemantikosSkirtumai(env) = {}  BY DEF arDviprasmiskaKonfiguracija
  <2>2. {LAUKU_KLASES[f] : f \in {g \in Parameters \ NEREIKSMINGI : Differs(g, env.url, env, C)}} = {}
    BY <2>1 DEF jungtiesSemantikosSkirtumai
  <2> QED  BY <2>2
<1>2. {"host", "port", "database", "options"} \subseteq Parameters \ NEREIKSMINGI
  BY DEF Parameters, NEREIKSMINGI
<1> DEFINE P == ConnectionParameters(env.url, env)
           Q == ConnectionParameters(env.url, C)
<1>3. /\ normalizuotiHosta(P["host"]) = normalizuotiHosta(Q["host"])
      /\ P["port"] = Q["port"] /\ P["database"] = Q["database"] /\ P["options"] = Q["options"]
  BY <1>1, <1>2 DEF Differs, palyginamaReiksme
<1>4. Reaches(env.url, env) = Reaches(env.url, C)
  <2> HIDE DEF P, Q
  <2> QED  BY <1>3 DEF Reaches, P, Q
<1> QED  BY <1>1, <1>4

\* PGPORT is not there, empty, or a number above zero.
PortReadable(env) ==
    /\ env.pg["PGPORT"] # Unset => Given(NumberOf[env.pg["PGPORT"]]) \/ ~Given(env.pg["PGPORT"])

LEMMA NoObstacles ==
  ASSUME NEW env \in Environments, vaikinioProcesoKliutys(env) = {},
         NEW f \in Parameters, f \notin PG_ATITIKMENYS \/ f = "password"
  PROVE ~Given(env.pg[VariableOf[f]])
<1>1. VariableOf[f] \in Variables \ {"PG_POOL_MAX"}  BY DEF Variables, VariableOf, Parameters
<1>2. VariableOf[f] = "PGPASSWORD" \/ VariableOf[f] \notin {VariableOf[g] : g \in PG_ATITIKMENYS}
  BY DEF VariableOf, Parameters, PG_ATITIKMENYS
<1> QED  BY <1>1, <1>2 DEF vaikinioProcesoKliutys

LEMMA OwnValues ==
  ASSUME NEW env \in Environments, vaikinioProcesoKliutys(env) = {}, PortReadable(env),
         Unset # NaN, NEW f \in Parameters
  PROVE val(f, FieldsOf(env), env) =
          IF f # "password" /\ Given(FieldsOf(env)[f]) THEN FieldsOf(env)[f] ELSE Defaults[f]
<1>1. FieldsOf(env)[f] = IF f \notin PG_ATITIKMENYS THEN Unset
                        ELSE IF f = "port" /\ env.pg["PGPORT"] # Unset THEN NumberOf[env.pg["PGPORT"]]
                        ELSE env.pg[VariableOf[f]]
  BY DEF FieldsOf
<1>2. VariableOf["port"] = "PGPORT" /\ VariableOf["password"] = "PGPASSWORD" /\ "password" \in PG_ATITIKMENYS
  BY DEF VariableOf, PG_ATITIKMENYS
<1>3. CASE f \notin PG_ATITIKMENYS \/ f = "password"
  <2>1. ~Given(env.pg[VariableOf[f]])  BY <1>3, NoObstacles
  <2>2. ~Given(FieldsOf(env)[f])  BY <1>1, <1>2, <1>3, <2>1 DEF Given
  <2> QED  BY <2>1, <2>2 DEF val
<1>4. CASE f \in PG_ATITIKMENYS \ {"password", "port"}
  BY <1>1, <1>4 DEF val
<1>5. CASE f = "port"
  <2>1. ~Given(FieldsOf(env)[f]) => ~Given(env.pg[VariableOf[f]])
    BY <1>1, <1>2, <1>5 DEF PortReadable, Given, PG_ATITIKMENYS
  <2> QED  BY <2>1, <1>5 DEF val
<1> QED  BY <1>3, <1>4, <1>5

(* Where the target of a dump is taken from PG*, which the child does not   *)
(* get, the flags alone make libpq take every parameter as the driver does. *)
THEOREM ChildLosesNothing ==
  ASSUME NEW env \in Environments, env.url = Unset, pgTaikinysPasses(env), PortReadable(env),
         Unset # NaN, NEW f \in Parameters
  PROVE libpqVal(f, PG_DUMP_ARGUMENTAI(pgTaikinysIsAplinkos(env)).settings)
            = val(f, pgJungtiesNustatymai(env).settings, env)
<1> DEFINE target == pgTaikinysIsAplinkos(env)
           A == PG_DUMP_ARGUMENTAI(target).settings
<1>1. val(f, FieldsOf(env), env) =
          IF f # "password" /\ Given(FieldsOf(env)[f]) THEN FieldsOf(env)[f] ELSE Defaults[f]
  <2>1. vaikinioProcesoKliutys(env) = {}  BY DEF pgTaikinysPasses
  <2> QED  BY <2>1, OwnValues
<1>2. /\ target.kind = "fields"
      /\ \A g \in Parameters \ {"password"} : target.settings[g] = FieldsOf(env)[g]
      /\ target.settings["password"] = Unset
      /\ target = [kind |-> "fields", settings |-> target.settings]
  <2>1. target = [[kind |-> "fields", settings |-> FieldsOf(env)] EXCEPT !.settings["password"] = Unset]
    BY DEF pgTaikinysIsAplinkos, pgJungtiesNustatymai
  <2> QED  BY <2>1, OwnTargetSettings
<1>3. A[f] = IF f \in Flags(target.settings) THEN target.settings[f] ELSE Unset
  <2> HIDE DEF target
  <2>1. A = [g \in Parameters |-> IF g \in Flags(target.settings) THEN target.settings[g] ELSE Unset]
    BY <1>2 DEF PG_DUMP_ARGUMENTAI
  <2> QED  BY <2>1
<1>4. pgJungtiesNustatymai(env).settings = FieldsOf(env)  BY DEF pgJungtiesNustatymai
<1>5. f \notin Flags(target.settings) => f = "password" \/ ~Given(FieldsOf(env)[f])
  <2>1. f \in Parameters \ PG_ATITIKMENYS => FieldsOf(env)[f] = Unset  BY DEF FieldsOf
  <2>2. f \in PG_ATITIKMENYS \ {"password"} => f \in Flags(target.settings) \/ ~Given(FieldsOf(env)[f])
    <3>1. "port" \in Parameters \ {"password"}  BY DEF Parameters
    <3> HIDE DEF target
    <3> QED  BY <1>2, <3>1 DEF Flags, PG_ATITIKMENYS
  <2> QED  BY <2>1, <2>2 DEF Given
<1>6. f \in Flags(target.settings) => f # "password"  BY DEF Flags
<1>7. f = "host" => Given(FieldsOf(env)[f])
  <2>1. Given(env.pg["PGHOST"])  BY DEF pgTaikinysPasses, arNurodytaPostgres
  <2> QED  BY <2>1 DEF FieldsOf, PG_ATITIKMENYS, VariableOf
<1> HIDE DEF target, A
<1>8. f \in Flags(target.settings) => A[f] = FieldsOf(env)[f]  BY <1>2, <1>3, <1>6
<1>9. f \notin Flags(target.settings) => A[f] = Unset  BY <1>3
<1>10. libpqVal(f, A) = val(f, FieldsOf(env), env)
  <2>1. CASE f \in Flags(target.settings)
    BY <2>1, <1>1, <1>6, <1>7, <1>8 DEF libpqVal
  <2>2. CASE f \notin Flags(target.settings)
    <3>1. f # "host"  BY <2>2 DEF Flags
    <3>2. ~Given(A[f])  BY <2>2, <1>9 DEF Given
    <3>3. val(f, FieldsOf(env), env) = Defaults[f]  BY <2>2, <1>1, <1>5
    <3> QED  BY <3>1, <3>2, <3>3 DEF libpqVal
  <2> QED  BY <2>1, <2>2
<1> QED  BY <1>4, <1>10 DEF A, target

(* The check never refuses a dump whose target the environment itself names,*)
(* in either form, once the earlier checks have passed.                     *)
THEOREM OwnTargetIsMarks ==
  ASSUME NEW env \in Environments, ConnectionDefaults, pgTaikinysPasses(env), PortReadable(env),
         efektyvusJungtiesParametrai(pgJungtiesNustatymai(env), env) # NoIdentity,
         env.url # Unset => Given(env.url["database"]) \/ Given(env.url["user"])
  PROVE patikrintiZymuTapatuma(pgTaikinysIsAplinkos(env), env)
<1> DEFINE target == pgTaikinysIsAplinkos(env)
           C == libpqSvariAplinka(env)
           J == pgJungtiesNustatymai(env)
<1>1. /\ Parses(J.settings)
      /\ NamesBase(J.settings, env)
      /\ Given(Reaches(J.settings, env).host) /\ Given(Reaches(J.settings, env).database)
      /\ efektyvusJungtiesParametrai(J, env) = Reaches(J.settings, env)
  BY DEF efektyvusJungtiesParametrai
<1>2. Reaches(target.settings, C) = Reaches(J.settings, env)
  <2>1. CASE env.url # Unset
    <3>1. J.settings = env.url /\ target.settings = env.url
      BY <2>1 DEF pgTaikinysIsAplinkos, pgJungtiesNustatymai
    <3>2. ~arDviprasmiskaKonfiguracija(env)  BY DEF pgTaikinysPasses
    <3> QED  BY <1>1, <2>1, <3>1, <3>2, UnambiguousMeansOne
  <2>2. CASE env.url = Unset
    <3>1. vaikinioProcesoKliutys(env) = {}  BY DEF pgTaikinysPasses
    <3>2. J.settings = FieldsOf(env)  BY <2>2 DEF pgJungtiesNustatymai
    <3>3. \A f \in Parameters : val(f, FieldsOf(env), env) =
            IF f # "password" /\ Given(FieldsOf(env)[f]) THEN FieldsOf(env)[f] ELSE Defaults[f]
      BY <3>1, OwnValues DEF ConnectionDefaults
    <3>4. \A f \in Parameters : val(f, target.settings, C) =
            IF Given(target.settings[f]) THEN target.settings[f] ELSE Defaults[f]
      BY CleanValues
    <3>5. \A f \in Parameters \ {"password"} : target.settings[f] = FieldsOf(env)[f]
      BY <2>2, OwnTargetSettings
    <3> HIDE DEF target, C, J
    <3>6. \A f \in Parameters \ {"password"} : val(f, target.settings, C) = val(f, FieldsOf(env), env)
      BY <3>3, <3>4, <3>5
    <3>7. {"host", "port", "database", "user", "options"} \subseteq Parameters \ {"password"}
      BY DEF Parameters
    <3> QED  BY <3>2, <3>6, <3>7, ReachedFields
  <2> QED  BY <2>1, <2>2
<1>3. Parses(target.settings) /\ NamesBase(target.settings, C)
  <2>1. CASE env.url # Unset
    BY <1>1, <2>1 DEF pgTaikinysIsAplinkos, pgJungtiesNustatymai, NamesBase
  <2>2. CASE env.url = Unset
    <3>1. target.settings["password"] = Unset
      BY <2>2, OwnTargetSettings
    <3>2. Malformed["password"] = NaN  BY DEF Malformed, Parameters
    <3>3. /\ target.settings["database"] = env.pg["PGDATABASE"]
          /\ target.settings["user"] = env.pg["PGUSER"]
      <4>1. \A f \in Parameters \ {"password"} : target.settings[f] = FieldsOf(env)[f]
        BY <2>2, OwnTargetSettings
      <4>2. /\ FieldsOf(env)["database"] = env.pg["PGDATABASE"]
            /\ FieldsOf(env)["user"] = env.pg["PGUSER"]
            /\ {"database", "user"} \subseteq Parameters \ {"password"}
        BY DEF FieldsOf, Parameters, PG_ATITIKMENYS, VariableOf
      <4> QED  BY <4>1, <4>2
    <3>4. J.settings["database"] = env.pg["PGDATABASE"] /\ J.settings["user"] = env.pg["PGUSER"]
      BY <2>2 DEF pgJungtiesNustatymai, FieldsOf, Parameters, PG_ATITIKMENYS, VariableOf
    <3>5. Given(env.pg["PGDATABASE"]) \/ Given(env.pg["PGUSER"])
      BY <1>1, <3>4 DEF NamesBase
    <3> HIDE DEF target
    <3> QED  BY <3>1, <3>2, <3>3, <3>5 DEF Parses, NamesBase, ConnectionDefaults
  <2> QED  BY <2>1, <2>2
<1>4. efektyvusJungtiesParametrai(target, C) = Reaches(target.settings, C)
  <2> HIDE DEF target, C, J
  <2> QED  BY <1>1, <1>2, <1>3 DEF efektyvusJungtiesParametrai
<1>5. arTaPatiBaze(target, env, C)
  <2> HIDE DEF target, C
  <2> QED  BY <1>1, <1>2, <1>4 DEF arTaPatiBaze
<1> QED  BY <1>5 DEF patikrintiZymuTapatuma, pgTaikinysPasses
-----------------------------------------------------------------------------
(* What is known of an external result. *)

\* A row as the finish of a job writes it, with the receipt of the put.
RowOf(v, type) ==
    [storage_type |-> type, payload |-> Nothing, bytes |-> Size[Canonical[v]],
     checksum |-> [form |-> "hex", of |-> Canonical[v]]]

ExternalTypes == Backends \ {"inline"}

(* An object found intact is the one that was read, not the one head() saw: *)
(* its size and its sum are the expected ones, and it is within the limit.  *)
THEOREM VerifiedContent ==
    ASSUME NEW expected, NEW limit \in Nat,
           NEW size \in Nat \cup {Nothing}, NEW stream \in Contents \cup {Nothing},
           ContentsAssumption, verify(expected, limit, size, stream).ok
    PROVE  /\ stream \in Contents
           /\ Size[stream] = normalizedBytes(expected.bytes)
           /\ sha256(stream) = normalizedChecksum(expected.checksum)
           /\ Size[stream] <= limit
<1> DEFINE known == ivertintiLaukimoBaitus(expected, limit)
           verdict == verify(expected, limit, size, stream)
<1>1. \A i, r : ~nesancioVerdiktas(i).ok /\ ~neverifikuojamasVerdiktas(i, r).ok
  BY DEF nesancioVerdiktas, neverifikuojamasVerdiktas, Verdict
<1>2. \A b, s, i : vientisumoVerdiktas(expected, b, s, i).ok
                     <=> normalizedBytes(expected.bytes) = b /\ normalizedChecksum(expected.checksum) = s
  BY DEF vientisumoVerdiktas, Verdict
<1>3. known.bytes = normalizedBytes(expected.bytes)
  BY DEF ivertintiLaukimoBaitus
<1> HIDE DEF known
<1>4. /\ size # Nothing /\ size <= limit /\ known.priezastis = Nothing
      /\ ~(tinka(known) /\ size # known.bytes)
  <2>1. CASE size = Nothing
    BY <2>1, <1>1 DEF verify, verifyStream
  <2>2. CASE size # Nothing /\ known.priezastis # Nothing
    BY <2>2, <1>1 DEF verify, verifyStream, known
  <2>3. CASE size # Nothing /\ known.priezastis = Nothing /\ size > limit
    BY <2>3, <1>1 DEF verify, verifyStream, known
  <2>4. CASE size # Nothing /\ known.priezastis = Nothing /\ ~(size > limit)
             /\ tinka(known) /\ size # known.bytes
    <3>1. verdict = vientisumoVerdiktas(expected, size, Nothing, TRUE)
      BY <2>4 DEF verify, verifyStream, known
    <3> QED
      BY <2>4, <3>1, <1>2, <1>3
  <2>5. size # Nothing => size \in Nat
    OBVIOUS
  <2> QED
    BY <2>1, <2>2, <2>3, <2>4, <2>5
<1>5. stream # Nothing /\ ~(Size[stream] > size)
  BY <1>1, <1>4 DEF verify, verifyStream, known
<1>6. Size[stream] \in Nat /\ size \in Nat
  BY <1>4, <1>5 DEF ContentsAssumption
<1>7. verdict = vientisumoVerdiktas(expected, Size[stream], sha256(stream), TRUE)
  <2>1. ~(size > limit)
    BY <1>4, <1>6
  <2> QED
    BY <1>4, <1>5, <2>1 DEF verify, verifyStream, known
<1>8. normalizedBytes(expected.bytes) = Size[stream] /\ normalizedChecksum(expected.checksum) = sha256(stream)
  BY <1>2, <1>7
<1> QED
  BY <1>4, <1>5, <1>6, <1>8

(* The result of a job, put and read back: the receipt that went into the   *)
(* row finds the object intact and the job gets the value it finished with, *)
(* as long as the limit has not been lowered under the size of the result.  *)
THEOREM PutReadsBack ==
    ASSUME NEW v \in Values, NEW type \in ExternalTypes, NEW registered, type \in registered,
           NEW limit \in Nat, Size[Canonical[v]] <= limit, Size[Canonical[v]] <= MaxSafe,
           MaxSafe \in Nat, ContentsAssumption
    PROVE  /\ patikrintiEilute(RowOf(v, type), registered, limit,
                               [failed |-> FALSE, size |-> Size[Canonical[v]], stream |-> Canonical[v]]) = "patikrinta"
           /\ hidratuotiRezultata(RowOf(v, type), registered, limit, Canonical[v])
                = [ok |-> TRUE, reiksme |-> v]
<1> DEFINE c == Canonical[v]
           n == Size[c]
           row == RowOf(v, type)
           found == [failed |-> FALSE, size |-> n, stream |-> c]
           expected == [bytes |-> [form |-> "number", n |-> n], checksum |-> [form |-> "hex", of |-> c]]
           known == ivertintiLaukimoBaitus(expected, limit)
<1>1. c \in Contents /\ n \in Nat /\ n > 0 /\ Parsed[c] = v /\ c \in DOMAIN Parsed /\ c # Nothing
      /\ n # Nothing /\ n <= limit /\ n <= MaxSafe
  BY DEF ContentsAssumption
<1>2. External(row) /\ row.storage_type = type /\ row.bytes = n
      /\ row.checksum = [form |-> "hex", of |-> c]
  BY DEF External, RowOf, ExternalTypes, ContentsAssumption
<1> HIDE DEF c, n, row
<1>3. expected.bytes # Nothing /\ expected.checksum # Nothing
  BY <1>1 DEF ContentsAssumption
<1>4. /\ expected.bytes.form = "number" /\ expected.bytes.n = n
      /\ expected.checksum.form = "hex" /\ expected.checksum.of = c
  OBVIOUS
<1>5. normalizedBytes(expected.bytes) = n /\ normalizedChecksum(expected.checksum) = sha256(c)
  BY <1>3, <1>4 DEF normalizedBytes, normalizedChecksum
<1>6. ~BadBytes(expected.bytes) /\ ~BadChecksum(expected.checksum)
  BY <1>1, <1>3, <1>4 DEF BadBytes, BadChecksum
<1> HIDE DEF expected
<1>7. known.priezastis = Nothing /\ known.bytes = n
  BY <1>1, <1>5, <1>6 DEF ivertintiLaukimoBaitus
<1> HIDE DEF known
<1>8. verify(expected, limit, n, c) = vientisumoVerdiktas(expected, n, sha256(c), TRUE)
  <2>1. ~(Size[c] > n) /\ Size[c] = n /\ ~(n > limit) /\ ~(tinka(known) /\ n # known.bytes)
    BY <1>1, <1>7 DEF n
  <2> QED
    BY <1>1, <1>7, <2>1 DEF verify, verifyStream, known
<1>9. /\ verify(expected, limit, n, c).ok /\ verify(expected, limit, n, c).exists
      /\ verify(expected, limit, n, c).nepriklausomas
  BY <1>5, <1>8 DEF vientisumoVerdiktas, Verdict
<1>10. patikrintiEilute(row, registered, limit, found) = "patikrinta"
  <2>1. found.size = n /\ found.stream = c /\ ~found.failed
    OBVIOUS
  <2> HIDE DEF found
  <2> QED
    BY <1>2, <1>9, <2>1 DEF patikrintiEilute, expected
<1>11. hidratuotiRezultata(row, registered, limit, c) = [ok |-> TRUE, reiksme |-> v]
  BY <1>1, <1>2 DEF hidratuotiRezultata, skaitytiRibotai, Readable, atkurtiReiksme, n
<1> QED
  BY <1>10, <1>11 DEF c, n, row

(* Whoever finds an object intact by the row of a result can read that      *)
(* result from what was found, however the object came to be there: the sum *)
(* leaves room for one content only.                                        *)
THEOREM VerifiedReads ==
    ASSUME NEW v \in Values, NEW type \in ExternalTypes, NEW registered, NEW limit \in Nat,
           NEW failed \in BOOLEAN, NEW size \in Nat \cup {Nothing},
           NEW stream \in Contents \cup {Nothing}, ContentsAssumption,
           patikrintiEilute(RowOf(v, type), registered, limit,
                            [failed |-> failed, size |-> size, stream |-> stream]) = "patikrinta"
    PROVE  hidratuotiRezultata(RowOf(v, type), registered, limit, stream)
             = [ok |-> TRUE, reiksme |-> v]
<1> DEFINE c == Canonical[v]
           n == Size[c]
           row == RowOf(v, type)
           found == [failed |-> failed, size |-> size, stream |-> stream]
           expected == [bytes |-> [form |-> "number", n |-> n], checksum |-> [form |-> "hex", of |-> c]]
<1>1. c \in Contents /\ n \in Nat /\ Parsed[c] = v /\ c \in DOMAIN Parsed /\ c # Nothing
  BY DEF ContentsAssumption
<1>2. External(row) /\ row.storage_type = type /\ row.bytes = n
      /\ row.checksum = [form |-> "hex", of |-> c]
  BY DEF External, RowOf, ExternalTypes, ContentsAssumption
<1>3. found.size = size /\ found.stream = stream
  OBVIOUS
<1> HIDE DEF c, n, row, found
<1>4. expected.bytes # Nothing /\ expected.checksum # Nothing
  BY <1>1 DEF ContentsAssumption
<1>5. normalizedBytes(expected.bytes) = n /\ normalizedChecksum(expected.checksum) = sha256(c)
  BY <1>4 DEF normalizedBytes, normalizedChecksum
<1>6. patikrintiEilute(row, registered, limit, found) = "patikrinta"
  BY DEF row, found
<1>7. type \in registered /\ verify(expected, limit, size, stream).ok
  BY <1>2, <1>3, <1>6 DEF patikrintiEilute
<1> HIDE DEF expected
<1>8. /\ stream \in Contents /\ Size[stream] = n /\ sha256(stream) = sha256(c) /\ Size[stream] <= limit
  BY <1>5, <1>7, VerifiedContent
<1>9. stream = c
  BY <1>8 DEF sha256
<1> QED
  BY <1>1, <1>2, <1>7, <1>8, <1>9
     DEF hidratuotiRezultata, skaitytiRibotai, Readable, atkurtiReiksme, row

(* Whatever lies under the key of an external result, a job is given a      *)
(* value of the domain that is exactly as long as its row says and within   *)
(* the limit of the process that reads, or nothing at all.                  *)
THEOREM ReadIsBounded ==
    ASSUME NEW row \in Row, External(row), NEW registered, NEW limit \in Nat,
           NEW stream \in Contents \cup {Nothing}, ContentsAssumption,
           hidratuotiRezultata(row, registered, limit, stream).ok
    PROVE  /\ row.storage_type \in registered
           /\ stream \in Contents
           /\ Size[stream] = row.bytes /\ Size[stream] <= limit
           /\ hidratuotiRezultata(row, registered, limit, stream).reiksme \in Values
<1>1. ~Failed.ok
  BY DEF Failed
<1>2. row.bytes \in Nat /\ row.bytes # Nothing
  BY DEF Row, ContentsAssumption
<1>3. /\ row.storage_type \in registered /\ ~(row.bytes > limit)
      /\ skaitytiRibotai(limit, row.bytes, stream).ok
      /\ hidratuotiRezultata(row, registered, limit, stream) = skaitytiRibotai(limit, row.bytes, stream)
  BY <1>1 DEF hidratuotiRezultata
<1>4. /\ stream # Nothing /\ Size[stream] <= limit /\ Size[stream] = row.bytes /\ Readable(stream)
      /\ skaitytiRibotai(limit, row.bytes, stream).reiksme = Parsed[stream]
  BY <1>1, <1>2, <1>3 DEF skaitytiRibotai, atkurtiReiksme
<1> QED
  BY <1>3, <1>4 DEF Readable

(* A process that asked the database and started has a store for every row  *)
(* and every attempt: no read of a result, no check after a restore and no  *)
(* deletion fails for want of one.                                          *)
THEOREM StartedReadsAll ==
    ASSUME NEW rows \in SUBSET Row, NEW attempts \in SUBSET (Backends \ {"inline"}),
           NEW registered \in SUBSET Backends,
           ~arStabdytiStarta(registered, nustatytiReikalingusTipus(rows, attempts), FALSE)
    PROVE  /\ attempts \subseteq registered
           /\ \A limit, found : \A row \in rows :
                patikrintiEilute(row, registered, limit, found) # "saugykla_neregistruota"
<1> DEFINE required == nustatytiReikalingusTipus(rows, attempts)
<1>1. \A t \in required : t # "inline" => t \in registered
  BY DEF arStabdytiStarta, truksta
<1>2. attempts \subseteq required /\ \A row \in rows : External(row) => row.storage_type \in required
  BY DEF nustatytiReikalingusTipus
<1> HIDE DEF required
<1>3. attempts \subseteq registered
  BY <1>1, <1>2
<1>4. \A row \in rows : External(row) => row.storage_type \in registered
  BY <1>1, <1>2 DEF External
<1>5. ASSUME NEW row \in rows, NEW limit, NEW found
      PROVE  patikrintiEilute(row, registered, limit, found) # "saugykla_neregistruota"
  BY <1>4, <1>5 DEF patikrintiEilute
<1> QED
  BY <1>3, <1>5

(* A report without failures means that every external result was compared  *)
(* with a sum kept apart from it; an inline result, which could only be     *)
(* compared with itself, is never counted as compared.                      *)
THEOREM ReportCountsComparisons ==
    ASSUME NEW rows \in Seq(Row), NEW registered, NEW limit \in Nat,
           NEW found \in [DOMAIN rows -> [failed : BOOLEAN, size : Nat \cup {Nothing},
                                          stream : Contents \cup {Nothing}]],
           ContentsAssumption,
           sudarytiAtaskaita([i \in DOMAIN rows |->
               patikrintiEilute(rows[i], registered, limit, found[i])]).ok
    PROVE  \A i \in DOMAIN rows :
             /\ External(rows[i]) =>
                  /\ patikrintiEilute(rows[i], registered, limit, found[i]) = "patikrinta"
                  /\ found[i].stream \in Contents
                  /\ sha256(found[i].stream) = normalizedChecksum(rows[i].checksum)
             /\ ~External(rows[i]) =>
                  patikrintiEilute(rows[i], registered, limit, found[i]) = "nepatikrinama_inline"
<1> DEFINE verdicts == [i \in DOMAIN rows |-> patikrintiEilute(rows[i], registered, limit, found[i])]
<1>1. \A i \in DOMAIN rows : verdicts[i] \notin NESEKMES
  BY DEF sudarytiAtaskaita
<1>2. ASSUME NEW i \in DOMAIN rows PROVE patikrintiEilute(rows[i], registered, limit, found[i]) \notin NESEKMES
  BY <1>1
<1>3. ASSUME NEW i \in DOMAIN rows, External(rows[i])
      PROVE  /\ patikrintiEilute(rows[i], registered, limit, found[i]) = "patikrinta"
             /\ found[i].stream \in Contents
             /\ sha256(found[i].stream) = normalizedChecksum(rows[i].checksum)
  <2> DEFINE expected == [bytes |-> [form |-> "number", n |-> rows[i].bytes], checksum |-> rows[i].checksum]
             verdict == verify(expected, limit, found[i].size, found[i].stream)
  <2>1. /\ patikrintiEilute(rows[i], registered, limit, found[i]) = "patikrinta"
        /\ verdict.ok
    BY <1>2, <1>3 DEF patikrintiEilute, NESEKMES
  <2>2. expected.checksum = rows[i].checksum
    OBVIOUS
  <2>3. found[i].size \in Nat \cup {Nothing} /\ found[i].stream \in Contents \cup {Nothing}
    OBVIOUS
  <2> HIDE DEF expected
  <2>4. /\ found[i].stream \in Contents
        /\ sha256(found[i].stream) = normalizedChecksum(expected.checksum)
    BY <2>1, <2>3, VerifiedContent
  <2> QED
    BY <2>1, <2>2, <2>4
<1>4. ASSUME NEW i \in DOMAIN rows, ~External(rows[i])
      PROVE  patikrintiEilute(rows[i], registered, limit, found[i]) = "nepatikrinama_inline"
  BY <1>4 DEF patikrintiEilute
<1> QED
  BY <1>3, <1>4
-----------------------------------------------------------------------------
(* Records and their persistent forms. *)

FieldValues(f) ==
    IF f \in BOOLEAN_FIELDS THEN [type : {"boolean"}, of : {"true", "false"}]
    ELSE IF f \in NUMBER_FIELDS THEN [type : {"number"}, of : Int]
    ELSE IF f \in JSON_FIELDS THEN [type : {"object"}, of : Data]
    ELSE [type : {"string"}, of : Texts \ {EmptyText}]

\* A record, or a patch, as the program builds them: no empty text.
TypedFields(job) ==
    /\ job = [f \in DOMAIN job |-> job[f]] /\ DOMAIN job \subseteq Fields
    /\ \A f \in DOMAIN job : job[f] = Null \/ job[f] \in FieldValues(f)

LEMMA Kinds ==
    ASSUME NEW f \in Fields, NEW v, v \in FieldValues(f)
    PROVE  /\ f \in BOOLEAN_FIELDS => v = True \/ v = False
           /\ f \in NUMBER_FIELDS => v.of \in Int /\ v = Num(v.of)
           /\ f \in JSON_FIELDS => v.of \in Data /\ v = Obj(v.of)
           /\ f \in TEXT_FIELDS => v.of \in Texts \ {EmptyText} /\ v = Str(v.of)
<1>1. ASSUME f \in BOOLEAN_FIELDS PROVE v = True \/ v = False
  BY <1>1 DEF FieldValues, True, False, Bool
<1>2. ASSUME f \in NUMBER_FIELDS PROVE v.of \in Int /\ v = Num(v.of)
  BY <1>2 DEF FieldValues, NUMBER_FIELDS, BOOLEAN_FIELDS, Num
<1>3. ASSUME f \in JSON_FIELDS PROVE v.of \in Data /\ v = Obj(v.of)
  BY <1>3 DEF FieldValues, NUMBER_FIELDS, BOOLEAN_FIELDS, JSON_FIELDS, Obj
<1>4. ASSUME f \in TEXT_FIELDS PROVE v.of \in Texts \ {EmptyText} /\ v = Str(v.of)
  BY <1>4 DEF FieldValues, NUMBER_FIELDS, BOOLEAN_FIELDS, JSON_FIELDS, TEXT_FIELDS, Str
<1> QED
  BY <1>1, <1>2, <1>3, <1>4

LEMMA JsValues ==
    ASSUME EncodingAssumption
    PROVE  /\ True \in JsValue /\ False \in JsValue
           /\ \A n \in Int : Num(n) \in JsValue
           /\ \A t \in Texts : Str(t) \in JsValue
           /\ \A d \in Data : Obj(d) \in JsValue
BY DEF JsValue, True, False, Bool, Num, Str, Obj

LEMMA Encoded ==
    ASSUME EncodingAssumption, NEW f \in Fields, NEW v, v \in FieldValues(f)
    PROVE  /\ v # Null
           /\ normalizeFieldValue(f, v) = v
           /\ f \notin JSON_FIELDS => /\ v.type # "object" /\ Text[v] # EmptyText
                                      /\ normalizeFieldValue(f, Str(Text[v])) = v
<1>0. v \in JsValue /\ v # Null
  BY Kinds, JsValues DEF Fields, EncodingAssumption
<1>t. \A t \in Texts : Text[Str(t)] = t /\ Str(t) # Null
  BY JsValues DEF EncodingAssumption
<1>v. Text[v] \in Texts
  BY <1>0 DEF EncodingAssumption
<1>1. ASSUME f \in BOOLEAN_FIELDS
      PROVE  /\ v.type # "object" /\ Text[v] # EmptyText
             /\ normalizeFieldValue(f, v) = v /\ normalizeFieldValue(f, Str(Text[v])) = v
  <2>1. f # "schemaVersion"
    BY <1>1 DEF BOOLEAN_FIELDS
  <2>2. CASE v = True
    <3>1. normalizeFieldValue(f, v) = v
      BY <1>0, <1>1, <2>1, <2>2 DEF normalizeFieldValue, EncodingAssumption, True
    <3>2. Text[Str(Text[v])] \in TrueTexts /\ Str(Text[v]) # Null
      BY <1>t, <1>v, <2>2 DEF EncodingAssumption
    <3> QED
      BY <1>1, <2>1, <2>2, <3>1, <3>2 DEF normalizeFieldValue, EncodingAssumption, True, Bool
  <2>3. CASE v = False
    <3>1. normalizeFieldValue(f, v) = v
      BY <1>0, <1>1, <2>1, <2>3 DEF normalizeFieldValue, EncodingAssumption, False
    <3>2. Text[Str(Text[v])] \notin TrueTexts /\ Str(Text[v]) # Null
      BY <1>t, <1>v, <2>3 DEF EncodingAssumption
    <3> QED
      BY <1>1, <2>1, <2>3, <3>1, <3>2 DEF normalizeFieldValue, EncodingAssumption, False, Bool
  <2> QED
    BY <1>1, <2>2, <2>3, Kinds
<1>2. ASSUME f \in NUMBER_FIELDS
      PROVE  /\ v.type # "object" /\ Text[v] # EmptyText
             /\ normalizeFieldValue(f, v) = v /\ normalizeFieldValue(f, Str(Text[v])) = v
  <2>1. PICK n \in Int : v = Num(n)
    BY <1>2, Kinds
  <2>2. f \notin BOOLEAN_FIELDS
    BY <1>2 DEF BOOLEAN_FIELDS, NUMBER_FIELDS
  <2>3. /\ Text[v] # EmptyText /\ ParseInt[Text[v]] = n
        /\ Text[v] \in DOMAIN Number /\ Number[Text[v]] = n
    BY <2>1 DEF EncodingAssumption
  <2>4. Text[Str(Text[v])] = Text[v] /\ Str(Text[v]) # Null
    BY <1>t, <1>v
  <2>5. v.type = "number"
    BY <2>1 DEF Num
  <2>6. CASE f = "schemaVersion"
    BY <1>0, <2>1, <2>3, <2>4, <2>5, <2>6 DEF normalizeFieldValue, normalizeSchemaVersion
  <2>7. CASE f # "schemaVersion"
    BY <1>0, <1>2, <2>1, <2>2, <2>3, <2>4, <2>5, <2>7 DEF normalizeFieldValue
  <2> QED
    BY <2>6, <2>7
<1>3. ASSUME f \in JSON_FIELDS
      PROVE  normalizeFieldValue(f, v) = v
  BY <1>3 DEF normalizeFieldValue, BOOLEAN_FIELDS, NUMBER_FIELDS, JSON_FIELDS
<1>4. ASSUME f \in TEXT_FIELDS
      PROVE  /\ v.type # "object" /\ Text[v] # EmptyText
             /\ normalizeFieldValue(f, v) = v /\ normalizeFieldValue(f, Str(Text[v])) = v
  <2>1. PICK t \in Texts \ {EmptyText} : v = Str(t)
    BY <1>4, Kinds
  <2>2. Text[v] = t
    BY <1>t, <2>1
  <2>3. \A w : normalizeFieldValue(f, w) = w
    BY <1>4 DEF normalizeFieldValue, BOOLEAN_FIELDS, NUMBER_FIELDS, TEXT_FIELDS
  <2>4. v.type = "string"
    BY <2>1 DEF Str
  <2> QED
    BY <2>1, <2>2, <2>3, <2>4
<1>5. f \notin JSON_FIELDS => f \in BOOLEAN_FIELDS \cup NUMBER_FIELDS \cup TEXT_FIELDS
  BY DEF Fields
<1> QED
  BY <1>0, <1>1, <1>2, <1>3, <1>4, <1>5

(* What Redis keeps of a record is the record: the texts of the hash parse   *)
(* back to the values they were made of, field by field, with their types.   *)
THEOREM RedisKeepsRecord ==
    ASSUME EncodingAssumption, NEW job, TypedFields(job)
    PROVE  deserialize(serialize(job)) = job
<1> DEFINE flat == serialize(job)
<1>1. DOMAIN flat = DOMAIN job /\ \A f \in DOMAIN job : f \in Fields
  BY DEF serialize, TypedFields
<1>2. ASSUME NEW f \in DOMAIN job
      PROVE  deserialize(flat)[f] = job[f]
  <2>1. CASE job[f] = Null
    <3>1. flat[f] = EmptyText
      BY <2>1 DEF serialize
    <3> HIDE DEF flat
    <3> QED
      BY <1>1, <2>1, <3>1 DEF deserialize
  <2>2. CASE job[f] # Null /\ f \in JSON_FIELDS
    <3>1. PICK d \in Data : job[f] = Obj(d)
      BY <1>1, <2>2, Kinds DEF TypedFields
    <3>2. flat[f] = Json[d]
      BY <2>2, <3>1 DEF serialize, Obj
    <3>3. flat[f] # EmptyText /\ flat[f] \in DOMAIN ParseJson /\ ParseJson[flat[f]] = d
      BY <3>2 DEF EncodingAssumption
    <3> HIDE DEF flat
    <3> QED
      BY <1>1, <2>2, <3>1, <3>3 DEF deserialize
  <2>3. CASE job[f] # Null /\ f \notin JSON_FIELDS
    <3>1. job[f] \in FieldValues(f)
      BY <2>3 DEF TypedFields
    <3>2. /\ job[f].type # "object" /\ Text[job[f]] # EmptyText
          /\ normalizeFieldValue(f, Str(Text[job[f]])) = job[f]
      BY <1>1, <2>3, <3>1, Encoded
    <3>3. flat[f] = Text[job[f]]
      BY <2>3, <3>2 DEF serialize
    <3> HIDE DEF flat
    <3> QED
      BY <1>1, <2>3, <3>2, <3>3 DEF deserialize
  <2> QED
    BY <2>1, <2>2, <2>3
<1>3. deserialize(flat) = [f \in DOMAIN job |-> deserialize(flat)[f]]
  <2> HIDE DEF flat
  <2> QED
    BY <1>1 DEF deserialize
<1>4. job = [f \in DOMAIN job |-> job[f]]
  BY DEF TypedFields
<1> HIDE DEF flat
<1>5. [f \in DOMAIN job |-> deserialize(flat)[f]] = [f \in DOMAIN job |-> job[f]]
  BY <1>2
<1> QED
  BY <1>3, <1>4, <1>5 DEF flat

-----------------------------------------------------------------------------
(* Changes. *)

\* A version a write may find: absent, or counted by the store.
Versioned(job) ==
    /\ "version" \in DOMAIN job
    /\ job["version"] \in [type : {"number"}, of : Nat \ {0}]

LEMMA NormalizeKeeps ==
    ASSUME EncodingAssumption, NEW job, TypedFields(job), "version" \in DOMAIN job,
           job["version"] # Null
    PROVE  normalizeJob(job) = job
<1>1. \A f \in DOMAIN job : normalizeFieldValue(f, job[f]) = job[f]
  BY Encoded DEF TypedFields, normalizeFieldValue
<1>2. DOMAIN job \cup {"version"} = DOMAIN job /\ Get(job, "version") # Null
  BY DEF Get
<1>3. normalizeJob(job) = [f \in DOMAIN job |-> normalizeFieldValue(f, job[f])]
  BY <1>2 DEF normalizeJob
<1>4. job = [f \in DOMAIN job |-> job[f]]
  BY DEF TypedFields
<1> QED
  BY <1>1, <1>3, <1>4

\* The fields a change derives from others.
Stamped(job, patch) ==
    (IF Starts(job, patch) THEN {"started_at"} ELSE {})
    \cup (IF Completes(job, patch) THEN {"completed_at"} ELSE {})

Copied(patch) ==
    (IF "error" \in DOMAIN patch /\ "error_message" \notin DOMAIN patch THEN {"error_message"} ELSE {})
    \cup (IF "error_message" \in DOMAIN patch /\ "error" \notin DOMAIN patch THEN {"error"} ELSE {})

PatchedFields(job, patch) ==
    (DOMAIN job \cup DOMAIN patch \cup {"id", "updatedAt", "version"}
     \cup Stamped(job, patch) \cup Copied(patch))
    \ (IF "schemaVersion" \in DOMAIN job THEN {} ELSE {"schemaVersion"})

LEMMA Patched ==
    ASSUME EncodingAssumption, NEW job, NEW patch, NEW now \in Texts \ {EmptyText},
           TypedFields(job), TypedFields(patch), Versioned(job), "id" \in DOMAIN job
    PROVE  LET next == applyPatch(job, patch, now)
           IN  /\ DOMAIN next = PatchedFields(job, patch)
               /\ TypedFields(next) /\ Versioned(next)
               /\ \A f \in KEPT \cap DOMAIN job : f \in DOMAIN next /\ next[f] = job[f]
               /\ next["updatedAt"] = Str(now)
               /\ next["version"] = Num(job["version"].of + 1)
               /\ \A f \in Stamped(job, patch) : next[f] = Str(now)
               /\ "error" \in Copied(patch) => next["error"] = patch["error_message"]
               /\ "error_message" \in Copied(patch) => next["error_message"] = patch["error"]
               /\ \A f \in DOMAIN next \ (KEPT \cap DOMAIN job) :
                    f \notin {"updatedAt", "version"} \cup Stamped(job, patch) \cup Copied(patch) =>
                        next[f] = IF f \in DOMAIN patch THEN patch[f] ELSE job[f]
<1> DEFINE value(f) ==
               CASE f \in KEPT \cap DOMAIN job      -> job[f]
                 [] f \in {"updatedAt"} \cup Stamped(job, patch) -> Str(now)
                 [] f = "version"                   -> Num(Or(Get(job, "version"), Num(0)).of + 1)
                 [] f \in Copied(patch)             ->
                       IF f = "error" THEN patch["error_message"] ELSE patch["error"]
                 [] OTHER                           -> IF f \in DOMAIN patch THEN patch[f] ELSE job[f]
           raw == [f \in PatchedFields(job, patch) |-> value(f)]
<1>1. applyPatch(job, patch, now) = normalizeJob(raw)
  BY DEF applyPatch, Stamped, Copied, PatchedFields
<1>2. /\ Stamped(job, patch) \subseteq {"started_at", "completed_at"}
      /\ Copied(patch) \subseteq {"error", "error_message"}
  BY DEF Stamped, Copied
<1>3. ASSUME NEW f \in KEPT \cap DOMAIN job
      PROVE  value(f) = job[f]
  <2>1. f \notin {"updatedAt", "version"} \cup Stamped(job, patch) \cup Copied(patch)
    BY <1>2 DEF KEPT
  <2> QED
    BY <2>1
<1>4. \A f \in {"updatedAt"} \cup Stamped(job, patch) : value(f) = Str(now)
  BY <1>2 DEF KEPT
<1>5. value("version") = Num(job["version"].of + 1)
  <2>1. Or(Get(job, "version"), Num(0)) = job["version"]
    BY DEF Or, Get, Versioned, EncodingAssumption, JsValue
  <2> QED
    BY <1>2, <2>1 DEF KEPT
<1>6. \A f \in Copied(patch) : value(f) = IF f = "error" THEN patch["error_message"] ELSE patch["error"]
  BY <1>2 DEF KEPT
<1>7. \A f \in PatchedFields(job, patch) \ (KEPT \cap DOMAIN job) :
         f \notin {"updatedAt", "version"} \cup Stamped(job, patch) \cup Copied(patch) =>
             value(f) = IF f \in DOMAIN patch THEN patch[f] ELSE job[f]
  OBVIOUS
<1> HIDE DEF value
<1>8. DOMAIN raw = PatchedFields(job, patch) /\ \A f \in DOMAIN raw : raw[f] = value(f)
  OBVIOUS
<1>9. {"id", "updatedAt", "version", "error", "error_message", "started_at", "completed_at"} \subseteq Fields
  BY DEF Fields, TEXT_FIELDS, NUMBER_FIELDS
<1>10. PatchedFields(job, patch) \subseteq Fields
  BY <1>2, <1>9 DEF PatchedFields, TypedFields
<1>11. ASSUME NEW f \in PatchedFields(job, patch)
       PROVE  value(f) = Null \/ value(f) \in FieldValues(f)
  <2>1. CASE f \in KEPT \cap DOMAIN job
    BY <1>3, <2>1 DEF TypedFields
  <2>2. CASE f \in {"updatedAt"} \cup Stamped(job, patch)
    <3>1. Str(now) \in FieldValues(f)
      BY <1>2, <2>2 DEF FieldValues, BOOLEAN_FIELDS, NUMBER_FIELDS, JSON_FIELDS, Str
    <3> QED
      BY <1>4, <2>2, <3>1
  <2>3. CASE f = "version"
    <3>1. job["version"].of + 1 \in Int
      BY DEF Versioned
    <3>2. Num(job["version"].of + 1) \in FieldValues("version")
      BY <3>1 DEF FieldValues, BOOLEAN_FIELDS, NUMBER_FIELDS, Num
    <3> QED
      BY <1>5, <2>3, <3>2
  <2>4. CASE f \in Copied(patch)
    <3>1. FieldValues("error") = FieldValues("error_message")
      BY DEF FieldValues, BOOLEAN_FIELDS, NUMBER_FIELDS, JSON_FIELDS
    <3>2. f = "error" => "error_message" \in DOMAIN patch
      BY <2>4 DEF Copied
    <3>3. f = "error_message" => "error" \in DOMAIN patch
      BY <2>4 DEF Copied
    <3> QED
      BY <1>2, <1>6, <2>4, <3>1, <3>2, <3>3 DEF TypedFields
  <2>5. CASE f \notin (KEPT \cap DOMAIN job) \cup {"updatedAt", "version"} \cup Stamped(job, patch)
                       \cup Copied(patch)
    <3>1. value(f) = IF f \in DOMAIN patch THEN patch[f] ELSE job[f]
      BY <1>7, <2>5
    <3>2. f = "id" \/ f \in DOMAIN patch \/ f \in DOMAIN job
      BY <2>5 DEF PatchedFields
    <3>3. "id" \in DOMAIN job
      OBVIOUS
    <3> QED
      BY <3>1, <3>2, <3>3 DEF TypedFields
  <2> QED
    BY <2>1, <2>2, <2>3, <2>4, <2>5
<1>12. "version" \in PatchedFields(job, patch) /\ "updatedAt" \in PatchedFields(job, patch)
  BY DEF PatchedFields
<1>13. value("version") \in [type : {"number"}, of : Nat \ {0}] /\ value("version") # Null
  <2>1. job["version"].of + 1 \in Nat \ {0}
    BY DEF Versioned
  <2> QED
    BY <1>5, <2>1, JsValues DEF Num, EncodingAssumption
<1>14. TypedFields(raw)
  BY <1>8, <1>10, <1>11 DEF TypedFields
<1>15. applyPatch(job, patch, now) = raw
  <2>1. "version" \in DOMAIN raw /\ raw["version"] # Null
    BY <1>8, <1>12, <1>13
  <2> HIDE DEF raw
  <2> QED
    BY <1>1, <1>14, <2>1, NormalizeKeeps
<1>16. Versioned(raw)
  BY <1>8, <1>12, <1>13 DEF Versioned
<1>17. \A f \in KEPT \cap DOMAIN job : f \in PatchedFields(job, patch)
  BY DEF PatchedFields
<1>18. /\ Stamped(job, patch) \subseteq PatchedFields(job, patch)
       /\ Copied(patch) \subseteq PatchedFields(job, patch)
  BY <1>2 DEF PatchedFields
<1> HIDE DEF raw
<1> QED
  BY <1>3, <1>4, <1>5, <1>6, <1>7, <1>8, <1>12, <1>14, <1>15, <1>16, <1>17, <1>18

(* A change keeps what a record is known by, whatever the patch says: who   *)
(* owns it, its tenant, the key it was asked for with and when it was       *)
(* created; a record of the old era stays one; and the version goes up by   *)
(* one, so that a writer who read the record before is refused.             *)
THEOREM PatchKeepsIdentity ==
    ASSUME EncodingAssumption, NEW job, NEW patch, NEW now \in Texts \ {EmptyText},
           TypedFields(job), TypedFields(patch), Versioned(job), "id" \in DOMAIN job
    PROVE  LET next == applyPatch(job, patch, now)
           IN  /\ \A f \in KEPT \cap DOMAIN job : Get(next, f) = job[f]
               /\ "schemaVersion" \in DOMAIN next <=> "schemaVersion" \in DOMAIN job
               /\ Get(next, "version") = Num(job["version"].of + 1)
<1> DEFINE next == applyPatch(job, patch, now)
<1>1. DOMAIN next = PatchedFields(job, patch)
  BY Patched
<1>2. \A f \in KEPT \cap DOMAIN job : f \in DOMAIN next /\ next[f] = job[f]
  BY Patched
<1>3. next["version"] = Num(job["version"].of + 1)
  BY Patched
<1> HIDE DEF next
<1>4. "schemaVersion" \in DOMAIN next <=> "schemaVersion" \in DOMAIN job
  BY <1>1, <1>2 DEF PatchedFields, KEPT
<1>5. Get(next, "version") = Num(job["version"].of + 1)
  BY <1>1, <1>3 DEF PatchedFields, Get
<1> QED
  BY <1>2, <1>4, <1>5 DEF next, Get

-----------------------------------------------------------------------------
(* Rows. *)

LEMMA RowColumns ==
    ASSUME NEW job, NEW now
    PROVE  LET row == jobToRow(job, now)
               known == Get(job, "progressKnown") = True
           IN  /\ DOMAIN row = COLUMNS
               /\ row.id = Get(job, "id") /\ row.schema_version = Get(job, "schemaVersion")
               /\ row.type = Get(job, "type") /\ row.status = Get(job, "status")
               /\ row.phase = Get(job, "phase") /\ row.progress_known = IF known THEN True ELSE False
               /\ row.progress_current = Part(IF known THEN Get(job, "progress") ELSE Null, "current")
               /\ row.progress_total = Part(IF known THEN Get(job, "progress") ELSE Null, "total")
               /\ row.owner_kind = Get(job, "ownerKind") /\ row.owner_id = Get(job, "ownerId")
               /\ row.tenant_id = tenantToDb(Get(job, "tenantId"))
               /\ row.idempotency_key = Get(job, "idempotencyKey")
               /\ row.actor = Get(job, "actor") /\ row.actor_role = Get(job, "actorRole")
               /\ row.actor_source = Get(job, "actorSource")
               /\ row.request_id = Get(job, "requestId") /\ row.storage_key = Get(job, "storageKey")
               /\ row.artefacts = Str(Json[Or(Get(job, "artefacts"), Obj(EmptyList)).of])
               /\ row.error_code = Get(job, "error_code")
               /\ row.error_message = Or(Get(job, "error_message"), Get(job, "error"))
               /\ row.attempt_count = Or(Get(job, "attempt_count"), Num(0))
               /\ row.audio_cleanup_pending = Boolean(Get(job, "audio_cleanup_pending"))
               /\ row.audio_cleanup_attempts = Or(Get(job, "audio_cleanup_attempts"), Num(0))
               /\ row.audio_cleanup_next_attempt_at = Get(job, "audio_cleanup_next_attempt_at")
               /\ row.deletion_pending = Boolean(Get(job, "deletion_pending"))
               /\ row.deletion_attempts = Or(Get(job, "deletion_attempts"), Num(0))
               /\ row.deletion_next_attempt_at = Get(job, "deletion_next_attempt_at")
               /\ row.created_at = FirstTime(Get(job, "created_at"), Get(job, "createdAt"), now)
               /\ row.updated_at = FirstTime(Get(job, "updatedAt"), Null, now)
               /\ row.started_at = Get(job, "started_at") /\ row.completed_at = Get(job, "completed_at")
               /\ row.version = Or(Get(job, "version"), Num(1))
<1>1. DOMAIN jobToRow(job, now) = COLUMNS
  BY DEF jobToRow, COLUMNS, IMMUTABLE_COLUMNS, KINTAMI_BE_LAIKO
<1>2. /\ jobToRow(job, now).progress_known =
           IF Get(job, "progressKnown") = True THEN True ELSE False
  BY DEF jobToRow
<1>3. /\ jobToRow(job, now).progress_current =
           Part(IF Get(job, "progressKnown") = True THEN Get(job, "progress") ELSE Null, "current")
      /\ jobToRow(job, now).progress_total =
           Part(IF Get(job, "progressKnown") = True THEN Get(job, "progress") ELSE Null, "total")
  BY DEF jobToRow
<1> QED
  BY <1>1, <1>2, <1>3 DEF jobToRow

\* What the program makes of a field, absent or null.
Default(f) ==
    IF f \in BOOLEAN_FIELDS THEN False
    ELSE IF f \in {"attempt_count", "audio_cleanup_attempts", "deletion_attempts"} THEN Num(0)
    ELSE IF f = "version" THEN Num(1)
    ELSE IF f = "artefacts" THEN Obj(EmptyList)
    ELSE Null

Seen(job, f) == Or(Get(job, f), Default(f))

RowFields == Fields \ {"schemaVersion", "result"}

LEMMA JobFields ==
    ASSUME NEW row, NEW result
    PROVE  LET job == rowToJob(row, result)
           IN  /\ DOMAIN job = RowFields
                     \cup (IF row.schema_version = Null THEN {} ELSE {"schemaVersion"}) \cup {"result"}
               /\ row.schema_version # Null => job["schemaVersion"] = row.schema_version
<1> DEFINE meta == rowToJobMeta(row)
           values == RowValues(row)
           job == rowToJob(row, result)
<1>0. DOMAIN values = RowFields
  BY DEF RowValues, RowFields, Fields, BOOLEAN_FIELDS, NUMBER_FIELDS, JSON_FIELDS, TEXT_FIELDS
<1> HIDE DEF values
<1>1. /\ DOMAIN meta = RowFields \cup (IF row.schema_version = Null THEN {} ELSE {"schemaVersion"})
      /\ row.schema_version # Null => meta["schemaVersion"] = row.schema_version
  BY <1>0 DEF rowToJobMeta, values, RowFields
<1> HIDE DEF meta
<1>2. /\ DOMAIN job = DOMAIN meta \cup {"result"}
      /\ \A f \in DOMAIN meta : f # "result" => job[f] = meta[f]
  BY DEF rowToJob, meta
<1> HIDE DEF job
<1> QED
  BY <1>1, <1>2 DEF job

LEMMA JobValues ==
    ASSUME NEW row, NEW result, NEW f \in RowFields
    PROVE  rowToJob(row, result)[f] = RowValues(row)[f]
<1> DEFINE meta == rowToJobMeta(row)
           values == RowValues(row)
<1>0. DOMAIN values = RowFields
  BY DEF RowValues, RowFields, Fields, BOOLEAN_FIELDS, NUMBER_FIELDS, JSON_FIELDS, TEXT_FIELDS
<1> HIDE DEF values
<1>1. f \in DOMAIN meta /\ meta[f] = values[f]
  BY <1>0 DEF rowToJobMeta, values, RowFields
<1> HIDE DEF meta
<1>2. rowToJob(row, result)[f] = meta[f]
  BY <1>1 DEF rowToJob, meta, RowFields
<1> QED
  BY <1>1, <1>2 DEF values

TimeFields ==
    {"audio_cleanup_next_attempt_at", "deletion_next_attempt_at", "created_at", "createdAt",
     "started_at", "completed_at", "updatedAt"}

\* What a record must be for a row to hold all of it: a progress of two numbers,
\* one time of creation, one text of the error, times as the program writes
\* them, and a tenant that is not the sign for none.
Storable(job) ==
    /\ TypedFields(job) /\ Versioned(job) /\ assertAtstovaujamasProgresas(job)
    /\ Get(job, "createdAt") = Get(job, "created_at") /\ Get(job, "created_at") # Null
    /\ Get(job, "updatedAt") # Null /\ Get(job, "error") = Get(job, "error_message")
    /\ Get(job, "tenantId") # Str(TENANT_SENTINEL)
    /\ \A f \in TimeFields : Get(job, f) # Null => Iso[Get(job, f).of] = Get(job, f).of

LEMMA FieldKinds ==
    ASSUME EncodingAssumption, NEW job, TypedFields(job), NEW f \in Fields
    PROVE  /\ Get(job, f) = Null \/ Get(job, f) \in FieldValues(f)
           /\ f \in BOOLEAN_FIELDS => Get(job, f) \in {Null, True, False}
           /\ f \in NUMBER_FIELDS => Get(job, f) = Null \/
                  (Get(job, f).of \in Int /\ Get(job, f) = Num(Get(job, f).of))
           /\ f \in JSON_FIELDS => Get(job, f) = Null \/
                  (Get(job, f).of \in Data /\ Get(job, f) = Obj(Get(job, f).of))
           /\ f \in TEXT_FIELDS => Get(job, f) = Null \/
                  (Get(job, f).of \in Texts \ {EmptyText} /\ Get(job, f) = Str(Get(job, f).of))
<1>1. Get(job, f) = Null \/ Get(job, f) \in FieldValues(f)
  BY DEF Get, TypedFields
<1> QED
  BY <1>1, Kinds

(* A row of PostgreSQL keeps a record too, as the program sees it: each      *)
(* field comes back from the column it went to, or both are its default.    *)
THEOREM PostgresKeepsRecord ==
    ASSUME EncodingAssumption, NEW job, Storable(job), NEW now, NEW result,
           NEW f \in Fields \ {"result"}
    PROVE  Seen(rowToJob(jobToRow(job, now), result), f) = Seen(job, f)
<1> DEFINE row == jobToRow(job, now)
           back == rowToJob(row, result)
           known == Get(job, "progressKnown") = True
<1> SUFFICES Seen(back, f) = Seen(job, f)
  OBVIOUS
<1> HIDE DEF row, back
<1>t. TypedFields(job)
  BY DEF Storable
<1>j. \A g \in RowFields : back[g] = RowValues(row)[g]
  BY JobValues DEF back
<1>1. DOMAIN back = RowFields \cup (IF row.schema_version = Null THEN {} ELSE {"schemaVersion"})
                    \cup {"result"}
  BY JobFields DEF back
<1>2. \A g \in RowFields : Get(back, g) = back[g]
  BY <1>1 DEF Get
<1>p. {"id", "type", "status", "phase", "ownerId", "ownerKind", "idempotencyKey", "actor", "actorRole",
       "actorSource", "requestId", "storageKey", "error_code"} \subseteq RowFields
  BY DEF RowFields, Fields, TEXT_FIELDS
<1>3. CASE f \in {"id", "type", "status", "phase", "ownerId", "ownerKind", "idempotencyKey", "actor",
                  "actorRole", "actorSource", "requestId", "storageKey", "error_code"}
  <2>1. back[f] = Get(job, f)
    BY <1>3, RowColumns, <1>j DEF RowValues, RowFields, Fields, TEXT_FIELDS, NUMBER_FIELDS, BOOLEAN_FIELDS, JSON_FIELDS, row
  <2> QED
    BY <1>2, <1>3, <1>p, <2>1 DEF Seen
<1>4. CASE f \in {"error", "error_message"}
  <2>1. back[f] = Or(Get(job, "error_message"), Get(job, "error"))
    BY <1>4, RowColumns, <1>j DEF RowValues, RowFields, Fields, TEXT_FIELDS, NUMBER_FIELDS, BOOLEAN_FIELDS, JSON_FIELDS, row
  <2>2. Get(back, f) = back[f]
    BY <1>2, <1>4 DEF RowFields, Fields, TEXT_FIELDS
  <2>3. Get(job, "error") = Get(job, "error_message")
    BY DEF Storable
  <2> QED
    BY <1>4, <2>1, <2>2, <2>3 DEF Seen, Or
<1>5. CASE f \in TimeFields
  <2>1. f \in TEXT_FIELDS /\ f \in Fields /\ f \in RowFields
    BY <1>5 DEF TimeFields, TEXT_FIELDS, Fields, RowFields
  <2>2. Get(job, f) = Null \/ (Get(job, f).of \in Texts \ {EmptyText} /\ Get(job, f) = Str(Get(job, f).of))
    BY <1>t, <2>1, FieldKinds
  <2>3. isoFromDb(Get(job, f)) = Get(job, f)
    BY <1>5, <2>2 DEF isoFromDb, Storable
  <2>4. CASE f \in {"audio_cleanup_next_attempt_at", "deletion_next_attempt_at", "started_at", "completed_at"}
    <3>1. back[f] = isoFromDb(Get(job, f))
      BY <2>4, RowColumns, <1>j DEF RowValues, RowFields, Fields, TEXT_FIELDS, NUMBER_FIELDS, BOOLEAN_FIELDS, JSON_FIELDS, row
    <3> QED
      BY <1>2, <2>1, <2>3, <3>1 DEF Seen
  <2>5. CASE f \in {"created_at", "createdAt"}
    <3>1. Get(job, f) = Get(job, "created_at") /\ Get(job, f) # Null
      BY <2>5 DEF Storable
    <3>2. ~Falsy(Get(job, "created_at"))
      BY <2>2, <3>1 DEF Falsy, Str
    <3>3. back[f] = isoFromDb(FirstTime(Get(job, "created_at"), Get(job, "createdAt"), now))
      BY <2>5, RowColumns, <1>j DEF RowValues, RowFields, Fields, TEXT_FIELDS, NUMBER_FIELDS, BOOLEAN_FIELDS, JSON_FIELDS, row
    <3> QED
      BY <1>2, <2>1, <2>3, <3>1, <3>2, <3>3 DEF Seen, FirstTime
  <2>6. CASE f = "updatedAt"
    <3>1. Get(job, f) # Null
      BY <2>6 DEF Storable
    <3>2. ~Falsy(Get(job, f))
      BY <2>2, <3>1 DEF Falsy, Str
    <3>3. back[f] = isoFromDb(FirstTime(Get(job, "updatedAt"), Null, now))
      BY <2>6, RowColumns, <1>j DEF RowValues, RowFields, Fields, TEXT_FIELDS, NUMBER_FIELDS, BOOLEAN_FIELDS, JSON_FIELDS, row
    <3> QED
      BY <1>2, <2>1, <2>3, <2>6, <3>2, <3>3 DEF Seen, FirstTime
  <2> QED
    BY <1>5, <2>4, <2>5, <2>6 DEF TimeFields
<1>6. CASE f \in {"attempt_count", "audio_cleanup_attempts", "deletion_attempts"}
  <2>1. back[f] = Or(Get(job, f), Num(0))
    BY <1>6, RowColumns, <1>j DEF RowValues, RowFields, Fields, TEXT_FIELDS, NUMBER_FIELDS, BOOLEAN_FIELDS, JSON_FIELDS, row
  <2>2. f \in RowFields /\ Default(f) = Num(0)
    BY <1>6 DEF RowFields, Fields, NUMBER_FIELDS, BOOLEAN_FIELDS, Default
  <2>3. Num(0) # Null
    BY JsValues DEF EncodingAssumption
  <2> QED
    BY <1>2, <2>1, <2>2, <2>3 DEF Seen, Or
<1>7. CASE f \in {"audio_cleanup_pending", "deletion_pending"}
  <2>1. back[f] = Boolean(Get(job, f))
    BY <1>7, RowColumns, <1>j DEF RowValues, RowFields, Fields, TEXT_FIELDS, NUMBER_FIELDS, BOOLEAN_FIELDS, JSON_FIELDS, row
  <2>2. f \in BOOLEAN_FIELDS /\ f \in RowFields /\ Default(f) = False
    BY <1>7 DEF RowFields, Fields, BOOLEAN_FIELDS, Default
  <2>3. Get(job, f) \in {Null, True, False}
    BY <1>t, <2>2, FieldKinds
  <2>4. True \notin {Null, False, Num(0), Str(EmptyText)} /\ False # Null
    BY JsValues DEF EncodingAssumption, True, False, Bool, Num, Str
  <2> QED
    BY <1>2, <2>1, <2>2, <2>3, <2>4 DEF Seen, Or, Boolean
<1>8. CASE f = "progressKnown"
  <2>1. back[f] = IF known THEN True ELSE False
    BY <1>8, RowColumns, <1>j DEF RowValues, RowFields, Fields, TEXT_FIELDS, NUMBER_FIELDS, BOOLEAN_FIELDS, JSON_FIELDS, row
  <2>2. f \in BOOLEAN_FIELDS /\ f \in RowFields /\ Default(f) = False
    BY <1>8 DEF RowFields, Fields, BOOLEAN_FIELDS, Default
  <2>3. Get(job, f) \in {Null, True, False}
    BY <1>t, <2>2, FieldKinds
  <2>4. True # Null /\ False # Null /\ True # False
    BY JsValues DEF EncodingAssumption, True, False, Bool
  <2> QED
    BY <1>2, <1>8, <2>1, <2>2, <2>3, <2>4 DEF Seen, Or
<1>9. CASE f = "progress"
  <2>1. back[f] = IF row.progress_known = True
                  THEN Obj([current |-> row.progress_current.of, total |-> row.progress_total.of])
                  ELSE Null
    BY <1>9, <1>j DEF RowValues, RowFields, Fields, TEXT_FIELDS, NUMBER_FIELDS, BOOLEAN_FIELDS, JSON_FIELDS, row
  <2>2. f \in RowFields /\ f \in JSON_FIELDS /\ f \in Fields /\ Default(f) = Null
    BY <1>9 DEF RowFields, Fields, JSON_FIELDS, BOOLEAN_FIELDS, Default
  <2>3. True # False
    BY DEF True, False, Bool
  <2>4. row.progress_known = IF known THEN True ELSE False
    BY RowColumns DEF row, back
  <2>5. CASE known
    <3>1. Get(job, "progress") # Null /\ Get(job, "progress").of \in Points
      BY <2>5 DEF Storable, assertAtstovaujamasProgresas
    <3>2. Get(job, "progress") = Obj(Get(job, "progress").of)
      BY <1>t, <1>9, <2>2, <3>1, FieldKinds
    <3>3. /\ row.progress_current = Part(Get(job, "progress"), "current")
          /\ row.progress_total = Part(Get(job, "progress"), "total")
      BY <2>5, RowColumns DEF row, back
    <3>4. /\ row.progress_current.of = Get(job, "progress").of["current"]
          /\ row.progress_total.of = Get(job, "progress").of["total"]
      BY <3>1, <3>3 DEF Part, Num
    <3>5. \A p \in Points : p = [current |-> p["current"], total |-> p["total"]]
      BY DEF Points
    <3>6. back[f] = Get(job, f)
      BY <1>9, <2>1, <2>4, <2>5, <3>1, <3>2, <3>4, <3>5
    <3> QED
      BY <1>2, <2>2, <3>6 DEF Seen
  <2>6. CASE ~known
    <3>1. Get(job, "progress") = Null
      BY <2>6 DEF Storable, assertAtstovaujamasProgresas
    <3> QED
      BY <1>2, <1>9, <2>1, <2>2, <2>3, <2>4, <2>6, <3>1 DEF Seen
  <2> QED
    BY <2>5, <2>6
<1>10. CASE f = "artefacts"
  <2>1. back[f] = Obj(ParseJson[row.artefacts.of])
    BY <1>10, <1>j DEF RowValues, RowFields, Fields, TEXT_FIELDS, NUMBER_FIELDS, BOOLEAN_FIELDS, JSON_FIELDS, row
  <2>2. row.artefacts = Str(Json[Or(Get(job, f), Obj(EmptyList)).of])
    BY <1>10, RowColumns DEF row, back
  <2>3. f \in RowFields /\ f \in JSON_FIELDS /\ f \in Fields /\ Default(f) = Obj(EmptyList)
    BY <1>10 DEF RowFields, Fields, JSON_FIELDS, BOOLEAN_FIELDS, Default
  <2>4. PICK d \in Data : Or(Get(job, f), Obj(EmptyList)) = Obj(d)
    BY <1>t, <2>3, FieldKinds DEF Or, EncodingAssumption
  <2>5. Obj(d).of = d /\ Obj(d) # Null
    BY JsValues DEF Obj, EncodingAssumption
  <2>6. row.artefacts.of = Json[d]
    BY <2>2, <2>4, <2>5 DEF Str
  <2>7. back[f] = Obj(d)
    BY <2>1, <2>6 DEF EncodingAssumption
  <2> QED
    BY <1>2, <2>3, <2>4, <2>5, <2>7 DEF Seen, Or
<1>11. CASE f = "tenantId"
  <2>1. back[f] = tenantFromDb(tenantToDb(Get(job, f)))
    BY <1>11, RowColumns, <1>j DEF RowValues, RowFields, Fields, TEXT_FIELDS, NUMBER_FIELDS, BOOLEAN_FIELDS, JSON_FIELDS, row
  <2>2. f \in RowFields /\ Default(f) = Null /\ Get(job, f) # Str(TENANT_SENTINEL)
    BY <1>11 DEF RowFields, Fields, TEXT_FIELDS, BOOLEAN_FIELDS, Default, Storable
  <2> QED
    BY <1>2, <2>1, <2>2 DEF Seen, Or, tenantFromDb, tenantToDb
<1>12. CASE f = "version"
  <2>1. back[f] = Or(Or(Get(job, f), Num(1)), Num(1))
    BY <1>12, RowColumns, <1>j DEF RowValues, RowFields, Fields, TEXT_FIELDS, NUMBER_FIELDS, BOOLEAN_FIELDS, JSON_FIELDS, row
  <2>2. f \in RowFields /\ Default(f) = Num(1)
    BY <1>12 DEF RowFields, Fields, NUMBER_FIELDS, BOOLEAN_FIELDS, Default
  <2>3. Num(1) # Null
    BY JsValues DEF EncodingAssumption
  <2> QED
    BY <1>2, <2>1, <2>2, <2>3 DEF Seen, Or
<1>13. CASE f = "schemaVersion"
  <2>1. row.schema_version = Get(job, f)
    BY <1>13, RowColumns DEF row, back
  <2>2. row.schema_version # Null => back[f] = row.schema_version
    BY <1>13, JobFields DEF row, back
  <2>3. f \in DOMAIN back <=> row.schema_version # Null
    BY <1>1, <1>13 DEF RowFields
  <2>4. Get(back, f) = Get(job, f)
    BY <2>1, <2>2, <2>3 DEF Get
  <2> QED
    BY <2>4 DEF Seen
<1> QED
  BY <1>3, <1>4, <1>5, <1>6, <1>7, <1>8, <1>9, <1>10, <1>11, <1>12, <1>13
     DEF Fields, TEXT_FIELDS, NUMBER_FIELDS, BOOLEAN_FIELDS, JSON_FIELDS, TimeFields

(* So both stores answer the same record, and code tested against one sees  *)
(* nothing else of the other.                                               *)
THEOREM StoresAgree ==
    ASSUME EncodingAssumption, NEW job, Storable(job), NEW now, NEW result,
           NEW f \in Fields \ {"result"}
    PROVE  Seen(rowToJob(jobToRow(job, now), result), f) = Seen(deserialize(serialize(job)), f)
BY PostgresKeepsRecord, RedisKeepsRecord DEF Storable

(* A record a job starts with can be kept by either store: every constraint *)
(* of the table holds of its row.  What has to be checked before is what    *)
(* create() checks, the owner, and that type and source are known ones.     *)
THEOREM NewJobFits ==
    ASSUME EncodingAssumption, NEW fields, TypedFields(fields),
           NEW id \in Texts \ {EmptyText}, NEW now \in Texts \ {EmptyText}, Iso[now] = now,
           Get(fields, "type") \in {Null, Str("transcription"), Str("protocol")},
           Get(fields, "actorSource") \in {Null, Str("api-key"), Str("session")},
           Get(fields, "tenantId") # Str(TENANT_SENTINEL),
           assertOwnerIdentity([ownerKind |-> Get(fields, "ownerKind"),
                                ownerId |-> Get(fields, "ownerId")])
    PROVE  /\ Storable(newJob(fields, id, now))
           /\ SchemaHolds(jobToRow(newJob(fields, id, now), now))
<1> DEFINE given(f) == Get(fields, f)
           orNull(v) == IF Falsy(v) THEN Null ELSE v
           born == [id |-> Str(id), schemaVersion |-> Num(2),
                    type |-> IF Falsy(given("type")) THEN Str("transcription") ELSE given("type"),
                    storageKey |-> orNull(given("storageKey")), requestId |-> orNull(given("requestId")),
                    phase |-> Null, progress |-> Null, progressKnown |-> False,
                    ownerId |-> given("ownerId"), ownerKind |-> given("ownerKind"),
                    tenantId |-> given("tenantId"), idempotencyKey |-> given("idempotencyKey"),
                    actor |-> orNull(given("actor")), actorRole |-> orNull(given("actorRole")),
                    actorSource |-> orNull(given("actorSource")),
                    artefacts |-> Or(given("artefacts"), Obj(EmptyList)),
                    audio_cleanup_pending |-> False, audio_cleanup_attempts |-> Num(0),
                    status |-> Str("queued"), result |-> Null,
                    error |-> Null, error_code |-> Null, error_message |-> Null,
                    attempt_count |-> Num(0), created_at |-> Str(now), started_at |-> Null,
                    completed_at |-> Null, version |-> Num(1), createdAt |-> Str(now),
                    updatedAt |-> Str(now)]
           TextBorn == {"id", "type", "status", "storageKey", "requestId", "phase", "ownerId", "ownerKind",
                        "tenantId", "idempotencyKey", "actor", "actorRole", "actorSource", "error",
                        "error_code", "error_message", "created_at", "started_at", "completed_at",
                        "createdAt", "updatedAt"}
<1>1. newJob(fields, id, now) = normalizeJob(born)
  BY DEF newJob
<1>2. \A f \in TEXT_FIELDS :
         /\ f \in Fields
         /\ given(f) = Null \/ (given(f).of \in Texts \ {EmptyText} /\ given(f) = Str(given(f).of))
         /\ given(f) # Str(EmptyText)
  <2>1. \A f \in TEXT_FIELDS :
           /\ f \in Fields
           /\ given(f) = Null \/ (given(f).of \in Texts \ {EmptyText} /\ given(f) = Str(given(f).of))
    BY FieldKinds DEF Fields
  <2>2. Str(EmptyText) # Null /\ Str(EmptyText).of = EmptyText
    BY JsValues DEF EncodingAssumption, Str
  <2> QED
    BY <2>1, <2>2
<1>3. \A f \in TEXT_FIELDS : orNull(given(f)) = given(f)
  BY <1>2 DEF Falsy
<1>4. born["type"] \in {Str("transcription"), Str("protocol")}
  BY <1>2 DEF Falsy
<1>5. \A t \in Texts \ {EmptyText} : \A f \in TEXT_FIELDS : Str(t) \in FieldValues(f)
  BY DEF FieldValues, Str, BOOLEAN_FIELDS, NUMBER_FIELDS, JSON_FIELDS, TEXT_FIELDS
<1>6. \A n \in Int : \A f \in NUMBER_FIELDS : Num(n) \in FieldValues(f)
  BY DEF FieldValues, Num, BOOLEAN_FIELDS, NUMBER_FIELDS
<1>7. \A f \in BOOLEAN_FIELDS : False \in FieldValues(f)
  BY DEF FieldValues, False, Bool
<1>8. TextBorn \subseteq TEXT_FIELDS
  BY DEF TEXT_FIELDS
<1>9. DOMAIN born = TextBorn \cup {"schemaVersion", "progress", "progressKnown", "artefacts", "result",
                                   "audio_cleanup_pending", "audio_cleanup_attempts", "attempt_count",
                                   "version"}
  OBVIOUS
<1>a. ASSUME NEW f \in TextBorn PROVE born[f] = Null \/ born[f] \in FieldValues(f)
  <2>1. CASE f \in {"storageKey", "requestId", "actor", "actorRole", "actorSource"}
    <3>1. born[f] = orNull(given(f))
      BY <2>1
    <3> QED
      BY <1>2, <1>3, <1>5, <1>8, <3>1
  <2>2. CASE f \in {"ownerId", "ownerKind", "tenantId", "idempotencyKey"}
    <3>1. born[f] = given(f)
      BY <2>2
    <3> QED
      BY <1>2, <1>5, <1>8, <3>1
  <2>3. CASE f = "type"
    <3>1. born[f] = Str("transcription") \/ born[f] = given("type")
      BY <2>3
    <3>2. "type" \in TEXT_FIELDS
      BY DEF TEXT_FIELDS
    <3> QED
      BY <1>2, <1>5, <2>3, <3>1, <3>2 DEF EncodingAssumption
  <2>4. CASE f \in {"id", "status", "created_at", "createdAt", "updatedAt"}
    <3>1. born[f] = Str(id) \/ born[f] = Str("queued") \/ born[f] = Str(now)
      BY <2>4
    <3> QED
      BY <1>5, <1>8, <3>1 DEF EncodingAssumption
  <2>5. CASE f \in {"phase", "error", "error_code", "error_message", "started_at", "completed_at"}
    BY <2>5
  <2> QED
    BY <2>1, <2>2, <2>3, <2>4, <2>5
<1>b. born["artefacts"] = Null \/ born["artefacts"] \in FieldValues("artefacts")
  <2>1. "artefacts" \in Fields /\ Obj(EmptyList) \in FieldValues("artefacts")
    BY DEF FieldValues, Obj, Fields, BOOLEAN_FIELDS, NUMBER_FIELDS, JSON_FIELDS, EncodingAssumption
  <2>2. given("artefacts") = Null \/ given("artefacts") \in FieldValues("artefacts")
    BY <2>1, FieldKinds
  <2>3. born["artefacts"] = Or(given("artefacts"), Obj(EmptyList))
    OBVIOUS
  <2> QED
    BY <2>1, <2>2, <2>3 DEF Or
<1>c. /\ born["progress"] = Null /\ born["result"] = Null /\ born["progressKnown"] = False
      /\ born["audio_cleanup_pending"] = False /\ born["version"] = Num(1)
      /\ born["schemaVersion"] = Num(2) /\ born["audio_cleanup_attempts"] = Num(0)
      /\ born["attempt_count"] = Num(0)
  OBVIOUS
<1>d. /\ born["createdAt"] = Str(now) /\ born["created_at"] = Str(now) /\ born["updatedAt"] = Str(now)
      /\ born["started_at"] = Null /\ born["completed_at"] = Null /\ born["error"] = Null
      /\ born["error_message"] = Null /\ born["tenantId"] = given("tenantId")
      /\ born["status"] = Str("queued") /\ born["phase"] = Null
      /\ born["ownerKind"] = given("ownerKind") /\ born["ownerId"] = given("ownerId")
      /\ born["actorSource"] = orNull(given("actorSource"))
      /\ born = [f \in DOMAIN born |-> born[f]]
  OBVIOUS
<1> HIDE DEF born
<1>10. TypedFields(born)
  <2>1. DOMAIN born \subseteq Fields
    BY <1>8, <1>9 DEF Fields, BOOLEAN_FIELDS, NUMBER_FIELDS, JSON_FIELDS
  <2>2. ASSUME NEW f \in DOMAIN born PROVE born[f] = Null \/ born[f] \in FieldValues(f)
    <3>1. CASE f \in {"audio_cleanup_attempts", "attempt_count", "version", "schemaVersion"}
      BY <1>6, <1>c, <3>1 DEF NUMBER_FIELDS
    <3>2. CASE f \in {"progressKnown", "audio_cleanup_pending"}
      BY <1>7, <1>c, <3>2 DEF BOOLEAN_FIELDS
    <3> QED
      BY <1>9, <1>a, <1>b, <1>c, <3>1, <3>2
  <2> QED
    BY <1>d, <2>1, <2>2 DEF TypedFields
<1>11. "version" \in DOMAIN born /\ born["version"] # Null /\ Versioned(born)
  BY <1>9, <1>c, JsValues DEF Versioned, Num, EncodingAssumption
<1>12. newJob(fields, id, now) = born
  BY <1>1, <1>10, <1>11, NormalizeKeeps
<1>13. \A f \in DOMAIN born : Get(born, f) = born[f]
  BY DEF Get
<1>14. Get(born, "audio_cleanup_next_attempt_at") = Null /\ Get(born, "deletion_next_attempt_at") = Null
  BY <1>9 DEF Get
<1>15. Storable(born)
  <2>1. assertAtstovaujamasProgresas(born)
    BY <1>9, <1>13, <1>c DEF assertAtstovaujamasProgresas, True, False, Bool
  <2>2. Str(now) # Null
    BY JsValues DEF EncodingAssumption
  <2>3. \A f \in TimeFields : Get(born, f) # Null => Iso[Get(born, f).of] = Get(born, f).of
    BY <1>9, <1>13, <1>14, <1>d DEF TimeFields, Str
  <2> QED
    BY <1>9, <1>10, <1>11, <1>13, <1>d, <2>1, <2>2, <2>3 DEF Storable
<1> DEFINE row == jobToRow(born, now)
<1>16. /\ row.schema_version = Num(2) /\ row.type = born["type"] /\ row.status = Str("queued")
       /\ row.phase = Null /\ row.actor_source = born["actorSource"]
       /\ row.owner_kind = given("ownerKind") /\ row.owner_id = given("ownerId")
  BY <1>9, <1>13, <1>c, <1>d, RowColumns
<1>17. row.progress_known = False /\ row.progress_current = Null /\ row.progress_total = Null
  <2>1. Get(born, "progressKnown") # True
    BY <1>9, <1>13, <1>c DEF True, False, Bool
  <2> QED
    BY <2>1, RowColumns DEF Part
<1>18. row.version = Num(1)
  BY <1>9, <1>13, <1>c, <1>11, RowColumns DEF Or
<1> HIDE DEF row
<1>19. PhaseFits(row) /\ ProgressFits(row)
  <2>1. Str("queued") # Str("processing") /\ False # True
    BY DEF Str, True, False, Bool
  <2>2. PhaseFits(row)
    BY <1>16, <2>1 DEF PhaseFits
  <2> QED
    BY <1>17, <2>1, <2>2 DEF ProgressFits
<1>20. OwnerFits(row)
  <2>1. "ownerId" \in TEXT_FIELDS
    BY DEF TEXT_FIELDS
  <2>2. given("ownerId") # Str(EmptyText)
    BY <1>2, <2>1
  <2>3. /\ given("ownerKind") \in {Str("user"), Str("api-key"), Str("unowned")}
        /\ given("ownerKind") = Str("user") => given("ownerId") # Null
        /\ given("ownerKind") # Str("user") => given("ownerId") = Null
    BY <2>2 DEF assertOwnerIdentity, OWNER_KIND, Falsy
  <2> QED
    BY <1>16, <2>3 DEF OwnerFits
<1>21. row.actor_source \in {Null, Str("api-key"), Str("session")}
  BY <1>16, <1>d DEF Falsy
<1>22. SchemaHolds(row)
  BY <1>4, <1>16, <1>18, <1>19, <1>20, <1>21 DEF SchemaHolds, Num, born
<1> QED
  BY <1>12, <1>15, <1>22 DEF row

-----------------------------------------------------------------------------
(* What an update writes. *)

\* The columns a patch names.
Named(patch) == UNION {PATCH_STULPELIAI[f] : f \in DOMAIN patch \cap DOMAIN PATCH_STULPELIAI}

LEMMA NamedColumns ==
    ASSUME NEW patch, NEW f \in DOMAIN patch, f \in DOMAIN PATCH_STULPELIAI
    PROVE  PATCH_STULPELIAI[f] \subseteq Named(patch)
BY DEF Named

LEMMA Untouched ==
    ASSUME EncodingAssumption, NEW job, NEW patch, NEW now \in Texts \ {EmptyText},
           TypedFields(job), TypedFields(patch), Versioned(job), "id" \in DOMAIN job,
           NEW f \in Fields, f \notin DOMAIN patch,
           f \notin {"updatedAt", "version"} \cup Stamped(job, patch) \cup Copied(patch)
    PROVE  Get(applyPatch(job, patch, now), f) = Get(job, f)
<1> DEFINE next == applyPatch(job, patch, now)
<1>1. DOMAIN next = PatchedFields(job, patch)
  BY Patched
<1>2. \A g \in KEPT \cap DOMAIN job : g \in DOMAIN next /\ next[g] = job[g]
  BY Patched
<1>3. \A g \in DOMAIN next \ (KEPT \cap DOMAIN job) :
         g \notin {"updatedAt", "version"} \cup Stamped(job, patch) \cup Copied(patch) =>
             next[g] = IF g \in DOMAIN patch THEN patch[g] ELSE job[g]
  BY Patched
<1> HIDE DEF next
<1>4. f \in DOMAIN next <=> f \in DOMAIN job
  BY <1>1 DEF PatchedFields
<1>5. f \in DOMAIN job => next[f] = job[f]
  BY <1>2, <1>3, <1>4
<1> QED
  BY <1>4, <1>5 DEF Get, next

(* An update without the lock of the row leaves to others what it is not    *)
(* about: a mutable column the patch does not name, and that no change of   *)
(* status stamps, keeps what the table holds now, not what was read before. *)
THEOREM OthersChangesKept ==
    ASSUME EncodingAssumption, NEW job, NEW patch, NEW now \in Texts \ {EmptyText},
           TypedFields(job), TypedFields(patch), Versioned(job), "id" \in DOMAIN job,
           NEW stored, NEW clock,
           NEW c \in KINTAMI_BE_LAIKO, c \notin Named(patch) \cup Stamped(job, patch)
    PROVE  WritesChanged(stored, job, patch, now, clock)[c] = stored[c]
<1> DEFINE next == applyPatch(job, patch, now)
           was == jobToRow(job, now)
           row == jobToRow(next, now)
           same(f) == Get(next, f) = Get(job, f)
<1>1. Stamped(job, patch) \subseteq {"started_at", "completed_at"}
      /\ Copied(patch) \subseteq {"error", "error_message"}
  BY DEF Stamped, Copied
<1>2. ASSUME NEW f \in Fields, f \notin DOMAIN patch,
             f \notin {"updatedAt", "version"} \cup Stamped(job, patch) \cup Copied(patch)
      PROVE  same(f)
  BY <1>2, Untouched
<1>3. ASSUME NEW f \in DOMAIN PATCH_STULPELIAI, c \in PATCH_STULPELIAI[f]
      PROVE  f \notin DOMAIN patch
  BY <1>3, NamedColumns
<1> HIDE DEF same
<1>4. ASSUME c \in {"type", "status", "phase", "actor", "artefacts", "error_code", "attempt_count",
                  "audio_cleanup_pending", "audio_cleanup_attempts", "audio_cleanup_next_attempt_at",
                  "deletion_pending", "deletion_attempts", "deletion_next_attempt_at", "started_at",
                  "completed_at"}
      PROVE  row[c] = was[c]
  <2>1. c \in DOMAIN PATCH_STULPELIAI /\ c \in PATCH_STULPELIAI[c]
    BY <1>4 DEF PATCH_STULPELIAI
  <2>2. c \in Fields /\ c \notin {"updatedAt", "version", "error", "error_message"}
    BY <1>4 DEF Fields, TEXT_FIELDS, JSON_FIELDS, NUMBER_FIELDS, BOOLEAN_FIELDS
  <2>3. same(c)
    BY <1>1, <1>2, <1>3, <2>1, <2>2
  <2> QED
    BY <1>4, <2>3, RowColumns DEF same
<1>5. ASSUME c \in {"actor_role", "actor_source", "request_id", "storage_key"}
      PROVE  row[c] = was[c]
  <2>1. \A f \in {"actorRole", "actorSource", "requestId", "storageKey"} :
           f \in DOMAIN PATCH_STULPELIAI /\ f \in Fields /\ f \notin
             {"updatedAt", "version", "error", "error_message", "started_at", "completed_at"}
    BY DEF PATCH_STULPELIAI, Fields, TEXT_FIELDS
  <2>2. /\ c = "actor_role" => c \in PATCH_STULPELIAI["actorRole"]
        /\ c = "actor_source" => c \in PATCH_STULPELIAI["actorSource"]
        /\ c = "request_id" => c \in PATCH_STULPELIAI["requestId"]
        /\ c = "storage_key" => c \in PATCH_STULPELIAI["storageKey"]
    BY DEF PATCH_STULPELIAI
  <2>3. /\ c = "actor_role" => same("actorRole")
        /\ c = "actor_source" => same("actorSource")
        /\ c = "request_id" => same("requestId")
        /\ c = "storage_key" => same("storageKey")
    BY <1>1, <1>2, <1>3, <2>1, <2>2
  <2> QED
    BY <1>5, <2>3, RowColumns DEF same
<1>6. ASSUME c \in {"progress_known", "progress_current", "progress_total"}
      PROVE  row[c] = was[c]
  <2>1. \A f \in {"progress", "progressKnown"} :
           /\ f \in DOMAIN PATCH_STULPELIAI /\ c \in PATCH_STULPELIAI[f] /\ f \in Fields
           /\ f \notin {"updatedAt", "version", "error", "error_message", "started_at", "completed_at"}
    BY <1>6 DEF PATCH_STULPELIAI, Fields, JSON_FIELDS, BOOLEAN_FIELDS
  <2>2. same("progress") /\ same("progressKnown")
    BY <1>1, <1>2, <1>3, <2>1
  <2> QED
    BY <1>6, <2>2, RowColumns DEF same
<1>7. ASSUME c = "error_message"
      PROVE  row[c] = was[c]
  <2>1. \A f \in {"error", "error_message"} :
           f \in DOMAIN PATCH_STULPELIAI /\ c \in PATCH_STULPELIAI[f] /\ f \in Fields
    BY <1>7 DEF PATCH_STULPELIAI, Fields, TEXT_FIELDS
  <2>2. "error" \notin DOMAIN patch /\ "error_message" \notin DOMAIN patch
    BY <1>3, <2>1
  <2>3. Copied(patch) = {}
    BY <2>2 DEF Copied
  <2>4. same("error") /\ same("error_message")
    BY <1>1, <1>2, <2>1, <2>2, <2>3
  <2> QED
    BY <1>7, <2>4, RowColumns DEF same
<1>8. row[c] = was[c]
  BY <1>4, <1>5, <1>6, <1>7 DEF KINTAMI_BE_LAIKO
<1>9. c \in COLUMNS /\ c \notin {"updated_at", "version"}
  BY DEF COLUMNS, KINTAMI_BE_LAIKO
<1> HIDE DEF row, was
<1>10. c \notin changedColumns(was, row, patch)
  BY <1>8 DEF changedColumns, Named
<1>11. Updated(stored, changedColumns(was, row, patch), row, clock)[c] = stored[c]
  BY <1>9, <1>10 DEF Updated
<1> QED
  BY <1>11 DEF WritesChanged, row, was

(* And it writes all that it is about: a field of the patch is read back    *)
(* from the row as the change made it, whatever another writer had put      *)
(* there; no field of a record is missing from the table of its columns.    *)
THEOREM PatchIsWritten ==
    ASSUME NEW job, NEW patch, NEW now, NEW stored, NEW clock, NEW result,
           NEW f \in DOMAIN patch, f \in RowFields, f \notin KEPT \cup {"updatedAt", "version"}
    PROVE  rowToJob(WritesChanged(stored, job, patch, now, clock), result)[f]
             = rowToJob(jobToRow(applyPatch(job, patch, now), now), result)[f]
<1> DEFINE row == jobToRow(applyPatch(job, patch, now), now)
           was == jobToRow(job, now)
           left == WritesChanged(stored, job, patch, now, clock)
<1> HIDE DEF row, was, left
<1>1. left = Updated(stored, changedColumns(was, row, patch), row, clock)
  BY DEF WritesChanged, row, was, left
<1>2. ASSUME NEW c \in Named(patch), c \in KINTAMI_BE_LAIKO PROVE left[c] = row[c]
  <2>1. c \in changedColumns(was, row, patch)
    BY <1>2 DEF changedColumns, Named
  <2>2. c \in COLUMNS /\ c \notin {"updated_at", "version"}
    BY <1>2 DEF COLUMNS, KINTAMI_BE_LAIKO
  <2> QED
    BY <1>1, <2>1, <2>2 DEF Updated
<1>3. f \in DOMAIN PATCH_STULPELIAI
  BY DEF PATCH_STULPELIAI, RowFields, Fields, TEXT_FIELDS, NUMBER_FIELDS, BOOLEAN_FIELDS, JSON_FIELDS,
     KEPT
<1>4. \A c \in PATCH_STULPELIAI[f] : c \in KINTAMI_BE_LAIKO => left[c] = row[c]
  BY <1>2, <1>3, NamedColumns
<1>5. RowValues(left)[f] = RowValues(row)[f]
  <2>1. CASE f \in {"type", "status", "phase", "actor", "artefacts", "error_code", "attempt_count",
                  "audio_cleanup_pending", "audio_cleanup_attempts", "audio_cleanup_next_attempt_at",
                  "deletion_pending", "deletion_attempts", "deletion_next_attempt_at", "started_at",
                  "completed_at", "error_message"}
    <3>1. f \in PATCH_STULPELIAI[f] /\ f \in KINTAMI_BE_LAIKO
      BY <2>1 DEF PATCH_STULPELIAI, KINTAMI_BE_LAIKO
    <3>2. left[f] = row[f]
      BY <1>4, <3>1
    <3> QED
      BY <2>1, <3>2 DEF RowValues
  <2>2. CASE f \in {"actorRole", "actorSource", "requestId", "storageKey", "error"}
    <3>1. /\ f = "actorRole" => left.actor_role = row.actor_role
          /\ f = "actorSource" => left.actor_source = row.actor_source
          /\ f = "requestId" => left.request_id = row.request_id
          /\ f = "storageKey" => left.storage_key = row.storage_key
          /\ f = "error" => left.error_message = row.error_message
      BY <1>4 DEF PATCH_STULPELIAI, KINTAMI_BE_LAIKO
    <3> QED
      BY <2>2, <3>1 DEF RowValues
  <2>3. CASE f \in {"progress", "progressKnown"}
    <3>1. {"progress_known", "progress_current", "progress_total"} = PATCH_STULPELIAI[f]
      BY <2>3 DEF PATCH_STULPELIAI
    <3>2. {"progress_known", "progress_current", "progress_total"} \subseteq KINTAMI_BE_LAIKO
      BY DEF KINTAMI_BE_LAIKO
    <3>3. /\ left.progress_known = row.progress_known /\ left.progress_current = row.progress_current
          /\ left.progress_total = row.progress_total
      BY <1>4, <3>1, <3>2
    <3> QED
      BY <2>3, <3>3 DEF RowValues
  <2> QED
    BY <2>1, <2>2, <2>3 DEF RowFields, Fields, TEXT_FIELDS, NUMBER_FIELDS, BOOLEAN_FIELDS, JSON_FIELDS, KEPT
<1>6. rowToJob(left, result)[f] = rowToJob(row, result)[f]
  BY <1>5, JobValues
<1> QED
  BY <1>6 DEF left, row

(* When no one else has written, the update under the lock and the update   *)
(* by version leave the row of the changed record, but for the time, which  *)
(* the database sets; what identifies a record it takes from the table.     *)
THEOREM BothWritesAgree ==
    ASSUME EncodingAssumption, NEW job, NEW patch, NEW now \in Texts \ {EmptyText}, NEW clock,
           TypedFields(job), TypedFields(patch), Versioned(job),
           KEPT \ {"schemaVersion"} \subseteq DOMAIN job, Get(job, "created_at") # Null,
           NEW c \in COLUMNS \ {"updated_at"}
    PROVE  /\ writePatched(jobToRow(job, now), job, patch, now, clock)[c]
                = jobToRow(applyPatch(job, patch, now), now)[c]
           /\ WritesChanged(jobToRow(job, now), job, patch, now, clock)[c]
                = jobToRow(applyPatch(job, patch, now), now)[c]
<1> DEFINE next == applyPatch(job, patch, now)
           row == jobToRow(next, now)
           was == jobToRow(job, now)
           some == changedColumns(was, row, patch)
<1>1. "id" \in DOMAIN job
  BY DEF KEPT
<1>2. /\ \A f \in KEPT \cap DOMAIN job : Get(next, f) = job[f]
      /\ "schemaVersion" \in DOMAIN next <=> "schemaVersion" \in DOMAIN job
      /\ Get(next, "version") = Num(job["version"].of + 1)
  BY <1>1, PatchKeepsIdentity
<1> HIDE DEF next
<1>3. \A f \in KEPT : Get(next, f) = Get(job, f)
  BY <1>2 DEF Get, KEPT
<1>4. ASSUME c \in IMMUTABLE_COLUMNS PROVE row[c] = was[c]
  <2>1. /\ Get(next, "id") = Get(job, "id") /\ Get(next, "ownerId") = Get(job, "ownerId")
        /\ Get(next, "ownerKind") = Get(job, "ownerKind") /\ Get(next, "tenantId") = Get(job, "tenantId")
        /\ Get(next, "idempotencyKey") = Get(job, "idempotencyKey")
        /\ Get(next, "schemaVersion") = Get(job, "schemaVersion")
        /\ Get(next, "created_at") = Get(job, "created_at")
        /\ Get(next, "createdAt") = Get(job, "createdAt")
    BY <1>3 DEF KEPT
  <2> QED
    BY <1>4, <2>1, RowColumns DEF IMMUTABLE_COLUMNS
<1>5. was["version"] = job["version"] /\ row["version"] = Num(job["version"].of + 1)
  <2>1. Get(job, "version") = job["version"] /\ job["version"] # Null
    BY DEF Get, Versioned, EncodingAssumption, JsValue
  <2>2. Num(job["version"].of + 1) # Null
    <3>1. job["version"].of + 1 \in Int
      BY DEF Versioned
    <3> QED
      BY <3>1, JsValues DEF EncodingAssumption
  <2> QED
    BY <1>2, <2>1, <2>2, RowColumns DEF Or
<1> HIDE DEF row, was
<1>6. some \subseteq KINTAMI_BE_LAIKO /\ \A k \in KINTAMI_BE_LAIKO \ some : row[k] = was[k]
  BY DEF changedColumns
<1> HIDE DEF some
<1>7. ASSUME NEW written \in SUBSET KINTAMI_BE_LAIKO,
             \A k \in KINTAMI_BE_LAIKO \ written : row[k] = was[k]
      PROVE  Updated(was, written, row, clock)[c] = row[c]
  <2>0. KINTAMI_BE_LAIKO \cap {"updated_at", "version"} = {}
    BY DEF KINTAMI_BE_LAIKO
  <2>1. CASE c \in written
    BY <1>7, <2>0, <2>1 DEF Updated
  <2>2. CASE c = "version"
    BY <1>5, <1>7, <2>0, <2>2 DEF Updated
  <2>3. CASE c \notin written \cup {"version"}
    <3>1. Updated(was, written, row, clock)[c] = was[c]
      BY <2>3 DEF Updated
    <3>2. c \in KINTAMI_BE_LAIKO \ written \/ c \in IMMUTABLE_COLUMNS
      BY <2>3 DEF COLUMNS
    <3> QED
      BY <1>4, <1>7, <3>1, <3>2
  <2> QED
    BY <2>1, <2>2, <2>3
<1>8. Updated(was, KINTAMI_BE_LAIKO, row, clock)[c] = row[c]
  BY <1>7
<1>9. Updated(was, some, row, clock)[c] = row[c]
  BY <1>6, <1>7
<1> QED
  BY <1>8, <1>9 DEF writePatched, WritesChanged, row, was, next, some

-----------------------------------------------------------------------------
(* Owners. *)

\* An identity a request may carry: checked, and without the empty text.
Scoped(scope) ==
    /\ assertOwnerIdentity(scope) /\ scope.ownerId # Str(EmptyText)
    /\ scope.ownerId # Null => scope.ownerId.of \in Texts /\ scope.ownerId = Str(scope.ownerId.of)

(* The condition of the owned UPDATE and the check of a record that was     *)
(* read are the same: no one reads what he could not change, nor changes    *)
(* what he could not read; and a record without an owner kind is no one's.  *)
THEOREM ScopesAgree ==
    ASSUME EncodingAssumption, NEW row, NEW scope, Scoped(scope),
           row.owner_id # Str(EmptyText),
           row.owner_id # Null => row.owner_id.of \in Texts /\ row.owner_id = Str(row.owner_id.of)
    PROVE  ScopeMatches(row, scope) <=> matchesOwner(rowToJobMeta(row), scope)
<1> DEFINE job == rowToJobMeta(row)
<1>1. Get(job, "ownerId") = row.owner_id /\ Get(job, "ownerKind") = row.owner_kind
  BY DEF rowToJobMeta, RowValues, Get
<1> HIDE DEF job
<1>2. normalizeOwnerId(row.owner_id) = normalizeOwnerId(scope.ownerId) <=> row.owner_id = scope.ownerId
  BY DEF normalizeOwnerId, Scoped
<1>3. ScopeMatches(row, scope) <=> matchesOwner(job, scope)
  BY <1>1, <1>2 DEF ScopeMatches, matchesOwner
<1> QED
  BY <1>3 DEF job

(* A record is at most one owner's: two checked identities that both pass   *)
(* for it are the same.                                                     *)
THEOREM OneOwner ==
    ASSUME EncodingAssumption, NEW job, NEW one, NEW other, Scoped(one), Scoped(other),
           matchesOwner(job, one), matchesOwner(job, other)
    PROVE  one.ownerKind = other.ownerKind /\ one.ownerId = other.ownerId
BY DEF Scoped, matchesOwner, normalizeOwnerId

(* The owner to whom a hydrated record is answered is the owner of the row  *)
(* after the result was fetched, and the row is still the one the result    *)
(* was named by.                                                            *)
THEOREM OwnedReadIsOwned ==
    ASSUME NEW stored, NEW later, NEW scope, NEW hydrate \in BOOLEAN, NEW external \in BOOLEAN,
           NEW result, getOwned(stored, later, scope, hydrate, external, result).answer = "job"
    PROVE  /\ stored # Null /\ matchesOwner(rowToJobMeta(stored), scope)
           /\ hydrate /\ external => /\ later # Null /\ matchesOwner(rowToJobMeta(later), scope)
                                     /\ later.version = stored.version
BY DEF getOwned

-----------------------------------------------------------------------------
(* What leaves the machine (ProviderPrivacy). *)

(* The two tables, kept in two files, agree on every name, known or not:   *)
(* a provider may be used without approval exactly when nothing leaves the *)
(* machine through it (providerPrivacy.js and providerGovernance.js).      *)
THEOREM TablesAgree ==
    ASSUME NEW kind \in ProviderKinds, NEW name
    PROVE  isProviderAllowed(kind, name, {}) <=> ~ isExternal(kind, name)
<1>1. CASE kind = "transcription"
  BY <1>1 DEF isProviderAllowed, isExternal, lookup, MATRIX, TRANSCRIPTION, GOVERNANCE, LocalEntry, ExternalEntry, NoEntry
<1>2. CASE kind = "diarization"
  BY <1>2 DEF isProviderAllowed, isExternal, lookup, MATRIX, DIARIZATION, GOVERNANCE, LocalEntry, ExternalEntry, NoEntry
<1>3. CASE kind = "llm"
  BY <1>3 DEF isProviderAllowed, isExternal, lookup, MATRIX, LLM, GOVERNANCE, LocalEntry, ExternalEntry, NoEntry
<1> QED
  BY <1>1, <1>2, <1>3 DEF ProviderKinds

(* What a name that may be used is: local, or approved.                    *)
LEMMA AllowedIsLocal ==
    ASSUME NEW kind \in ProviderKinds, NEW name, NEW approved,
           isProviderAllowed(kind, name, approved), approved = {}
    PROVE  ~ isExternal(kind, name)
BY TablesAgree

(* With redaction required, the recording is handed to no external         *)
(* provider, whatever the request names, whatever is approved and whatever *)
(* the environment has become since the policy was frozen                  *)
(* (transcriptionService.js, assertRawAudioProviderAllowed()).             *)
THEOREM RecordingStays ==
    ASSUME NEW request, NEW env, NEW policy,
           policy.requireRedactionBeforeExternal
    PROVE  \A r \in transcribeAudio(request, env, policy) : ~ isExternal(r.kind, r.name)
<1> DEFINE transcriber == NameFor("transcription", request.transcription, env)
           diarizer == NameFor("diarization", request.diarization, env)
           First == [kind |-> "transcription", name |-> transcriber]
           Second == [kind |-> "diarization", name |-> diarizer]
<1>1. ASSUME Builds("transcription", transcriber, env, policy)
      PROVE  ~ isExternal(First.kind, First.name)
  BY <1>1 DEF Builds, isRawAudioProviderForbidden
<1>2. ASSUME Builds("diarization", diarizer, env, policy), diarizer \notin SPECIAL_MODES
      PROVE  ~ isExternal(Second.kind, Second.name)
  BY <1>2 DEF Builds, isRawAudioProviderForbidden, SPECIAL_MODES
<1> QED
  BY <1>1, <1>2 DEF transcribeAudio

(* In a process whose configuration passed at its start and allows no      *)
(* external provider, the recording and the prompts stay on the machine,   *)
(* provided that requests may not name a provider or that none is approved *)
(* (describeSelection() at start; the factories ask for approval only).    *)
THEOREM LocalStaysLocal ==
    ASSUME NEW env, NEW mod, NEW request, NEW override, NEW name,
           validatePrivacyConfig(env, mod),
           ~ getPrivacyConfig(env).allowExternalProviders,
           ~ env.ALLOW_PROVIDER_OVERRIDE \/ env.APPROVED_EXTERNAL_PROVIDERS = {},
           name = getLLMProvider(override, env, getPrivacyConfig(env), mod)
    PROVE  /\ \A r \in transcribeAudio(request, env, getPrivacyConfig(env)) :
                 ~ isExternal(r.kind, r.name)
           /\ name # NotGiven => ~ isExternal("llm", name)
<1> DEFINE policy == getPrivacyConfig(env)
           approved == approvedExternalProviders(env)
<1>1. describeSelection(env) = {}
  BY DEF validatePrivacyConfig
<1> HIDE DEF policy
<1>2. ASSUME NEW kind \in ProviderKinds, NEW given, isProviderAllowed(kind, NameFor(kind, given, env), approved),
             env.ALLOW_PROVIDER_OVERRIDE \/ given = NotGiven
      PROVE  ~ isExternal(kind, NameFor(kind, given, env))
  <2>1. CASE given = NotGiven
    BY <1>1, <2>1 DEF describeSelection, Selected
  <2>2. CASE env.APPROVED_EXTERNAL_PROVIDERS = {}
    <3>1. approved = {}
      BY <2>2 DEF approvedExternalProviders
    <3> QED
      BY <1>2, <3>1, AllowedIsLocal
  <2> QED
    BY <1>2, <2>1, <2>2
<1>3. ASSUME NEW r \in transcribeAudio(request, env, policy)
      PROVE  ~ isExternal(r.kind, r.name)
  <2> DEFINE transcriber == NameFor("transcription", request.transcription, env)
             diarizer == NameFor("diarization", request.diarization, env)
  <2>1. AdmitsOverrides(request, env)
    BY <1>3 DEF transcribeAudio
  <2>2. /\ env.ALLOW_PROVIDER_OVERRIDE \/ request.transcription = NotGiven
        /\ env.ALLOW_PROVIDER_OVERRIDE \/ request.diarization = NotGiven
    BY <2>1 DEF AdmitsOverrides
  <2>3. \/ r = [kind |-> "transcription", name |-> transcriber] /\ Builds("transcription", transcriber, env, policy)
        \/ r = [kind |-> "diarization", name |-> diarizer] /\ Builds("diarization", diarizer, env, policy)
    BY <1>3 DEF transcribeAudio
  <2>4. CASE r = [kind |-> "transcription", name |-> transcriber] /\ Builds("transcription", transcriber, env, policy)
    BY <1>2, <2>2, <2>4 DEF Builds, assertProviderAllowed, ProviderKinds
  <2>5. CASE r = [kind |-> "diarization", name |-> diarizer] /\ Builds("diarization", diarizer, env, policy)
    BY <1>2, <2>2, <2>5 DEF Builds, assertProviderAllowed, ProviderKinds
  <2> QED
    BY <2>3, <2>4, <2>5
<1>4. ASSUME name # NotGiven
      PROVE  ~ isExternal("llm", name)
  <2>1. /\ env.ALLOW_PROVIDER_OVERRIDE \/ override = NotGiven
        /\ name = NameFor("llm", override, env)
        /\ isProviderAllowed("llm", name, approved)
    BY <1>4 DEF getLLMProvider, assertProviderAllowed
  <2> QED
    BY <1>2, <2>1 DEF ProviderKinds
<1> QED
  BY <1>3, <1>4 DEF policy

(* A configuration that passes the start and selects an external provider  *)
(* says so: there is a warning for each, with what is sent; and with       *)
(* redaction required only protocols may have one                          *)
(* (validatePrivacyConfig()).                                              *)
THEOREM NothingLeavesSilently ==
    ASSUME NEW env, NEW mod, NEW kind \in describeSelection(env), validatePrivacyConfig(env, mod)
    PROVE  /\ [kind |-> kind, dataSent |-> lookup(kind, Selected(kind, env)).dataSent]
                 \in ExternalWarnings(env)
           /\ getPrivacyConfig(env).requireRedactionBeforeExternal => kind = "llm"
<1> DEFINE config == getPrivacyConfig(env)
<1>1. config.allowExternalProviders
  BY DEF validatePrivacyConfig
<1>2. [kind |-> kind, dataSent |-> lookup(kind, Selected(kind, env)).dataSent] \in ExternalWarnings(env)
  BY <1>1 DEF ExternalWarnings
<1>3. isExternal(kind, Selected(kind, env)) /\ kind \in ProviderKinds
  BY DEF describeSelection
<1>4. ASSUME config.requireRedactionBeforeExternal, kind # "llm"
      PROVE  FALSE
  <2>1. kind \in {"transcription", "diarization"}
    BY <1>3, <1>4 DEF ProviderKinds
  <2>2. ~ (kind = "diarization" /\ Selected(kind, env) \in {"none", "inline"})
    BY <1>3 DEF isExternal, lookup, MATRIX, DIARIZATION, LocalEntry, ExternalEntry, NoEntry
  <2>3. isRawAudioProviderForbidden(kind, Selected(kind, env), config)
    BY <1>3, <1>4, <2>2 DEF isRawAudioProviderForbidden
  <2>4. ~ RedactionErrors(env, config, mod)
    BY DEF validatePrivacyConfig
  <2> QED
    BY <1>4, <2>1, <2>3, <2>4 DEF RedactionErrors
<1> QED
  BY <1>2, <1>4

(* With redaction required, what an external provider of protocols gets,   *)
(* for the prompt and for the prompt of a repair, is what the component of *)
(* redaction made of it, never the text itself for want of a result        *)
(* (RedactingLLMProvider.generateProtocol()).                              *)
THEOREM RedactedOrNothing ==
    ASSUME NEW env, NEW policy, NEW mod, NEW override, NEW prompt, NEW repair, NEW name,
           policy.requireRedactionBeforeExternal,
           name = getLLMProvider(override, env, policy, mod),
           isExternal("llm", name),
           NEW text \in generateProtocol(name, prompt, repair, policy, mod)
    PROVE  /\ probeRedactionComponent(mod) = "ok"
           /\ text \in Payloads \ Blanks
           /\ \E payload \in {prompt, repair} : text = mod.redact[payload]
<1>1. name # NotGiven
  BY DEF generateProtocol
<1>2. enforceRedaction(name, policy)
  BY DEF enforceRedaction
<1>3. probeRedactionComponent(mod) = "ok"
  BY <1>1, <1>2 DEF getLLMProvider
<1>4. ASSUME NEW payload, applyRedaction(mod, payload) # Threw
      PROVE  /\ applyRedaction(mod, payload) \in Payloads \ Blanks
             /\ applyRedaction(mod, payload) = mod.redact[payload]
  BY <1>4 DEF applyRedaction, createOriginalArtefact, createRedactedArtefact, RedactionFails, applyText
<1>5. \E payload \in {prompt, repair} : text = applyRedaction(mod, payload) /\ text # Threw
  BY <1>2 DEF generateProtocol, Sent
<1> QED
  BY <1>3, <1>4, <1>5

(* An export that is not refused is of the variant that was asked for: the *)
(* original only where policy lets it out, and in a redacted one every     *)
(* text is a result of redaction, at any depth (_enforceExportPolicy()).   *)
THEOREM ExportAsAsked ==
    ASSUME NEW protocol, NEW variant, NEW policy, NEW mod,
           ~ ExportFails(protocol, variant, policy, mod)
    PROVE  \/ variant = "original" /\ policy.exportAllowOriginal
              /\ enforceExportPolicy(protocol, variant, mod) = protocol
           \/ /\ variant = "redacted"
              /\ \A place \in DOMAIN protocol :
                    enforceExportPolicy(protocol, variant, mod)[place] =
                        IF protocol[place] \in Payloads THEN mod.redact[protocol[place]]
                        ELSE protocol[place]
<1>1. variant \in {"original", "redacted"}
  BY DEF ExportFails, REQUESTABLE_VARIANTS
<1>2. CASE variant = "original"
  BY <1>2 DEF ExportFails, enforceExportPolicy
<1>3. ASSUME variant = "redacted", NEW place \in DOMAIN protocol
      PROVE  enforceExportPolicy(protocol, variant, mod)[place] =
                 IF protocol[place] \in Payloads THEN mod.redact[protocol[place]]
                 ELSE protocol[place]
  <2>1. applyData(mod, protocol)[place] # Threw
    BY <1>3 DEF ExportFails, RedactionFails, createOriginalArtefact
  <2>2. enforceExportPolicy(protocol, variant, mod) = applyData(mod, protocol)
    BY <1>3 DEF enforceExportPolicy, createRedactedArtefact, createOriginalArtefact
  <2> QED
    BY <1>3, <2>1, <2>2 DEF applyData, applyText
<1> QED
  BY <1>1, <1>2, <1>3

(* What the diagnostics foretell of redaction is what the factory does for *)
(* a request that names no provider (describeForDiagnostics(),             *)
(* _enforceRedaction()).                                                   *)
THEOREM DiagnosticsMatch ==
    ASSUME NEW env, NEW mod, NEW name,
           name = getLLMProvider(NotGiven, env, getPrivacyConfig(env), mod),
           name # NotGiven
    PROVE  describeForDiagnostics(env, mod).configuredForEnforcement
              <=> enforceRedaction(name, getPrivacyConfig(env))
<1>1. name = Selected("llm", env)
  BY DEF getLLMProvider, Selected
<1>2. enforceRedaction(name, getPrivacyConfig(env)) => probeRedactionComponent(mod) = "ok"
  BY DEF getLLMProvider
<1> QED
  BY <1>1, <1>2 DEF describeForDiagnostics, enforceRedaction

(* What an answer says of redaction is said of the prompt, also when the   *)
(* prompt of a repair was redacted after it (sourceRedactionAudit).        *)
THEOREM MetadataOfSource ==
    ASSUME NEW name, NEW prompt, NEW repair, NEW policy, NEW mod,
           enforceRedaction(name, policy),
           ~ RedactionFailed(name, prompt, repair, policy, mod)
    PROVE  redactionMeta(name, prompt, repair, policy, mod)
              = toAuditRecord("source_transcript", prompt, mod)
<1> DEFINE audits == redactionAudits(name, prompt, repair, policy, mod)
           source == toAuditRecord("source_transcript", prompt, mod)
           second == toAuditRecord("repair_prompt", repair, mod)
<1>1. source.purpose = "source_transcript" /\ second.purpose = "repair_prompt"
  BY DEF toAuditRecord
<1>2. audits = <<source>> \/ audits = <<source, second>>
  BY DEF RedactionFailed, redactionAudits
<1>3. redactionMeta(name, prompt, repair, policy, mod) =
        IF audits = << >> THEN [outcome |-> "none", policyVersion |-> NotGiven]
        ELSE CHOOSE a \in {audits[i] : i \in DOMAIN audits} : a.purpose = "source_transcript"
  BY DEF redactionMeta
<1> HIDE DEF audits, source, second
<1>4. audits # << >>
  BY <1>2
<1>5. {audits[i] : i \in DOMAIN audits} \in {{source}, {source, second}}
  <2>1. CASE audits = <<source>>
    <3>1. DOMAIN audits = {1} /\ audits[1] = source
      BY <2>1
    <3> QED
      BY <3>1
  <2>2. CASE audits = <<source, second>>
    <3>1. DOMAIN audits = {1, 2} /\ audits[1] = source /\ audits[2] = second
      BY <2>2
    <3> QED
      BY <3>1
  <2> QED
    BY <1>2, <2>1, <2>2
<1>6. (CHOOSE a \in {audits[i] : i \in DOMAIN audits} : a.purpose = "source_transcript") = source
  BY <1>1, <1>5
<1> QED
  BY <1>3, <1>4, <1>6 DEF source

(* When the prompt of a repair cannot be redacted, the audit says that     *)
(* nothing was sent; but the redacted prompt had been (protocolService.js, *)
(* the catch of generateProtocol()).                                       *)
THEOREM BlockedMayBeSent ==
    ASSUME NEW name, NEW prompt, NEW repair, NEW policy, NEW mod,
           name # NotGiven, repair # NotGiven,
           enforceRedaction(name, policy),
           applyRedaction(mod, prompt) # Threw, applyRedaction(mod, repair) = Threw
    PROVE  /\ redactionMeta(name, prompt, repair, policy, mod).outcome = "blocked"
           /\ applyRedaction(mod, prompt) \in generateProtocol(name, prompt, repair, policy, mod)
<1>1. redactionMeta(name, prompt, repair, policy, mod).outcome = "blocked"
  BY DEF redactionMeta, RedactionFailed
<1> QED
  BY <1>1 DEF generateProtocol, Sent

-----------------------------------------------------------------------------
(* Erasures that are tried again (DeletionRetry). *)

(* The factor of the backoff is one of six.                                *)
LEMMA MultiplierRange ==
    ASSUME NEW attempts \in Nat
    PROVE  multiplier(attempts) \in {1, 2, 4, 8, 16, 32}
BY DEF multiplier, MAX_BACKOFF_MULTIPLIER

(* Every failed attempt is counted, whether or not the store takes the     *)
(* count: the next sweep of the process counts one more, so that the       *)
(* operator is told, and it leaves the job alone until the backoff is over *)
(* and for no longer (retryPendingDeletions(), _isDue()).                  *)
THEOREM FailureIsRemembered ==
    ASSUME NEW s \in RetryState, NEW now \in Nat, NEW base \in Nat \ {0}, NEW saved,
           isDue(s, now)
    PROVE  LET after == AfterFailure(s, now, base, saved)
               next == now + backoffMs(Counted(s) + 1, base)
           IN /\ after \in RetryState
              /\ Counted(after) = Counted(s) + 1
              /\ \A t \in Nat : isDue(after, t) <=> t >= next
              /\ next > now /\ next <= now + 32 * base
<1> DEFINE attempts == bandymuSkaicius(s)
           next == now + backoffMs(attempts, base)
           fresh == [attempts |-> attempts, next |-> {next}]
<1>1. /\ s.stored \in Kept /\ s.backup \in Kept
      /\ s.stored.attempts \in Nat /\ s.backup.attempts \in Nat
  BY DEF RetryState, Kept
<1>2. attempts \in Nat /\ attempts = Counted(s) + 1
  BY <1>1 DEF bandymuSkaicius, Counted
<1>3. multiplier(attempts) \in {1, 2, 4, 8, 16, 32}
  BY <1>2, MultiplierRange
<1>4. next \in Nat /\ next > now /\ next <= now + 32 * base
  <2>1. CASE multiplier(attempts) = 1
    BY <2>1 DEF backoffMs
  <2>2. CASE multiplier(attempts) = 2
    BY <2>2 DEF backoffMs
  <2>3. CASE multiplier(attempts) = 4
    BY <2>3 DEF backoffMs
  <2>4. CASE multiplier(attempts) = 8
    BY <2>4 DEF backoffMs
  <2>5. CASE multiplier(attempts) = 16
    BY <2>5 DEF backoffMs
  <2>6. CASE multiplier(attempts) = 32
    BY <2>6 DEF backoffMs
  <2> QED
    BY <1>3, <2>1, <2>2, <2>3, <2>4, <2>5, <2>6
<1>5. AfterFailure(s, now, base, saved) =
        IF saved THEN [stored |-> fresh, backup |-> NoBackup]
        ELSE [stored |-> s.stored, backup |-> fresh]
  BY DEF AfterFailure, issaugotiBandyma
<1>6. s.stored.attempts < attempts
  BY <1>1, <1>2 DEF Counted
<1>7. s.stored.next \in Times /\ \A t \in s.stored.next : t \in Nat /\ t <= now
  BY <1>1 DEF Kept, Times, isDue
<1> HIDE DEF attempts, next
<1>8. fresh \in Kept /\ NoBackup \in Kept
  BY <1>2, <1>4 DEF Kept, NoBackup, Times
<1>9. ASSUME saved
      PROVE  LET after == AfterFailure(s, now, base, saved)
             IN /\ after \in RetryState
                /\ Counted(after) = attempts
                /\ \A t \in Nat : isDue(after, t) <=> t >= next
  <2>1. AfterFailure(s, now, base, saved) = [stored |-> fresh, backup |-> NoBackup]
    BY <1>5, <1>9
  <2>2. [stored |-> fresh, backup |-> NoBackup] \in RetryState
    BY <1>8 DEF RetryState
  <2>3. Counted([stored |-> fresh, backup |-> NoBackup]) = attempts
    BY <1>2 DEF Counted, NoBackup
  <2>4. ASSUME NEW t \in Nat
        PROVE  isDue([stored |-> fresh, backup |-> NoBackup], t) <=> t >= next
    BY <1>4 DEF isDue, NoBackup
  <2> QED
    BY <2>1, <2>2, <2>3, <2>4
<1>10. ASSUME ~ saved
      PROVE  LET after == AfterFailure(s, now, base, saved)
             IN /\ after \in RetryState
                /\ Counted(after) = attempts
                /\ \A t \in Nat : isDue(after, t) <=> t >= next
  <2>1. AfterFailure(s, now, base, saved) = [stored |-> s.stored, backup |-> fresh]
    BY <1>5, <1>10
  <2>2. [stored |-> s.stored, backup |-> fresh] \in RetryState
    BY <1>1, <1>8 DEF RetryState
  <2>3. Counted([stored |-> s.stored, backup |-> fresh]) = attempts
    BY <1>1, <1>2, <1>6 DEF Counted
  <2>4. ASSUME NEW t \in Nat
        PROVE  isDue([stored |-> s.stored, backup |-> fresh], t) <=> t >= next
    BY <1>4, <1>7 DEF isDue
  <2> QED
    BY <2>1, <2>2, <2>3, <2>4
<1>11. next = now + backoffMs(Counted(s) + 1, base)
  BY <1>2 DEF next
<1> QED
  BY <1>2, <1>4, <1>9, <1>10, <1>11

-----------------------------------------------------------------------------
(* The start of the processes of one deployment.                           *)

(* What a process knows at each step of its start depends on the environment *)
(* alone, whatever was up when it took the step.                             *)
PastJobs == {"sessions", "reconcile", "audit", "marks", "runner", "check", "serving"}
PastMarks == {"runner", "check", "serving"}

Validated(p) ==
    /\ at[p] \notin {"down", "config"} /\ p \in Servers => ~ Refused
    /\ at[p] = "runner" => p \in Servers
    /\ at[p] = "serving" /\ p \in Workers => canUseQueue(store[p])

StoreChosen(p) ==
    /\ store[p] # "memory" => store[p] = norimas /\ ~ ContradictoryChoice
    /\ at[p] \in PastJobs /\ conf.required /\ conf.redisUrl /\ conf.storage # "off" => store[p] # "memory"

MarksChosen(p) == at[p] \in PastMarks => marks[p] = IF conf.postgres THEN "postgres" ELSE "memory"

ModeChosen(p) == at[p] = "serving" /\ mode[p] = "bullmq" => canUseQueue(store[p])

StartOk(p) == Validated(p) /\ StoreChosen(p) /\ MarksChosen(p) /\ ModeChosen(p)

StartInv == TypeOK /\ \A p \in Processes : StartOk(p)

LEMMA StartAgrees == ASSUME StartInv PROVE AuthoritiesAgree
<1>1. conf \in DeploymentEnvironments
  BY ConfigsAssumption DEF StartInv, TypeOK
<1>2. ASSUME NEW p \in Processes, Serving(p), mode[p] = "bullmq"
      PROVE  store[p] \in {"redis", "postgres"} /\ store[p] = norimas
  BY <1>2 DEF StartInv, StartOk, ModeChosen, StoreChosen, Serving, canUseQueue, SHARED_BACKENDS
<1>3. ASSUME NEW p \in Processes, Serving(p), conf.required, conf.redisUrl
      PROVE  store[p] # "memory"
  <2>1. CASE p \in Workers
    BY <1>3, <2>1 DEF StartInv, StartOk, Validated, Serving, canUseQueue, SHARED_BACKENDS
  <2>2. CASE p \in Servers
    <3>1. conf.storage # "off"
      BY <1>3, <2>2 DEF StartInv, StartOk, Validated, Serving, Refused, ContradictoryPrivacy
    <3> QED BY <1>3, <3>1 DEF StartInv, StartOk, StoreChosen, Serving, PastJobs
  <2> QED BY <2>1, <2>2 DEF Processes
<1>4. ASSUME NEW p \in Processes, Serving(p), store[p] = "postgres"
      PROVE  marks[p] = "postgres"
  <2>1. norimas = "postgres" /\ ~ ContradictoryChoice
    BY <1>4 DEF StartInv, StartOk, StoreChosen
  <2>2. conf.postgres
    BY <1>1, <2>1 DEF norimas, ContradictoryChoice, DeploymentEnvironments
  <2> QED BY <1>4, <2>2 DEF StartInv, StartOk, MarksChosen, Serving, PastMarks
<1> QED BY <1>2, <1>3, <1>4 DEF AuthoritiesAgree

LEMMA StartInv_Init == Init => StartInv
BY ConfigsAssumption, ProcessesAssumption
   DEF Init, StartInv, TypeOK, StartOk, Validated, StoreChosen, MarksChosen, ModeChosen,
       PastJobs, PastMarks

(* A step of one process leaves the environment and every other process.   *)
LEMMA OneMoves ==
    ASSUME StartInv, NEW p \in Processes,
           NEW a \in ServerSteps \cup WorkerSteps \cup {"down", "serving"},
           NEW s \in {"memory", "redis", "postgres"}, NEW m \in {"memory", "postgres"},
           NEW o \in {"none", "inline", "bullmq"},
           at' = [at EXCEPT ![p] = a], store' = [store EXCEPT ![p] = s],
           marks' = [marks EXCEPT ![p] = m], mode' = [mode EXCEPT ![p] = o],
           conf' = conf, up' \subseteq Services, faults' \in 0 .. MaxFaults,
           a \notin {"down", "config"} /\ p \in Servers => ~ Refused,
           a = "runner" => p \in Servers,
           a = "serving" /\ (p \in Workers \/ o = "bullmq") => canUseQueue(s),
           s # "memory" => s = norimas /\ ~ ContradictoryChoice,
           a \in PastJobs /\ conf.required /\ conf.redisUrl /\ conf.storage # "off" => s # "memory",
           a \in PastMarks => m = IF conf.postgres THEN "postgres" ELSE "memory"
    PROVE  StartInv'
<1>1. TypeOK'
  BY DEF StartInv, TypeOK
<1>2. at'[p] = a /\ store'[p] = s /\ marks'[p] = m /\ mode'[p] = o
  BY DEF StartInv, TypeOK
<1>3. /\ Refused' = Refused /\ norimas' = norimas /\ ContradictoryChoice' = ContradictoryChoice
      /\ \A x : canUseQueue(x)' <=> canUseQueue(x)
  BY DEF Refused, norimas, ContradictoryChoice, ContradictoryPrivacy, canUseQueue
<1>4. StartOk(p)'
  BY <1>2, <1>3 DEF StartOk, Validated, StoreChosen, MarksChosen, ModeChosen, canUseQueue
<1>5. ASSUME NEW q \in Processes, q # p PROVE StartOk(q)'
  <2>1. at'[q] = at[q] /\ store'[q] = store[q] /\ marks'[q] = marks[q] /\ mode'[q] = mode[q]
    BY <1>5 DEF StartInv, TypeOK
  <2>2. StartOk(q)
    BY DEF StartInv
  <2> QED BY <1>3, <2>1, <2>2 DEF StartOk, Validated, StoreChosen, MarksChosen, ModeChosen, canUseQueue
<1> QED BY <1>1, <1>4, <1>5 DEF StartInv

(* Services come and go without a process noticing.                        *)
LEMMA NobodyMoves ==
    ASSUME StartInv, UNCHANGED <<conf, at, store, marks, mode>>, up' \subseteq Services,
           faults' \in 0 .. MaxFaults
    PROVE  StartInv'
<1>1. TypeOK'
  BY DEF StartInv, TypeOK
<1>2. ASSUME NEW q \in Processes PROVE StartOk(q)'
  BY DEF StartInv, StartOk, Validated, StoreChosen, MarksChosen, ModeChosen, Refused, norimas,
         ContradictoryChoice, ContradictoryPrivacy, canUseQueue
<1> QED BY <1>1, <1>2 DEF StartInv

LEMMA ProcessTypes ==
    ASSUME TypeOK, NEW p \in Processes
    PROVE  /\ at[p] \in ServerSteps \cup WorkerSteps \cup {"down", "serving"}
           /\ store[p] \in {"memory", "redis", "postgres"} /\ marks[p] \in {"memory", "postgres"}
           /\ mode[p] \in {"none", "inline", "bullmq"}
           /\ store = [store EXCEPT ![p] = store[p]] /\ marks = [marks EXCEPT ![p] = marks[p]]
           /\ mode = [mode EXCEPT ![p] = mode[p]]
BY DEF TypeOK

LEMMA ExitKeeps ==
    ASSUME StartInv, NEW p \in Processes, Exit(p) \/ Crash(p)
    PROVE  StartInv'
<1>1. /\ at' = [at EXCEPT ![p] = "down"] /\ store' = [store EXCEPT ![p] = "memory"]
      /\ marks' = [marks EXCEPT ![p] = "memory"] /\ mode' = [mode EXCEPT ![p] = "none"]
      /\ conf' = conf
  BY DEF Exit, Crash, Goto
<1>2. up' \subseteq Services /\ faults' \in 0 .. MaxFaults
  BY ProcessesAssumption DEF Exit, Crash, StartInv, TypeOK
<1> QED BY <1>1, <1>2, OneMoves DEF PastJobs, PastMarks

(* A step that only goes on: nothing is decided by it.                     *)
LEMMA GoesOn ==
    ASSUME StartInv, NEW p \in Processes, NEW a \in ServerSteps \cup WorkerSteps,
           Goto(p, a), OnlyAt,
           a # "config" /\ p \in Servers => ~ Refused, a # "runner",
           a \in PastJobs => at[p] \in PastJobs, a \in PastMarks => at[p] \in PastMarks
    PROVE  StartInv'
<1>1. at' = [at EXCEPT ![p] = a] /\ conf' = conf /\ a \notin {"down", "serving"}
  BY DEF Goto, OnlyAt, ServerSteps, WorkerSteps
<1>2. up' \subseteq Services /\ faults' \in 0 .. MaxFaults
  BY DEF OnlyAt, StartInv, TypeOK
<1>3. /\ store' = [store EXCEPT ![p] = store[p]] /\ marks' = [marks EXCEPT ![p] = marks[p]]
      /\ mode' = [mode EXCEPT ![p] = mode[p]]
  BY ProcessTypes DEF OnlyAt, StartInv
<1>4. /\ store[p] # "memory" => store[p] = norimas /\ ~ ContradictoryChoice
      /\ a \in PastJobs /\ conf.required /\ conf.redisUrl /\ conf.storage # "off" => store[p] # "memory"
      /\ a \in PastMarks => marks[p] = IF conf.postgres THEN "postgres" ELSE "memory"
  BY DEF StartInv, StartOk, StoreChosen, MarksChosen
<1>5. /\ store[p] \in {"memory", "redis", "postgres"} /\ marks[p] \in {"memory", "postgres"}
      /\ mode[p] \in {"none", "inline", "bullmq"}
  BY ProcessTypes DEF StartInv
<1> QED BY <1>1, <1>2, <1>3, <1>4, <1>5, OneMoves

LEMMA KeepKeeps ==
    ASSUME StartInv, NEW p \in Processes, at[p] = "jobs",
           NEW s \in {"memory", "redis", "postgres"}, Keep(p, s),
           s # "memory" => s = norimas /\ ~ ContradictoryChoice,
           conf.required /\ conf.redisUrl /\ conf.storage # "off" => s # "memory"
    PROVE  StartInv'
<1>1. PICK a \in {"sessions", "audit"} : Goto(p, a)
  BY DEF Keep
<1>2. /\ at' = [at EXCEPT ![p] = a] /\ store' = [store EXCEPT ![p] = s] /\ conf' = conf
      /\ a \in ServerSteps \cup WorkerSteps /\ a \notin PastMarks
  BY <1>1 DEF Goto, Keep, ServerSteps, WorkerSteps, PastMarks
<1>3. up' \subseteq Services /\ faults' \in 0 .. MaxFaults
  BY DEF Keep, StartInv, TypeOK
<1>4. marks' = [marks EXCEPT ![p] = marks[p]] /\ mode' = [mode EXCEPT ![p] = mode[p]]
  BY ProcessTypes DEF Keep, StartInv
<1>5. p \in Servers => ~ Refused
  BY DEF StartInv, StartOk, Validated
<1>6. /\ store[p] \in {"memory", "redis", "postgres"} /\ marks[p] \in {"memory", "postgres"}
      /\ mode[p] \in {"none", "inline", "bullmq"}
  BY ProcessTypes DEF StartInv
<1> QED BY <1>2, <1>3, <1>4, <1>5, <1>6, OneMoves

LEMMA LaunchKeeps ==
    ASSUME StartInv, NEW p \in Processes, Launch(p) \/ CheckConfig(p)
    PROVE  StartInv'
<1>1. CASE Launch(p)
  BY <1>1, GoesOn DEF Launch, ServerSteps, PastJobs, PastMarks
<1>2. CASE CheckConfig(p) /\ Exit(p)
  BY <1>2, ExitKeeps
<1>3. CASE CheckConfig(p) /\ ~ Exit(p)
  <2>1. Goto(p, "jobs") /\ OnlyAt /\ (p \in Servers => ~ Refused)
    BY <1>3 DEF CheckConfig
  <2> QED BY <2>1, GoesOn DEF ServerSteps, PastJobs, PastMarks
<1> QED BY <1>1, <1>2, <1>3

LEMMA JobsKeeps ==
    ASSUME StartInv, NEW p \in Processes,
           KeepNothing(p) \/ NoChoice(p) \/ KeepInMemory(p) \/ KeepInRedis(p) \/ KeepInPostgres(p)
    PROVE  StartInv'
<1> USE DEF Chosen
<1>0. conf \in DeploymentEnvironments
  BY ConfigsAssumption DEF StartInv, TypeOK
<1>1. CASE Exit(p)
  BY <1>1, ExitKeeps
<1>2. CASE KeepNothing(p)
  BY <1>2, KeepKeeps DEF KeepNothing
<1>3. CASE KeepInMemory(p)
  <2>1. ~ (conf.required /\ conf.redisUrl)
    BY <1>0, <1>3 DEF KeepInMemory, norimas, ContradictoryChoice, DeploymentEnvironments
  <2> QED BY <1>3, <2>1, KeepKeeps DEF KeepInMemory
<1>4. CASE KeepInRedis(p) /\ ~ Exit(p)
  BY <1>4, KeepKeeps DEF KeepInRedis
<1>5. CASE KeepInPostgres(p) /\ ~ Exit(p)
  BY <1>5, KeepKeeps DEF KeepInPostgres
<1> QED BY <1>1, <1>2, <1>3, <1>4, <1>5 DEF NoChoice

LEMMA AuthorityKeeps ==
    ASSUME StartInv, NEW p \in Processes, Sessions(p) \/ Reconcile(p) \/ Audit(p)
    PROVE  StartInv'
<1>1. CASE Exit(p)
  BY <1>1, ExitKeeps
<1>2. CASE ~ Exit(p)
  <2>1. PICK a \in {"reconcile", "audit", "marks"} : Goto(p, a) /\ OnlyAt
    BY <1>2 DEF Sessions, Reconcile, Audit, Authority
  <2>2. at[p] \in {"sessions", "reconcile", "audit"}
    BY DEF Sessions, Reconcile, Audit, Authority
  <2>3. p \in Servers => ~ Refused
    BY <2>2 DEF StartInv, StartOk, Validated
  <2>4. a \in ServerSteps \cup WorkerSteps /\ a \notin PastMarks /\ at[p] \in PastJobs
    BY <2>2 DEF ServerSteps, WorkerSteps, PastJobs, PastMarks
  <2> QED BY <2>1, <2>3, <2>4, GoesOn
<1> QED BY <1>1, <1>2

LEMMA MarksKeeps == ASSUME StartInv, NEW p \in Processes, Marks(p) PROVE StartInv'
<1>1. CASE Exit(p)
  BY <1>1, ExitKeeps
<1>2. CASE ~ Exit(p)
  <2>1. PICK a \in {"runner", "check"}, m \in {"memory", "postgres"} :
          Goto(p, a) /\ (a = "runner" => p \in Servers) /\ marks' = [marks EXCEPT ![p] = m]
          /\ m = IF conf.postgres THEN "postgres" ELSE "memory"
    BY <1>2 DEF Marks
  <2>2. UNCHANGED <<conf, up, faults, store, mode>> /\ at[p] = "marks"
    BY <1>2 DEF Marks
  <2>3. /\ at' = [at EXCEPT ![p] = a] /\ a \in ServerSteps \cup WorkerSteps
        /\ a \notin {"down", "config", "serving"} /\ at[p] \in PastJobs
    BY <2>1, <2>2 DEF Goto, ServerSteps, WorkerSteps, PastJobs
  <2>4. up' \subseteq Services /\ faults' \in 0 .. MaxFaults
    BY <2>2 DEF StartInv, TypeOK
  <2>5. store' = [store EXCEPT ![p] = store[p]] /\ mode' = [mode EXCEPT ![p] = mode[p]]
    BY <2>2, ProcessTypes DEF StartInv
  <2>6. StoreChosen(p) /\ (p \in Servers => ~ Refused)
    BY <2>2 DEF StartInv, StartOk, Validated
  <2> QED BY <2>1, <2>2, <2>3, <2>4, <2>5, <2>6, OneMoves, ProcessTypes DEF StartInv, StoreChosen
<1> QED BY <1>1, <1>2

LEMMA ServeKeeps ==
    ASSUME StartInv, NEW p \in Processes, NEW how \in {"inline", "bullmq"}, Serve(p, how),
           at[p] \in {"runner", "check"},
           p \in Workers \/ how = "bullmq" => canUseQueue(store[p])
    PROVE  StartInv'
<1>1. /\ at' = [at EXCEPT ![p] = "serving"] /\ mode' = [mode EXCEPT ![p] = how]
      /\ UNCHANGED <<conf, up, faults, store, marks>>
  BY DEF Serve, Goto
<1>2. up' \subseteq Services /\ faults' \in 0 .. MaxFaults
  BY <1>1 DEF StartInv, TypeOK
<1>3. store' = [store EXCEPT ![p] = store[p]] /\ marks' = [marks EXCEPT ![p] = marks[p]]
  BY <1>1, ProcessTypes DEF StartInv
<1>4. at[p] \in PastJobs /\ at[p] \in PastMarks /\ (p \in Servers => ~ Refused)
  BY DEF StartInv, StartOk, Validated, PastJobs, PastMarks
<1>5. /\ store[p] # "memory" => store[p] = norimas /\ ~ ContradictoryChoice
      /\ conf.required /\ conf.redisUrl /\ conf.storage # "off" => store[p] # "memory"
      /\ marks[p] = IF conf.postgres THEN "postgres" ELSE "memory"
  BY <1>4 DEF StartInv, StartOk, StoreChosen, MarksChosen
<1>6. /\ store[p] \in {"memory", "redis", "postgres"} /\ marks[p] \in {"memory", "postgres"}
      /\ mode[p] \in {"none", "inline", "bullmq"}
  BY ProcessTypes DEF StartInv
<1> QED BY <1>1, <1>2, <1>3, <1>4, <1>5, <1>6, OneMoves

LEMMA RunnerKeeps ==
    ASSUME StartInv, NEW p \in Processes, Runner(p) \/ Check(p)
    PROVE  StartInv'
<1>1. CASE Exit(p)
  BY <1>1, ExitKeeps
<1>2. CASE Runner(p) /\ ~ Exit(p)
  <2>1. p \notin Workers
    BY <1>2, ProcessesAssumption DEF Runner, StartInv, StartOk, Validated
  <2>2. PICK how \in {"inline", "bullmq"} : Serve(p, how) /\ (how = "bullmq" => canUseQueue(store[p]))
    BY <1>2 DEF Runner
  <2> QED BY <1>2, <2>1, <2>2, ServeKeeps DEF Runner
<1>3. CASE Check(p) /\ ~ Exit(p)
  BY <1>3, ServeKeeps DEF Check
<1> QED BY <1>1, <1>2, <1>3

LEMMA StartInv_Step == ASSUME StartInv, [Next]_vars PROVE StartInv'
<1>1. CASE UNCHANGED vars
  BY <1>1, NobodyMoves DEF vars, StartInv, TypeOK
<1>2. CASE Fault \/ \E s \in Services : Recover(s)
  BY <1>2, NobodyMoves, ProcessesAssumption DEF Fault, Recover, StartInv, TypeOK
<1>3. ASSUME NEW p \in Processes, Step(p) \/ Crash(p) PROVE StartInv'
  BY <1>3, ExitKeeps, LaunchKeeps, JobsKeeps, AuthorityKeeps, MarksKeeps, RunnerKeeps DEF Step
<1> QED BY <1>1, <1>2, <1>3 DEF Next

(* Whatever was down when each process started: workers and servers that    *)
(* share a queue share the store, nobody serves from memory against         *)
(* REDIS_REQUIRED, and records in PostgreSQL have their marks there.        *)
THEOREM AuthoritiesAgreed == Spec => []AuthoritiesAgree
<1>1. StartInv /\ [Next]_vars => StartInv'
  BY StartInv_Step
<1>2. StartInv => AuthoritiesAgree
  BY StartAgrees
<1> QED BY StartInv_Init, <1>1, <1>2, PTL DEF Spec
=============================================================================
