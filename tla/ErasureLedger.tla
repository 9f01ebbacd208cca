---------------------------- MODULE ErasureLedger ----------------------------
(***************************************************************************)
(* The ledger of erasure marks that leaves the database in an encrypted    *)
(* file, and comes back into a restored one (erasureExport.js,             *)
(* drCoordinator.js sulieti): what it is sealed with, what is asked of it  *)
(* when it is opened, and how its marks are merged with those the restored *)
(* database has.  There is no state; DisasterRecovery has the interleaving *)
(* of the merge with the rest of a recovery.                               *)
(***************************************************************************)
EXTENDS BackupCopies

CONSTANTS
    Jobs,
    Deployments,  \* identities a migration gave to databases
    Claims,       \* tokens of executors that hold a mark
    Rests         \* the rest of a mark: reason, actor, end, kind of failure

-----------------------------------------------------------------------------
(* Marks. *)

ALLOWED_TRANSITIONS ==
    [deletion_pending |-> {"deleted", "deletion_failed"}, deletion_failed |-> {"deletion_pending"},
     deleted |-> {}]

Statuses == DOMAIN ALLOWED_TRANSITIONS

arTerminalus(status) == ALLOWED_TRANSITIONS[status] = {}

\* Times in milliseconds.
Mark == [status : Statuses, requestedAt : Nat, updatedAt : Nat, attempts : Nat,
         claimToken : Claims \cup {Absent}, rest : Rests]

\* erasure_marks, one row for a job.
Tables == UNION {[J -> Mark] : J \in SUBSET Jobs}

-----------------------------------------------------------------------------
(* The file. *)

LedgerOf(deploymentId, horizon, marks) ==
    [deploymentId |-> deploymentId, horizontas |-> horizon, zymos |-> marks]

sudarytiPasses(env, deploymentId) == deploymentId # Absent /\ env.key \notin {Absent, BadKey}

sudarytiArtefakta(env, ledger, now) ==
    LET text == [kind |-> "ledger", body |-> ledger]
        m == sealedManifest(env, << >>, computeChecksum(text), TRUE, now, 0)
    IN [manifest |-> m, envelope |-> encrypt(env.key, m, text)]

\* Neither the version of the format nor that of the application is asked.
perskaitytiPasses(env, m, envelope) ==
    /\ validateManifest(m)
    /\ decrypts(env, m, envelope)
    /\ verifyChecksum(m, envelope.text)
    /\ envelope.text.kind = "ledger"

\* deploymentId is that of the restored database, in a table the dump carries.
patikrintiKilme(ledger, deploymentId) ==
    /\ ledger.deploymentId # Absent
    /\ deploymentId # Absent
    /\ ledger.deploymentId = deploymentId

-----------------------------------------------------------------------------
(* The merge. *)

\* No claim is brought back: the executor that held it is gone.
beClaimo(mark) == [mark EXCEPT !.claimToken = Absent]

laimiImportuotas(imported, local) ==
    /\ ~arTerminalus(local.status)
    /\ arTerminalus(imported.status) \/ imported.updatedAt > local.updatedAt

suliejimoPlanas(marks, table) ==
    {j \in DOMAIN marks : j \in DOMAIN table => laimiImportuotas(beClaimo(marks[j]), table[j])}

\* The row of a job that has one keeps the earlier request and the larger
\* number of attempts.
FirstRequest(mark, table, j) ==
    IF j \in DOMAIN table /\ table[j].requestedAt < mark.requestedAt
    THEN table[j].requestedAt ELSE mark.requestedAt

MoreAttempts(mark, table, j) ==
    IF j \in DOMAIN table /\ table[j].attempts > mark.attempts
    THEN table[j].attempts ELSE mark.attempts

importuotiZyma(mark, table, j) ==
    [mark EXCEPT !.requestedAt = FirstRequest(mark, table, j),
                 !.attempts = MoreAttempts(mark, table, j),
                 !.claimToken = Absent]

\* The marks are written one by one; a merge that dies in between is started
\* again from its file.
sulieti(marks, table, written) ==
    [j \in DOMAIN table \cup written |->
        IF j \in written THEN importuotiZyma(beClaimo(marks[j]), table, j) ELSE table[j]]

\* Absent where no copy was ever made.
horizontoMaksimumas(exported, local) ==
    IF exported = Absent \/ (local # Absent /\ local > exported) THEN local ELSE exported

\* What the replay goes over: marks of every status, the confirmed ones too,
\* whose data the dump has brought back.
arReikiaReplay(mark) == mark.status \in Statuses
=============================================================================
