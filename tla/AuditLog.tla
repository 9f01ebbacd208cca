------------------------------ MODULE AuditLog ------------------------------
(***************************************************************************)
(* The persistent audit log: one PostgreSQL table that several replicas    *)
(* append to, page through, purge and erase from.  A row does not name its *)
(* job but a pseudonym of it, computed with the key that was active at the *)
(* replica that wrote it, so that the rows of an erased job are found only *)
(* by a replica that has every key they were written with; the keys rotate *)
(* by restarts.  The appends of a job exclude its erasure mark through the *)
(* advisory lock of the job, held until they commit.                       *)
(*                                                                         *)
(* The log of one process in memory has the same operations without the    *)
(* lock and without keys, and loses its rows with the process; it is not   *)
(* modelled.  AUDIT_ALLOW_UNRESOLVABLE_KEY_GENERATIONS, which gives up the *)
(* erasure of some rows on purpose, is off.                                *)
(***************************************************************************)
EXTENDS Naturals, FiniteSets

CONSTANTS
    Replicas,
    Generations,    \* generations of the pseudonymisation key
    NoKey,          \* of a replica that does not run, or of no cursor
    Nobody,         \* no replica erases
    Limit,          \* rows of a page
    Batch,          \* rows of a purge statement, RETENCIJOS_BATCH
    SoftLimit,      \* HISTORICAL_SOFT_LIMIT
    MaxSeq,         \* bound: rows ever inserted
    MaxBoots        \* bound: starts of each replica

ASSUME AuditConstants ==
    /\ NoKey \notin Generations /\ Nobody \notin Replicas
    /\ Limit \in Nat \ {0} /\ Batch \in Nat \ {0}
    /\ SoftLimit \in Nat /\ MaxSeq \in Nat /\ MaxBoots \in Nat

VARIABLES
    privacy,    \* PRIVACY_MODE of the deployment
    proc,       \* the replicas and the key ring each was started with
    mark,       \* the job has an erasure mark
    seq,        \* the last number the sequence of the table gave out
    rows,       \* committed rows; "job" is whether they are about the job
    open,       \* the transactions that write a row
    erasing,     \* the erasure of the rows of the job
    scan        \* a reader who pages through the log

logVars == <<privacy, proc, mark, seq, rows, open, erasing, scan>>

Ring == {g \in [active : Generations, known : SUBSET Generations] : g.active \in g.known}

Row == [seq : Nat, key : Generations, job : BOOLEAN]

NoRing == [active |-> NoKey, known |-> {}]

Process == [at : {"down", "checking", "purging", "serving"}, ring : Ring \cup {NoRing}, boots : Nat]

Transaction == [on : Replicas, row : Row]

Eraser == [at : {"idle", "listed", "done"}, on : Replicas \cup {Nobody}, keys : SUBSET Generations]

Idle == [at |-> "idle", on |-> Nobody, keys |-> {}]

Scan == [at : {"idle", "reading", "done", "refused"}, job : BOOLEAN, after : Nat,
         key : Generations \cup {NoKey}, owed : SUBSET Row, got : SUBSET Nat, twice : BOOLEAN]

NoScan == [at |-> "idle", job |-> FALSE, after |-> 0, key |-> NoKey,
           owed |-> {}, got |-> {}, twice |-> FALSE]

LogTypeOK ==
    /\ privacy \in BOOLEAN /\ mark \in BOOLEAN
    /\ proc \in [Replicas -> Process]
    /\ seq \in Nat
    /\ rows \in SUBSET Row
    /\ open \in SUBSET Transaction
    /\ erasing \in Eraser /\ scan \in Scan

-----------------------------------------------------------------------------
Up == {r \in Replicas : proc[r].at # "down"}

Serving == {r \in Replicas : proc[r].at = "serving"}

\* mutant: an append does not take the lock
Locked_Never == FALSE

\* The advisory lock of the job: an append about it holds it until it ends.
Locked == \E t \in open : t.row.job

usedGenerations == {row.key : row \in rows}

\* The keys whose pseudonyms of a job are looked for.  A generation without a
\* secret is passed over; no generations means that they are not known.
candidates(g, generations) ==
    LET used == IF generations = {} THEN g.known ELSE generations
    IN  (used \cup {g.active}) \cap g.known

LogInit ==
    /\ privacy = FALSE /\ mark = FALSE /\ seq = 0 /\ rows = {} /\ open = {}
    /\ proc = [r \in Replicas |-> [at |-> "down", ring |-> NoRing, boots |-> 0]]
    /\ erasing = Idle /\ scan = NoScan

-----------------------------------------------------------------------------
(* Starting and stopping a replica. *)

\* The operator switches the privacy mode while nothing runs.
SwitchPrivacy ==
    /\ Up = {}
    /\ privacy' = ~ privacy
    /\ UNCHANGED <<proc, mark, seq, rows, open, erasing, scan>>

\* A rotation by rolling restart: every two replicas that run together know
\* the key the other one writes with.
Compatible(g, h) == g.active \in h.known /\ h.active \in g.known

Boot(r, g) ==
    /\ proc[r].at = "down" /\ proc[r].boots < MaxBoots
    /\ \A s \in Up : Compatible(g, proc[s].ring)
    /\ proc' = [proc EXCEPT ![r] = [at |-> "checking", ring |-> g, boots |-> proc[r].boots + 1]]
    /\ UNCHANGED <<privacy, mark, seq, rows, open, erasing, scan>>

\* mutant: the start does not look for orphans
Orphans_Ignored(g) == {}

\* patikrintiNasliaites(): a row whose key the replica does not have.
Orphans(g) == usedGenerations \ g.known

\* patikrintiRaktuKieki(): too many old keys, of which one has no row any more.
TooManyKeys(g, used) ==
    LET historical == g.known \ {g.active}
    IN  Cardinality(historical) > SoftLimit /\ historical \ used # {}

\* Under the privacy mode the number of keys is judged before the rows that
\* justify it are gone, and no orphan is left afterwards.
Checked(g) ==
    IF TooManyKeys(g, usedGenerations) THEN "down"
    ELSE IF privacy THEN "purging"
    ELSE IF Orphans(g) # {} THEN "down" ELSE "serving"

CheckKeys(r) ==
    /\ proc[r].at = "checking"
    /\ proc' = [proc EXCEPT ![r].at = Checked(proc[r].ring)]
    /\ UNCHANGED <<privacy, mark, seq, rows, open, erasing, scan>>

\* The purge is over when a batch finds nothing.
PurgedAll(removed) == removed = {}

PurgeForPrivacy(r) ==
    /\ proc[r].at = "purging"
    /\ \E removed \in SUBSET rows :
          /\ Cardinality(removed) <= Batch /\ (removed = {} => rows = {})
          /\ rows' = rows \ removed
          /\ proc' = [proc EXCEPT ![r].at = IF PurgedAll(removed) THEN "serving" ELSE "purging"]
    /\ UNCHANGED <<privacy, mark, seq, open, erasing, scan>>

\* A replica stops or dies: the database rolls its transactions back.
Stop(r) ==
    /\ proc[r].at # "down"
    /\ proc' = [proc EXCEPT ![r].at = "down", ![r].ring = NoRing]
    /\ open' = {t \in open : t.on # r}
    /\ erasing' = IF erasing.on = r THEN Idle ELSE erasing
    /\ UNCHANGED <<privacy, mark, seq, rows, scan>>

-----------------------------------------------------------------------------
(* Appending. *)

\* Whether the append of a row about the job has to wait or is refused: the
\* transaction takes the lock of the job and then reads its mark.
Barred(job) == job /\ (Locked \/ mark)

\* The number is drawn when the row is inserted, long before it is visible.
Insert(r, job) ==
    /\ r \in Serving /\ ~ privacy
    /\ ~ Barred(job) /\ seq < MaxSeq
    /\ seq' = seq + 1
    /\ open' = open \cup {[on |-> r, row |-> [seq |-> seq', key |-> proc[r].ring.active, job |-> job]]}
    /\ UNCHANGED <<privacy, proc, mark, rows, erasing, scan>>

Commit(t) ==
    /\ rows' = rows \cup {t.row}
    /\ open' = open \ {t}
    /\ UNCHANGED <<privacy, proc, mark, seq, erasing, scan>>

Rollback(t) ==
    /\ open' = open \ {t}
    /\ UNCHANGED <<privacy, proc, mark, seq, rows, erasing, scan>>

-----------------------------------------------------------------------------
(* Erasing the rows of the job, and purging old ones. *)

\* mark() takes the lock of the job as well.
MarkJob ==
    /\ Serving # {} /\ ~ mark /\ ~ Locked
    /\ mark' = TRUE
    /\ UNCHANGED <<privacy, proc, seq, rows, open, erasing, scan>>

EraseList(r) ==
    /\ mark /\ erasing.at = "idle" /\ r \in Serving
    /\ erasing' = [at |-> "listed", on |-> r, keys |-> usedGenerations]
    /\ UNCHANGED <<privacy, proc, mark, seq, rows, open, scan>>

OfJob(g, generations) == {row \in rows : row.job /\ row.key \in candidates(g, generations)}

EraseRows ==
    /\ erasing.at = "listed"
    /\ rows' = rows \ OfJob(proc[erasing.on].ring, erasing.keys)
    /\ erasing' = [Idle EXCEPT !.at = "done"]
    /\ UNCHANGED <<privacy, proc, mark, seq, open, scan>>

\* One statement of the retention sweep; it passes over rows locked by another.
PurgeExpired ==
    /\ Serving # {}
    /\ \E expired \in SUBSET rows \ {{}} :
          Cardinality(expired) <= Batch /\ rows' = rows \ expired
    /\ UNCHANGED <<privacy, proc, mark, seq, open, erasing, scan>>

-----------------------------------------------------------------------------
(* Reading page by page, newest first. *)

Matching(job, g) == IF job THEN OfJob(g, usedGenerations) ELSE rows

ScanBegin(job) ==
    /\ scan.at = "idle" /\ Serving # {} /\ ~ privacy
    /\ scan' = [NoScan EXCEPT !.at = "reading", !.job = job, !.owed = {row \in rows : job => row.job}]
    /\ UNCHANGED <<privacy, proc, mark, seq, rows, open, erasing>>

\* mutant: the row the cursor names comes again
Below_Again(rest, after) == {row \in rest : after = 0 \/ row.seq <= after}

\* What is left below the cursor; 0 is no cursor.
Below(rest, after) == {row \in rest : after = 0 \/ row.seq < after}

\* The first rows of a list that is sorted by falling number.
IsTop(page, rest) ==
    /\ page \subseteq rest
    /\ \A row \in page, other \in rest \ page : other.seq < row.seq
    /\ IF Cardinality(rest) <= Limit THEN page = rest ELSE Cardinality(page) = Limit

Answered(page, at, after, key) ==
    scan' = [scan EXCEPT !.owed = @ \ page, !.got = @ \cup {row.seq : row \in page},
                         !.twice = @ \/ \E row \in page : row.seq \in scan.got,
                         !.at = at, !.after = after, !.key = key]

\* The answer of a page; the row fetched beyond it says whether there is more,
\* and the cursor for more is the last row and carries the active key.
Page(r, page, rest) ==
    /\ IsTop(page, rest)
    /\ \/ page = rest /\ Answered(page, "done", 0, NoKey)
       \/ \E last \in page :
             /\ page # rest /\ \A row \in page : last.seq <= row.seq
             /\ Answered(page, "reading", last.seq, proc[r].ring.active)

CursorRefused(r) == scan.after # 0 /\ proc[r].ring.active # scan.key

ScanPage(r) ==
    /\ scan.at = "reading" /\ r \in Serving
    /\ \/ privacy /\ scan' = [scan EXCEPT !.at = "done", !.got = {}, !.after = 0, !.key = NoKey]
       \/ ~ privacy /\ CursorRefused(r) /\ scan' = [NoScan EXCEPT !.at = "refused"]
       \/ /\ ~ privacy /\ ~ CursorRefused(r)
          /\ LET rest == Below(Matching(scan.job, proc[r].ring), scan.after)
             IN  \E page \in SUBSET rest : Page(r, page, rest)
    /\ UNCHANGED <<privacy, proc, mark, seq, rows, open, erasing>>

-----------------------------------------------------------------------------
LogNext ==
    \/ SwitchPrivacy
    \/ \E r \in Replicas : CheckKeys(r) \/ PurgeForPrivacy(r) \/ Stop(r) \/ EraseList(r) \/ ScanPage(r)
    \/ \E r \in Replicas, g \in Ring : Boot(r, g)
    \/ \E r \in Replicas, job \in BOOLEAN : Insert(r, job)
    \/ \E t \in open : Commit(t) \/ Rollback(t)
    \/ MarkJob \/ EraseRows \/ PurgeExpired
    \/ \E job \in BOOLEAN : ScanBegin(job)

LogSpec == LogInit /\ [][LogNext]_logVars

-----------------------------------------------------------------------------
(* Properties. *)

\* Once the erasure has removed the rows of the job, the log has no row about
\* it and never gets one again: neither an append that was under way nor a row
\* under an older or a newer key stays behind (removeBySubjectIdentifier()
\* beside append() at other replicas, through rotations of the key).
ErasedLeavesNoRow == erasing.at = "done" => \A row \in rows : ~ row.job

\* Every replica that serves has the key of every row, so that whichever of
\* them erases or looks for a job reaches all of its rows; a start that would
\* break this is refused (patikrintiNasliaites()).
RowsReachable == \A r \in Serving : usedGenerations \subseteq proc[r].ring.known

\* A reader who reached the last page has seen every row that was there when
\* he began and is still there, and none twice, although rows are inserted out
\* of order, purged and erased meanwhile and the replicas that answer him
\* differ (queryPage()).
ScanIsExact ==
    /\ ~ scan.twice
    /\ scan.at = "done" => scan.owed \cap rows = {}

\* While a replica serves in privacy mode the log is empty: rows of earlier
\* runs are gone before it serves, and none comes (purgeAllForPrivacy()).
PrivacyMeansEmpty == privacy /\ Serving # {} => rows = {}
=============================================================================
