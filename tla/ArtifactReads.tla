---------------------------- MODULE ArtifactReads -----------------------------
(***************************************************************************)
(* What is known of a result that lies outside the database: the boundary  *)
(* every artifact store puts values through (validation.js), the checks of *)
(* an object against its row (verify of the fs and s3 stores, the inline   *)
(* store's), the bounded read that gives a job its result back, and what a *)
(* start and a check after a restore conclude from them.                   *)
(*                                                                         *)
(* These are decisions over what was found: the row, what head() said and  *)
(* what the stream then gave, which need not be the same object.  The      *)
(* steps in which objects appear and go away are in FsStore, ResultAttempts*)
(* and ArtifactMigration.                                                  *)
(*                                                                         *)
(* SHA-256 is ideal: a sum stands for the content it was taken of.         *)
(***************************************************************************)
EXTENDS Integers, Sequences, FiniteSets

CONSTANTS
    Contents,   \* what the bytes of an object can be
    Size,       \* their number
    Values,     \* JSON values a store may hold
    Canonical,  \* the canonical form of a value, as bytes
    Parsed,     \* contents that are strict UTF-8 and JSON, and the value they parse to
    Backends,   \* storage types: "inline", "fs", "s3"
    MaxSafe,    \* Number.MAX_SAFE_INTEGER
    Nothing     \* null

-----------------------------------------------------------------------------
(* The boundary. *)

MAX_RAKTO_ILGIS == 512

MAX_SEGMENTO_BAITAI == 255

\* A key by its length and its segments.
Key == [length : Nat, segments : Seq([bytes : Nat, allowed : BOOLEAN])]

patikrintiRakta(key) ==
    /\ key.length \in 1 .. MAX_RAKTO_ILGIS
    /\ \A i \in DOMAIN key.segments :
         key.segments[i].bytes <= MAX_SEGMENTO_BAITAI /\ key.segments[i].allowed

\* A value as it comes from the program, before it is known to be JSON: what of
\* it the stores tell apart.  "stable" is false when two serialisations differ.
Raw == [is : {"absent", "not_finite", "unserialisable", "json"},
        nul : BOOLEAN, lone : BOOLEAN, stable : BOOLEAN]

patikrintiSriti(raw) == raw.is = "json" /\ ~raw.nul /\ raw.stable /\ ~raw.lone

sha256(content) == [sum |-> content]

\* The receipt of a put: one serialisation, and the store writes these bytes.
paruostiReiksme(v) ==
    [buferis |-> Canonical[v], bytes |-> Size[Canonical[v]], checksum |-> sha256(Canonical[v])]

\* Bytes back into a value; a parsed value is checked against the domain too.
Readable(content) == content \in DOMAIN Parsed /\ Parsed[content] \in Values

atkurtiReiksme(content) == Parsed[content]

-----------------------------------------------------------------------------
(* What a row says of its object. *)

\* A size as the driver may hand it over: a number, the digits of a bigint
\* column, digits with blanks around them, anything else.
RawBytes == {Nothing} \cup [form : {"number", "digits", "padded"}, n : Int]
                     \cup [form : {"fraction", "other"}]

\* A sum: in the form the column demands, one that only trimming and lower
\* case would make such, anything else.
RawChecksum == {Nothing} \cup [form : {"hex", "loose"}, of : Contents] \cup [form : {"other"}]

Expected == [bytes : RawBytes, checksum : RawChecksum]

\* What of the encoding is relied on: a canonical form parses to its value.
ContentsAssumption ==
    /\ Size \in [Contents -> Nat]
    /\ Canonical \in [Values -> Contents]
    /\ DOMAIN Parsed \subseteq Contents
    /\ \A v \in Values : Size[Canonical[v]] > 0
    /\ \A v \in Values : Canonical[v] \in DOMAIN Parsed /\ Parsed[Canonical[v]] = v
    /\ "inline" \in Backends
    /\ Nothing \notin Contents \cup Values \cup Backends \cup Int
    /\ \A n \in Nat : Nothing # [form |-> "number", n |-> n]
    /\ \A c \in Contents : Nothing # [form |-> "hex", of |-> c] /\ Nothing # sha256(c)

\* normalizuotiLaukima(): as lenient as can be.
normalizedBytes(raw) ==
    IF raw # Nothing /\ raw.form \in {"number", "digits", "padded"} THEN raw.n ELSE Nothing

normalizedChecksum(raw) ==
    IF raw # Nothing /\ raw.form \in {"hex", "loose"} THEN sha256(raw.of) ELSE Nothing

BadBytes(raw) ==
    /\ raw # Nothing
    /\ \/ raw.form \in {"padded", "fraction", "other"}
       \/ raw.n \notin 1 .. MaxSafe

BadChecksum(raw) == raw # Nothing /\ raw.form # "hex"

\* Invalid metadata outrank a size over the limit.
ivertintiLaukimoBaitus(expected, limit) ==
    LET invalid == BadBytes(expected.bytes) \/ BadChecksum(expected.checksum)
        bytes == normalizedBytes(expected.bytes)
    IN [bytes |-> bytes,
        priezastis |-> IF invalid THEN "metaduomenys_nevalidus"
                       ELSE IF bytes # Nothing /\ bytes > limit THEN "virsija_dabartine_riba"
                       ELSE Nothing]

tinka(known) == known.priezastis = Nothing /\ known.bytes # Nothing

-----------------------------------------------------------------------------
(* Verdicts on an object. *)

Verdict(ok, exists, bytes, sum, independent, reason) ==
    [ok |-> ok, exists |-> exists, bytes |-> bytes, checksum |-> sum,
     nepriklausomas |-> independent, priezastis |-> reason]

nesancioVerdiktas(independent) == Verdict(FALSE, FALSE, Nothing, Nothing, independent, Nothing)

neverifikuojamasVerdiktas(independent, reason) ==
    Verdict(FALSE, TRUE, Nothing, Nothing, independent, reason)

vientisumoVerdiktas(expected, bytes, sum, independent) ==
    Verdict(/\ normalizedBytes(expected.bytes) = bytes
            /\ normalizedChecksum(expected.checksum) = sum,
            TRUE, bytes, sum, independent, Nothing)

\* The second half of verify(): the read stops at the first byte past "size".
verifyStream(expected, size, stream) ==
    IF stream = Nothing THEN nesancioVerdiktas(TRUE)
    ELSE IF Size[stream] > size THEN neverifikuojamasVerdiktas(TRUE, "saugykla_neatitinka_head")
    ELSE vientisumoVerdiktas(expected, Size[stream], sha256(stream), TRUE)

\* verify() of a store outside the database, alike in the two.  "size" is what
\* head() said, or Nothing; "stream" what was read after it, or Nothing when it
\* was gone by then.
verify(expected, limit, size, stream) ==
    LET known == ivertintiLaukimoBaitus(expected, limit) IN
    IF size = Nothing THEN nesancioVerdiktas(TRUE)
    ELSE IF known.priezastis # Nothing THEN neverifikuojamasVerdiktas(TRUE, known.priezastis)
    ELSE IF size > limit THEN neverifikuojamasVerdiktas(TRUE, "virsija_dabartine_riba")
    ELSE IF tinka(known) /\ size # known.bytes THEN vientisumoVerdiktas(expected, size, Nothing, TRUE)
    ELSE verifyStream(expected, size, stream)

\* A bucket that never kept versions answers without a status; in any other a
\* delete would leave the version before it.
patikrintiVersijavima(answer) == ~answer.empty /\ answer.status = Nothing

\* Puts and reads ask once for the life of the process, "checked" then says so;
\* every delete asks again.
s3Passes(key, checked, answer) == patikrintiRakta(key) /\ (checked \/ patikrintiVersijavima(answer))

s3DeletePasses(key, answer) == patikrintiRakta(key) /\ patikrintiVersijavima(answer)

\* What a head answers: no object, or its length; a length that is no number
\* of bytes is an error of the provider, never a missing object.
s3HeadPasses(missing, length) == missing \/ length \in Nat

s3Head(missing, length) == IF missing THEN Nothing ELSE length

\* The inline store compares a value with what it computes from that value.
inlineVerify(expected, v) ==
    LET prepared == paruostiReiksme(v)
    IN vientisumoVerdiktas(expected, prepared.bytes, prepared.checksum, FALSE)

-----------------------------------------------------------------------------
(* Reading a result back into its job. *)

Row == [storage_type : Backends \cup {Nothing}, payload : Values \cup {Nothing},
        bytes : Nat, checksum : RawChecksum]

External(row) == row.storage_type \notin {Nothing, "inline"}

Failed == [ok |-> FALSE, reiksme |-> Nothing]

\* The bytes are counted as they come; no more of them than the smaller of the
\* two bounds is kept.
skaitytiRibotai(maxBaitai, deklaruoti, stream) ==
    IF /\ stream # Nothing
       /\ Size[stream] <= maxBaitai
       /\ deklaruoti # Nothing => Size[stream] = deklaruoti
       /\ Readable(stream)
    THEN [ok |-> TRUE, reiksme |-> atkurtiReiksme(stream)]
    ELSE Failed

\* The sum is not compared here.
hidratuotiRezultata(row, registered, limit, stream) ==
    IF ~External(row) THEN [ok |-> TRUE, reiksme |-> row.payload]
    ELSE IF row.storage_type \notin registered \/ row.bytes > limit THEN Failed
    ELSE skaitytiRibotai(limit, row.bytes, stream)

-----------------------------------------------------------------------------
(* Which stores a process has, and whether it may start. *)

\* ARTIFACT_STORE_BACKEND, and the backends all variables of which are set.
Configuration == [backend : STRING \cup {Nothing}, complete : SUBSET Backends]

ConfigurationValid(env) ==
    env.backend # Nothing => env.backend \in Backends /\ env.backend \in env.complete \cup {"inline"}

parinktiBackenda(env) == IF env.backend = Nothing THEN "inline" ELSE env.backend

\* A process has the store it writes to, and no other.
paruostiKonfiguruotaSaugykla(env) ==
    IF parinktiBackenda(env) = "inline" THEN {} ELSE {parinktiBackenda(env)}

\* The types the rows and the attempts of the database name.
nustatytiReikalingusTipus(rows, attempts) ==
    {row.storage_type : row \in {r \in rows : External(r)}} \cup attempts

\* Types without a store; what is stored inline needs none.
truksta(registered, required) == {t \in required : t # "inline" /\ t \notin registered}

\* A database that could not be asked stops nothing.
arStabdytiStarta(registered, required, unknown) ==
    ~unknown /\ truksta(registered, required) # {}

-----------------------------------------------------------------------------
(* The check after a restore. *)

\* "found" is what the store gave for the key of the row, unless it failed.
patikrintiEilute(row, registered, limit, found) ==
    LET expected == [bytes |-> [form |-> "number", n |-> row.bytes], checksum |-> row.checksum]
        verdict == verify(expected, limit, found.size, found.stream)
    IN IF ~External(row) THEN "nepatikrinama_inline"
       ELSE IF row.storage_type \notin registered THEN "saugykla_neregistruota"
       ELSE IF found.failed \/ ~verdict.exists THEN "nerasta"
       ELSE IF ~verdict.nepriklausomas THEN "nepriklausomumo_neteko"
       ELSE IF ~verdict.ok THEN "nesutampa"
       ELSE "patikrinta"

NESEKMES == {"nerasta", "nesutampa", "saugykla_neregistruota", "nepriklausomumo_neteko"}

\* Over the verdicts on all rows, page by page.
sudarytiAtaskaita(verdicts) ==
    LET Count(v) == Cardinality({i \in DOMAIN verdicts : verdicts[i] = v})
    IN [eiluciuIsViso |-> Len(verdicts),
        nepriklausomaiPatikrinta |-> Count("patikrinta"),
        nepatikrinama |-> Count("nepatikrinama_inline"),
        ok |-> \A i \in DOMAIN verdicts : verdicts[i] \notin NESEKMES]
=============================================================================
