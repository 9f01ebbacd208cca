---------------------------- MODULE ProviderPrivacy ----------------------------
(***************************************************************************)
(* What leaves the machine: which providers of transcription, diarization  *)
(* and protocols are external (providerPrivacy.js), which of them may be   *)
(* used (providerGovernance.js), what the privacy configuration refuses at *)
(* start (privacyConfig.js) and what is asked again when a request names a *)
(* provider of its own (providers/*/index.js), what redaction makes of the *)
(* text that is sent and of a protocol that is exported                    *)
(* (redactedArtefact.js, RedactingLLMProvider.js, exportService.js).       *)
(* There is no state: the policy a process froze at its start is a         *)
(* parameter, the environment it reads later another one.                  *)
(***************************************************************************)
EXTENDS Integers, Sequences

CONSTANTS
    Names,         \* names of providers as variables and requests spell them
    Lower,         \* toLowerCase() of a name
    NotGiven,      \* a variable or an override that is absent or empty
    Inherited,     \* names every object has: "constructor", "toString"
    Payloads,      \* texts: prompts, and the texts of a protocol
    EmptyPayload,  \* ""
    Blanks,        \* texts that are empty once trimmed
    NotText,       \* a result of redact() that is no text
    Threw          \* an exception in the place of a result

-----------------------------------------------------------------------------
(* The matrix, and the governance table beside it. *)

ProviderKinds == {"transcription", "diarization", "llm"}

LocalEntry == [processing |-> "local", dataSent |-> "none"]
ExternalEntry(dataSent) == [processing |-> "external", dataSent |-> dataSent]
NoEntry == [processing |-> "unknown", dataSent |-> "unknown"]

TRANSCRIPTION ==
    [n \in {"mock", "faster-whisper-embedded", "faster-whisper-server", "faster-whisper",
            "whisper", "azure", "google", "deepgram"} |->
        IF n \in {"whisper", "azure", "google", "deepgram"} THEN ExternalEntry("audio")
        ELSE LocalEntry]

\* "inline" sends nothing of its own: the provider of transcription diarizes.
DIARIZATION ==
    [n \in {"none", "inline", "mock", "pyannote", "pyannote-cloud", "assemblyai"} |->
        IF n \in {"pyannote-cloud", "assemblyai"} THEN ExternalEntry("audio")
        ELSE IF n = "inline" THEN [processing |-> "depends", dataSent |-> "none"]
        ELSE LocalEntry]

LLM ==
    [n \in {"mock", "claude", "gpt", "gemini"} |->
        IF n = "mock" THEN LocalEntry ELSE ExternalEntry("transcript")]

MATRIX(kind) ==
    IF kind = "transcription" THEN TRANSCRIPTION
    ELSE IF kind = "diarization" THEN DIARIZATION ELSE LLM

lookup(kind, name) == IF name \in DOMAIN MATRIX(kind) THEN MATRIX(kind)[name] ELSE NoEntry

\* An unknown provider is taken to be external.
isExternal(kind, name) == lookup(kind, name).processing \in {"external", "unknown"}

GOVERNANCE(kind) ==
    IF kind = "transcription" THEN
        [not_required |-> {"mock", "faster-whisper-embedded", "faster-whisper-server",
                           "faster-whisper"},
         required |-> {"whisper", "azure", "google", "deepgram"}]
    ELSE IF kind = "diarization" THEN
        [not_required |-> {"none", "inline", "mock", "pyannote"},
         required |-> {"pyannote-cloud", "assemblyai"}]
    ELSE [not_required |-> {"mock"}, required |-> {"claude", "gpt", "gemini"}]

\* APPROVED_EXTERNAL_PROVIDERS is the set of the names between its commas.
approvedExternalProviders(env) == {Lower[n] : n \in env.APPROVED_EXTERNAL_PROVIDERS}

isProviderAllowed(kind, name, approved) ==
    \/ name \in GOVERNANCE(kind).not_required
    \/ name \in GOVERNANCE(kind).required /\ name \in approved

-----------------------------------------------------------------------------
(* The privacy configuration. *)

ProviderOf(kind, env) ==
    IF kind = "transcription" THEN env.TRANSCRIPTION_PROVIDER
    ELSE IF kind = "diarization" THEN env.DIARIZATION_PROVIDER ELSE env.LLM_PROVIDER

Standard(kind) == IF kind = "diarization" THEN "none" ELSE "mock"

\* The name that counts: that of the request if there is one, else the configured one.
NameFor(kind, override, env) ==
    IF override # NotGiven THEN Lower[override]
    ELSE IF ProviderOf(kind, env) # NotGiven THEN Lower[ProviderOf(kind, env)]
    ELSE Standard(kind)

Selected(kind, env) == NameFor(kind, NotGiven, env)

describeSelection(env) == {kind \in ProviderKinds : isExternal(kind, Selected(kind, env))}

BOOLEAN_SETTINGS ==
    {"PRIVACY_MODE", "ALLOW_EXTERNAL_PROVIDERS", "PERSISTENT_STORAGE",
     "REQUIRE_REDACTION_BEFORE_EXTERNAL", "EXPORT_ALLOW_ORIGINAL"}

\* The bounds of the numeric settings.
NUMERIC_SETTINGS ==
    [AUDIT_RETENTION_DAYS |-> 1 .. 365, AUDIT_MAX_ENTRIES |-> 1 .. 1000000,
     JOB_TTL_MINUTES |-> 1 .. 525600, AUDIO_RETENTION_HOURS |-> 1 .. 8760,
     RETENTION_SWEEP_INTERVAL_MINUTES |-> 1 .. 10080,
     DELETION_RETRY_INTERVAL_MINUTES |-> 1 .. 10080]

\* A boolean setting is "unset", "true", "false" or "other", in any case; a numeric one
\* has a form, "unset", "whole", "fraction" or "text", and a value, rounded down.
bool(value, fallback) == IF value = "unset" THEN fallback ELSE value = "true"

int(setting, fallback) ==
    IF \/ setting.form = "whole" /\ setting.value > 0
       \/ setting.form = "fraction" /\ setting.value >= 0
    THEN setting.value ELSE fallback

EPHEMERAL_AUDIO_MAX_HOURS == 1

\* persistentBackend: what the selection of the job store says of env (StartUp).
getPrivacyConfig(env) ==
    LET explicit == env.PERSISTENT_STORAGE # "unset"
        persistent == IF explicit THEN bool(env.PERSISTENT_STORAGE, FALSE)
                      ELSE env.persistentBackend
        hours == int(env.AUDIO_RETENTION_HOURS, 24)
    IN [profile |-> env.PRIVACY_PROFILE,
        persistentExplicit |-> explicit,
        persistentStorage |-> persistent,
        allowExternalProviders |->
            env.PRIVACY_PROFILE # "local_only" /\ bool(env.ALLOW_EXTERNAL_PROVIDERS, TRUE),
        requireRedactionBeforeExternal |-> bool(env.REQUIRE_REDACTION_BEFORE_EXTERNAL, FALSE),
        exportAllowOriginal |-> bool(env.EXPORT_ALLOW_ORIGINAL, TRUE),
        auditEnabled |-> ~ bool(env.PRIVACY_MODE, FALSE),
        auditRetentionDays |-> int(env.AUDIT_RETENTION_DAYS, 30),
        jobRetentionMinutes |-> int(env.JOB_TTL_MINUTES, 60),
        audioRetentionHours |->
            IF explicit /\ ~ persistent /\ hours > EPHEMERAL_AUDIO_MAX_HOURS
            THEN EPHEMERAL_AUDIO_MAX_HOURS ELSE hours,
        audioRetentionHoursConfigured |-> hours,
        retentionSweepMinutes |-> int(env.RETENTION_SWEEP_INTERVAL_MINUTES, 5)]

\* What is asked of a provider that would get the recording itself.
isRawAudioProviderForbidden(kind, name, policy) ==
    /\ policy.requireRedactionBeforeExternal
    /\ ~ (kind = "diarization" /\ name \in {"none", "inline"})
    /\ isExternal(kind, name)

\* mod: the module of redaction as it loads: missing, load_error, invalid_contract or ok.
probeRedactionComponent(mod) == mod.state

FormatErrors(env) ==
    \/ \E key \in DOMAIN NUMERIC_SETTINGS :
          \/ env[key].form \in {"fraction", "text"}
          \/ env[key].form = "whole" /\ env[key].value \notin NUMERIC_SETTINGS[key]
    \/ \E key \in BOOLEAN_SETTINGS : env[key] = "other"

PersistenceErrors(env, config) ==
    /\ config.persistentExplicit
    /\ \/ ~ config.persistentStorage /\ (env.persistentBackend \/ env.REDIS_REQUIRED = "true")
       \/ config.persistentStorage /\ ~ env.persistentBackend

\* A category of personal data nobody knows stops the start as well.
RedactionErrors(env, config, mod) ==
    \/ /\ config.requireRedactionBeforeExternal
       /\ \/ probeRedactionComponent(mod) # "ok"
          \/ \E kind \in {"transcription", "diarization"} :
                isRawAudioProviderForbidden(kind, Selected(kind, env), config)
    \/ env.PII_CATEGORIES = "unknown"
    \/ ~ config.exportAllowOriginal /\ probeRedactionComponent(mod) # "ok"

\* validatePrivacyConfig() finds no error, and initPrivacyPolicy() freezes the policy.
validatePrivacyConfig(env, mod) ==
    LET config == getPrivacyConfig(env)
    IN /\ ~ FormatErrors(env)
       /\ config.profile \in {"standard", "local_only"}
       /\ ~ PersistenceErrors(env, config)
       /\ ~ (~ config.allowExternalProviders /\ describeSelection(env) # {})
       /\ ~ RedactionErrors(env, config, mod)

\* The kinds of provider the warnings of the start name, and what they say is sent.
ExternalWarnings(env) ==
    IF getPrivacyConfig(env).allowExternalProviders
    THEN {[kind |-> k, dataSent |-> lookup(k, Selected(k, env)).dataSent] :
              k \in describeSelection(env)}
    ELSE {}

-----------------------------------------------------------------------------
(* The factories, and the services that call them. *)

REGISTRY(kind) ==
    IF kind = "transcription" THEN
        {"mock", "whisper", "faster-whisper", "faster-whisper-server", "faster-whisper-embedded",
         "azure", "google", "deepgram"}
    ELSE IF kind = "diarization" THEN {"mock", "pyannote", "pyannote-cloud", "assemblyai"}
    ELSE {"claude", "gpt", "gemini", "mock"}

SPECIAL_MODES == {"none", "inline"}

assertProviderAllowed(kind, name, env) ==
    isProviderAllowed(kind, name, approvedExternalProviders(env))

\* name is built by getTranscriptionProvider(), or by getDiarizationProvider() when it is
\* no special mode.
Builds(kind, name, env, policy) ==
    /\ ~ isRawAudioProviderForbidden(kind, name, policy)
    /\ name \in REGISTRY(kind)
    /\ assertProviderAllowed(kind, name, env)

isKnownDiarizationMode(override) == Lower[override] \in SPECIAL_MODES \cup REGISTRY("diarization")

\* transcribeAudio(): the request names its providers only where that is allowed.
AdmitsOverrides(request, env) ==
    /\ env.ALLOW_PROVIDER_OVERRIDE \/ {request.transcription, request.diarization} = {NotGiven}
    /\ request.transcription = NotGiven
         \/ request.transcription \in REGISTRY("transcription") \cup Inherited
    /\ request.diarization = NotGiven \/ isKnownDiarizationMode(request.diarization)

\* The providers that are handed the recording: the second one only if the first is built.
transcribeAudio(request, env, policy) ==
    LET transcriber == NameFor("transcription", request.transcription, env)
        mode == NameFor("diarization", request.diarization, env)
    IN IF ~ (AdmitsOverrides(request, env) /\ Builds("transcription", transcriber, env, policy))
       THEN {}
       ELSE {[kind |-> "transcription", name |-> transcriber]}
            \cup (IF /\ request.diarize
                     /\ mode \notin SPECIAL_MODES
                     /\ Builds("diarization", mode, env, policy)
                  THEN {[kind |-> "diarization", name |-> mode]} ELSE {})

enforceRedaction(name, policy) ==
    policy.requireRedactionBeforeExternal /\ isExternal("llm", name)

\* The name of the provider of protocols, or NotGiven when none is built.
getLLMProvider(override, env, policy, mod) ==
    LET name == NameFor("llm", override, env)
    IN IF /\ env.ALLOW_PROVIDER_OVERRIDE \/ override = NotGiven
          /\ override = NotGiven \/ override \in REGISTRY("llm")
          /\ name \in REGISTRY("llm")
          /\ assertProviderAllowed("llm", name, env)
          /\ enforceRedaction(name, policy) => probeRedactionComponent(mod) = "ok"
       THEN name ELSE NotGiven

-----------------------------------------------------------------------------
(* Artefacts. *)

REQUESTABLE_VARIANTS == {"original", "redacted"}

\* data is a function from the places of a structured value to what is there.
createOriginalArtefact(text, data) ==
    [variant |-> "original", redactionStatus |-> "not_required", policyVersion |-> NotGiven,
     text |-> text, data |-> data]

\* mod.detailed: redactDetailed() answers, whose text is taken as it is; else redact().
applyText(mod, text) ==
    IF mod.detailed = "no" /\ mod.redact[text] = NotText THEN Threw ELSE mod.redact[text]

applyData(mod, data) ==
    [place \in DOMAIN data |->
        IF data[place] \in Payloads THEN applyText(mod, data[place]) ELSE data[place]]

RedactionFails(source, mod) ==
    \/ source.variant # "original"
    \/ applyText(mod, source.text) = Threw
    \/ \E place \in DOMAIN source.data : applyData(mod, source.data)[place] = Threw

createRedactedArtefact(source, mod) ==
    [variant |-> "redacted", redactionStatus |-> "redacted",
     policyVersion |-> IF mod.policyVersion # NotGiven THEN mod.policyVersion ELSE "custom",
     text |-> applyText(mod, source.text), data |-> applyData(mod, source.data)]

assertRedacted(artefact) ==
    /\ artefact.variant = "redacted"
    /\ artefact.redactionStatus = "redacted"
    /\ artefact.policyVersion # NotGiven

NoData == [place \in {} |-> EmptyPayload]

\* The text that is sent in the place of payload, or Threw.
applyRedaction(mod, payload) ==
    LET original == createOriginalArtefact(payload, NoData)
        redacted == createRedactedArtefact(original, mod)
    IN IF /\ ~ RedactionFails(original, mod)
          /\ assertRedacted(redacted)
          /\ redacted.text \in Payloads \ Blanks
       THEN redacted.text ELSE Threw

-----------------------------------------------------------------------------
(* A protocol is generated and exported. *)

\* What the vendor gets for a payload.
Sent(name, payload, policy, mod) ==
    IF enforceRedaction(name, policy) THEN applyRedaction(mod, payload) ELSE payload

\* The prompt, then the prompt of a repair when the answer does not parse.
generateProtocol(name, prompt, repair, policy, mod) ==
    LET first == Sent(name, prompt, policy, mod)
    IN IF name = NotGiven \/ first = Threw THEN {}
       ELSE {first} \cup (IF repair = NotGiven THEN {}
                          ELSE {Sent(name, repair, policy, mod)} \ {Threw})

\* A redaction the wrapper tells of; the text itself is not kept, of is what it was made from.
toAuditRecord(purpose, payload, mod) ==
    [purpose |-> purpose, of |-> payload, outcome |-> "sent",
     policyVersion |-> createRedactedArtefact(createOriginalArtefact(payload, NoData), mod).policyVersion]

redactionAudits(name, prompt, repair, policy, mod) ==
    IF ~ enforceRedaction(name, policy) \/ applyRedaction(mod, prompt) = Threw THEN << >>
    ELSE IF repair = NotGiven \/ applyRedaction(mod, repair) = Threw
    THEN <<toAuditRecord("source_transcript", prompt, mod)>>
    ELSE <<toAuditRecord("source_transcript", prompt, mod), toAuditRecord("repair_prompt", repair, mod)>>

\* A text for the vendor could not be redacted.
RedactionFailed(name, prompt, repair, policy, mod) ==
    /\ enforceRedaction(name, policy)
    /\ \/ applyRedaction(mod, prompt) = Threw
       \/ repair # NotGiven /\ applyRedaction(mod, repair) = Threw

\* What the answer and the audit say of redaction: that of the prompt, whatever came later;
\* after a failure the version of the last one that worked.
redactionMeta(name, prompt, repair, policy, mod) ==
    LET audits == redactionAudits(name, prompt, repair, policy, mod)
    IN IF RedactionFailed(name, prompt, repair, policy, mod)
       THEN [outcome |-> "blocked",
             policyVersion |-> IF audits = << >> THEN NotGiven
                               ELSE audits[Len(audits)].policyVersion]
       ELSE IF audits = << >> THEN [outcome |-> "none", policyVersion |-> NotGiven]
       ELSE CHOOSE a \in {audits[i] : i \in DOMAIN audits} : a.purpose = "source_transcript"

\* What GET /api/health says of redaction and of the providers.
describeForDiagnostics(env, mod) ==
    LET config == getPrivacyConfig(env)
    IN [externalProviders |-> describeSelection(env),
        persistentStorage |-> config.persistentStorage,
        configuredForEnforcement |->
            /\ config.requireRedactionBeforeExternal
            /\ probeRedactionComponent(mod) = "ok"
            /\ isExternal("llm", Selected("llm", env))]

\* Where _enforceExportPolicy() refuses the request.
ExportFails(protocol, variant, policy, mod) ==
    \/ variant \notin REQUESTABLE_VARIANTS
    \/ variant = "original" /\ ~ policy.exportAllowOriginal
    \/ /\ variant = "redacted"
       /\ \/ probeRedactionComponent(mod) # "ok"
          \/ RedactionFails(createOriginalArtefact(EmptyPayload, protocol), mod)
          \/ ~ assertRedacted(
                   createRedactedArtefact(createOriginalArtefact(EmptyPayload, protocol), mod))

enforceExportPolicy(protocol, variant, mod) ==
    IF variant = "original" THEN protocol
    ELSE createRedactedArtefact(createOriginalArtefact(EmptyPayload, protocol), mod).data
=============================================================================
