CONSTANTS
    Callers = {c1, c2, c3}
    Results = {r1, r2}
    NoResult = NoResult
    NoJob = NoJob
    Units = 1
    Backend = "redis"
    JobType = "transcription"
    MaxVersion = 4
    Issued <- ConditionalRequests
SYMMETRY CallerSymmetry
SPECIFICATION StoreSpec
INVARIANTS
    AckedResultKept
    RecordConsistent
PROPERTIES
    ProgressNeverBack
    LifecycleSpec
CHECK_DEADLOCK FALSE
