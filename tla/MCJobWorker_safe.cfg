CONSTANTS
    Workers = {w1, w2}
    Callers <- MCThreads
    NoWorker = NoWorker
    Results = {r1, r2}
    NoResult = NoResult
    NoJob = NoJob
    Units = 1
    Backend = "postgres"
    JobType = "transcription"
    MaxVersion = 4
    Issued = {}
    MaxAttempts = 2
    MaxStalls = 1
    MaxCrashes = 2
    Diarize = TRUE
    Reporting = TRUE
    LiveStalls = FALSE
    HandlersSettle = TRUE
    Erasing = TRUE
SYMMETRY WorkerSymmetry
SPECIFICATION WSpec
INVARIANTS
    AckedResultKept
    AudioBarrier
CHECK_DEADLOCK FALSE
