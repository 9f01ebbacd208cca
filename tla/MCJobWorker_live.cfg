CONSTANTS
    Workers = {w1, w2}
    Callers <- MCThreads
    NoWorker = NoWorker
    Results = {r1}
    NoResult = NoResult
    NoJob = NoJob
    Units = 1
    Backend = "redis"
    JobType = "transcription"
    MaxVersion = 4
    Issued = {}
    MaxAttempts = 2
    MaxStalls = 1
    MaxCrashes = 2
    Diarize = TRUE
    Reporting = FALSE
    LiveStalls = FALSE
    HandlersSettle = TRUE
    Erasing = TRUE
SPECIFICATION WSpec
INVARIANTS
    NoSilentAudio
PROPERTIES
    EndsOnce
    
CHECK_DEADLOCK FALSE
