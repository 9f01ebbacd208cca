CONSTANTS
    Jobs = {j1}
    NoJob = NoJob
    Retentions = {1, 2}
    Revival = 1
    Margin = 0
    MaxAge = 1
    CopyDays = 1
    Shrinks = FALSE
    Authorities <- MCAuthorities
    MaxNow = 3
    MaxCopies = 2
    MaxFaults = 2
SPECIFICATION RecoverySpec
INVARIANTS
    MarkOutlivesCopies
    

    
CHECK_DEADLOCK FALSE
