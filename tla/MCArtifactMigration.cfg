CONSTANTS
    Writers = {w1, w2}
    Migrants = {m1}
    Attempts = {a1, a2}
    NoAttempt = NoAttempt
    Results = {r1, r2}
    NoResult = NoResult
    Unfit = {r2}
    Fence = 1
    Horizon = 1
    SlowPuts = FALSE
SYMMETRY MigrationSymmetry
SPECIFICATION MSpec
INVARIANTS
    ReferencedObjectPresent
    
PROPERTIES
    ReplacedOnlyWhenLost
    OnlyCopyKept
    ErasedNotCopied
CHECK_DEADLOCK FALSE
