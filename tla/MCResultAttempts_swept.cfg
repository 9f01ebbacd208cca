CONSTANTS
    Writers = {w1, w2}
    Attempts = {a1, a2}
    NoAttempt = NoAttempt
    Results = {r1}
    NoResult = NoResult
    Fence = 1
    Horizon = 1
    SlowPuts = FALSE

SPECIFICATION KeptSpec
INVARIANTS
    NoUntrackedObject
PROPERTIES
    OrphansSwept
CHECK_DEADLOCK FALSE
