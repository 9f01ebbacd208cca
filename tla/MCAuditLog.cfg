CONSTANTS
    Replicas = {r1, r2}
    Generations = {k1, k2}
    NoKey = NoKey
    Nobody = Nobody
    Limit = 1
    Batch = 1
    SoftLimit = 0
    MaxSeq = 3
    MaxBoots = 2
SYMMETRY Symmetric
SPECIFICATION LogSpec
INVARIANTS
    ErasedLeavesNoRow
    RowsReachable
    ScanIsExact
CHECK_DEADLOCK FALSE
