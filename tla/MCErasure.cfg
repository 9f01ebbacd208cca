CONSTANTS
    Replicas = {a1, a2}
    Sweepers = {s1}
    Cleaners = {o1}
    NoClaim = NoClaim
    MaxAttempts = 2
SYMMETRY ReplicaSymmetry
SPECIFICATION Spec

    
    
PROPERTIES
    BarredBeforeErased
    ClaimNeverStolen
CHECK_DEADLOCK FALSE
