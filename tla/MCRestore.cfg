CONSTANTS
    Holders = {h1, h2}
    Hold = 3
    Divisor = 3
    Delays = {1, 3}
    MaxNow = 3
    Jobs = {b1, n1}
    BackupJobs = {b1}
    NoJob = NoJob
    Deployments <- MCDeployments
SYMMETRY RestoreSymmetry
SPECIFICATION Spec
INVARIANTS
    OneOperation
    LeaseHeld
    NoJobRunsDuringRestore
    MarkedNotRevived
    ReportedIsRestored
PROPERTY
    LeaseEndsByOwner
CHECK_DEADLOCK FALSE
