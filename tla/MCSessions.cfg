CONSTANTS
    Replicas = {r1, r2}
    Tokens = {1, 2}
    Requests = {q1}
    Ids = {u}
    Roles = {operator}
    NoRole = NoRole
    Configs <- MCConfigs
    Backends = {"memory", "postgres"}
    Solo = r1
    Absolute = 2
    Idle = 1
    Batch = 1
    MaxNow = 2
    MaxStarts = 2
SPECIFICATION Spec
INVARIANTS DeadIsRefused  RolloutLeavesNone
CHECK_DEADLOCK FALSE
