CONSTANTS
    Servers = {s1, s2}
    Workers = {w1}
    Configs <- AllConfigs
    MaxFaults = 1
SPECIFICATION Spec
INVARIANT AuthoritiesAgree
PROPERTY EverybodyServes
CHECK_DEADLOCK FALSE
