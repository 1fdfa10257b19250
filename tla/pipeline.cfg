SPECIFICATION PipelineFairSpec
CONSTANTS
    j1 = j1
    s1 = s1
    Jobs = {j1}
    Configs <- MCConfigs
    Slots = {s1}
    MaxTriggers = 2
    BusCap = 1
    LeaseMax = 1
    LeaseMs = 1
    BackoffMs = 0
    MaxAttempts = 2
    MaxFaults = 1
CHECK_DEADLOCK FALSE
INVARIANTS
    RunIdIdentifiesReport
PROPERTIES
    RunsAreReported
