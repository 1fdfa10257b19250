SPECIFICATION FairSpec
CONSTANTS
    j1 = j1
    j2 = j2
    s1 = s1
    s2 = s2
    Jobs = {j1, j2}
    Configs <- MCConfigsVaried
    Slots = {s1, s2}
    MaxTriggers = 2
    BusCap = 2
    MaxFaults = 2
INVARIANTS
    TypeOK
    FlagOwned
    RunIdsUnique
    ConfigDurable
    SkipsReported
    OverlapOnlyAcrossConfigs
CHECK_DEADLOCK FALSE
PROPERTIES
    PersistedIsApplied
    JobsFreeAgain
