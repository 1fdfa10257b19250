SPECIFICATION Spec
CONSTANTS
    j1 = j1
    j2 = j2
    s1 = s1
    s2 = s2
    Jobs = {j1}
    Configs <- MCConfigsAgain
    Slots = {s1, s2}
    MaxTriggers = 2
    BusCap = 2
    MaxFaults = 0
CHECK_DEADLOCK FALSE
INVARIANTS
    NoOverlap
