SPECIFICATION FairSpec
CONSTANTS
    MaxFailures = 1
    MaxCommands = 2
    Modulus = 16
CHECK_DEADLOCK FALSE
INVARIANTS
    TypeOK
    OneSession
    LatestIsChild
    InversionsAreStale
PROPERTIES
    GoroutinesEnd
    Reconnects
