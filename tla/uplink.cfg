SPECIFICATION FairSpec
CONSTANTS
    LeaseMax = 2
    LeaseMs = 2
    BackoffMs = 1
    MaxAttempts = 2
    MaxReports = 2
    MaxFaults = 1
CHECK_DEADLOCK FALSE
INVARIANTS
    TypeOK
    NoReportLost
    DuplicatesBounded
PROPERTIES
    EventuallyDelivered
