SPECIFICATION Spec
CONSTANTS
    p1 = p1
    p2 = p2
    c1 = c1
    c2 = c2
    Producers = {p1, p2}
    Consumers = {c1, c2}
    BatchSize = 1
    LeaseMs = 1
    BackoffMs = 0
    MaxAttempts = 2
    MaxItems = 2
    MaxClock = 1
    MaxFaults = 1
SYMMETRY Symmetry
INVARIANTS
    TypeOK
    NoSilentLoss
    LeaseExclusive
    PayloadStable
    FirstHandFIFO
PROPERTIES
    NoResurrection
    ImplementsPromise
