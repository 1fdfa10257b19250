SPECIFICATION RunFairSpec
CONSTANTS
    MaxOutput = 3
    BodyLimit = 2
CHECK_DEADLOCK FALSE
INVARIANTS
    SuccessIsTrue
    NobodyLeft
PROPERTIES
    TimeoutIsHard
