SPECIFICATION FairSpec
CONSTANTS
    MaxData = 3
CHECK_DEADLOCK FALSE
INVARIANTS
    InOrder
    AnswerComplete
PROPERTIES
    RelaysEnd
