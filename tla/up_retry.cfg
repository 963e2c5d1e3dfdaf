SPECIFICATION FairSpec
CONSTANTS
    Callers = {c1, c2}
    Threshold = 2
    ResetTimeout = 2
    MaxAttempts = 3
    InitialDelay = 1
    Multiplier = 2
    Chunks = {h1}
    MaxFailures = 1
CHECK_DEADLOCK FALSE
INVARIANTS
    TypeOK
    PromisesKept
PROPERTIES
    OpenRests
    RetriesEnd
    Recovers
