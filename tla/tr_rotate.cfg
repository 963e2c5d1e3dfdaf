SPECIFICATION Spec
CONSTANTS
    ChunkSize = 2
    MaxLength = 5
    Concurrency = 2
    Services = {s1, s2}
    Calls = {1, 2, 3}
    MaxVersion = 3
    MaxEpochs = 2
    MaxFailures = 1
SYMMETRY ServiceSymmetry
CHECK_DEADLOCK FALSE
INVARIANTS
    TypeOK
    RoundTrip
    RotationTakesEffect
    ReadableUntilRestart
