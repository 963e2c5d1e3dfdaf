SPECIFICATION Spec
CONSTANTS
    a = a
    b = b
    Files = {f1}
    Chunks = {a, b}
    Contents <- OneOrTwoChunks
    Creators = {c1, c2, c3}
    Pruners = {}
    DeletableFiles = {f1}
    MaxFailures = 2
    MaxVersions = 3
    MaxCount = 9
SYMMETRY CallerSymmetry
CHECK_DEADLOCK FALSE
INVARIANTS
    SequentialNumbers
PROPERTIES
    ImplementsLog
