SPECIFICATION Spec
CONSTANTS
    a = a
    b = b
    Files = {f1}
    Chunks = {a, b}
    Contents <- OneChunk
    Creators = {c1}
    Pruners = {p1}
    DeletableFiles = {}
    MaxFailures = 0
    MaxVersions = 3
    MaxCount = 9
CHECK_DEADLOCK FALSE
INVARIANTS
    CurrentVersionExists
