SPECIFICATION GCFairSpec
CONSTANTS
    a = a
    b = b
    Files = {f1}
    Chunks = {a, b}
    Contents <- OneChunk
    Creators = {c1, c2}
    Pruners = {p1}
    DeletableFiles = {f1}
    MaxFailures = 1
    MaxVersions = 2
    MaxCount = 9
    Nodes = {n1, n2}
    Collectors = {g1}
    Overlap = TRUE
CHECK_DEADLOCK FALSE

    
PROPERTIES
    
    OrphansCollected
