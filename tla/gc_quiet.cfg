SPECIFICATION GCSpec
CONSTANTS
    a = a
    b = b
    Files = {f1, f2}
    Chunks = {a, b}
    Contents <- TwiceOrShared
    Creators = {c1}
    Pruners = {p1}
    DeletableFiles = {f1}
    MaxFailures = 1
    MaxVersions = 2
    MaxCount = 9
    Nodes = {n1, n2}
    Collectors = {g1, g2}
    Overlap = FALSE
SYMMETRY NodeSymmetry
CHECK_DEADLOCK FALSE
INVARIANTS
    GCTypeOK
    CountsNonNegative
    
    
