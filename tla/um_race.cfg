SPECIFICATION Spec
CONSTANTS
    Sessions = {s1, s2}
    Files = {f1, f2}
    Chunks = {h1, h2}
    Totals = {2}
    Clients = {c1, c2}
    Cleaners = {k1}
    DeletableFiles = {f2}
    MaxFailures = 1
SYMMETRY UploadSymmetry
CHECK_DEADLOCK FALSE
INVARIANTS
    TypeOK
    NoPartialVersion
    VersionMatchesSession
    CompletedOwnsFile
    HalfFilesFromFailures
