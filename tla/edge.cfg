SPECIFICATION Spec
CONSTANTS
    Chunks = {h1, h2}
    Jobs = {j1, j2}
    MaxCount = 2
    MaxFailures = 1
    Clients = {c1}
    FileVersions = {v1}
    VersionContents = {{h1, h2}}
    TTL = 1
    MaxEntries = 1
SYMMETRY EdgeSymmetry
CHECK_DEADLOCK FALSE
INVARIANTS
    TypeOK
    WrongContentExpires
    InvalidationHolds
    CountCoversFiles
