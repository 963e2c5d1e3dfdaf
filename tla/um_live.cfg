SPECIFICATION FairSpec
CONSTANTS
    Sessions = {s1, s2}
    Files = {f1}
    Chunks = {h1}
    Totals = {0, 2}
    Clients = {c1}
    Cleaners = {k1}
    DeletableFiles = {}
    MaxFailures = 0
CHECK_DEADLOCK FALSE
PROPERTIES
    ExpiredRemoved
    CompleteUploadsFinish
