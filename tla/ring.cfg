SPECIFICATION Spec
CONSTANTS
    n1 = n1
    n2 = n2
    n3 = n3
    Nodes = {n1, n2, n3}
    Hashes = {0, 1, 2, 3, 4, 5, 6, 7, 8, 9, 10}
    PointOf <- PointsFromZero
    MaxVirtual = 3
    DefaultVirtual = 2
    MaxCount = 4
    Sort <- SortByRank
CHECK_DEADLOCK FALSE
INVARIANTS
    SearchFinds
    LookupRight
PROPERTIES
    MinimalMovement
