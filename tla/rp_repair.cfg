SPECIFICATION FairSpec
CONSTANTS
    n1 = n1
    n2 = n2
    n3 = n3
    n4 = n4
    Nodes = {n1, n2, n3, n4}
    ZoneOf <- ThreeZones
    Ring <- RingOfFour
    Factor = 3
    Quorum = 2
    Writers = {w1}
    Repairers = {r1}
    Overlap = FALSE
    MaxFailures = 2
    MaxOutages = 1
    MaxDecays = 1
CHECK_DEADLOCK FALSE
INVARIANTS
    TypeOK
    
    SpreadOverZones

    
