CONSTANTS
    i1 = i1
    Jobs = {c1, c2, g1}
    Changesets = {c1, c2}
    Items = {i1}
    ItemOf <- AllForOneItem
    NoJob = NoJob
    MaxAttempts = 2
    MaxForeign = 1
    MaxCrashes = 1
SPECIFICATION FairSpec
INVARIANTS
    TypeOK
    
    
PROPERTIES
    
    WorkEnds
CHECK_DEADLOCK FALSE
