SPECIFICATION FairSpec
CONSTANTS
    j1 = j1
    j2 = j2
    Jobs = {j1, j2}
    NoJob = NoJob
    AddrSpace = 8
    MaxClaims = 4
    AllocMin = 1
    AllocMax = 4
    Reserved <- FirstCell
    ClaimArgs <- Fixed
    Sizes = {1, 2}
    ResPool = 2
INVARIANTS
    AllocFirstFit
    SlicesBacked
PROPERTIES
    
    
    MutexIsFreed
CHECK_DEADLOCK FALSE
