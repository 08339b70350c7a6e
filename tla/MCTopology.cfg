SPECIFICATION FairSpec
CONSTANTS
    MaxDepth = 4
    Word = 16
    MaxCores = 2
    Machines <- MCMachines
INVARIANTS
    WalkExact
    SearchExact
    
PROPERTIES
    DiscoveryEnds
CHECK_DEADLOCK FALSE
