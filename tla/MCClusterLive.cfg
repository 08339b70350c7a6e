SPECIFICATION FairSpec
CONSTANTS
    n1 = n1
    n2 = n2
    Nodes = {n1, n2}
    BSP = n1
    ANY = ANY
    Kinds = {"MEMORY", "MMU", "PERIPHERAL"}
    NoKind = NoKind
    MutexIds = {1}
    JobPool = 2
    ResPool = 1
    NodePool = 2
    Free = Free
    JobSpecs <- TwoPriorities
    ResSpecs = {}
    MaxJobs = 2
    Waits <- OneWait
    Leavers = {n2}
    Removable = {}
INVARIANTS
    BoostOnlyWhileHolding
    

    
CHECK_DEADLOCK FALSE
