SPECIFICATION Spec
CONSTANTS
    n1 = n1
    n2 = n2
    Nodes = {n1, n2}
    BSP = n1
    ANY = ANY
    Kinds = {"MEMORY", "MMU", "PERIPHERAL"}
    NoKind = NoKind
    MutexIds = {}
    JobPool = 2
    ResPool = 3
    NodePool = 3
    Free = Free
    JobSpecs <- ResourceJobs
    ResSpecs <- MmuAndShared
    MaxJobs = 3
    Waits <- EarlierOnly
    Leavers = {n2}
    Removable = {n2}
INVARIANTS
    RunningJobsSound
    
CHECK_DEADLOCK FALSE
