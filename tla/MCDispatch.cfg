SPECIFICATION FairSpec
CONSTANTS
    c1 = c1
    c2 = c2
    Cores = {c1, c2}
    ANY = ANY
    JobPool = 2
    MaxJobs = 4
    Machines <- OneAndTwo
INVARIANTS
    DispatchExclusive
    FinishedIsNotRun
    
    SafeOnOneCore
PROPERTY
    EveryJobEnds
CHECK_DEADLOCK FALSE
