SPECIFICATION MutexFairSpec
CONSTANTS
    Cores = {c1, c2, c3, c4}
    Creators = {c1, c2}
    MaxMutexes = 3
    InterruptsOn = {c1, c2, c3}
INVARIANT
    MutexInv
PROPERTIES
    ServiceSpec
    
CHECK_DEADLOCK FALSE
