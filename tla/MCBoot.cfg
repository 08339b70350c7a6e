SPECIFICATION FairSpec
CONSTANTS
    b = b
    a1 = a1
    a2 = a2
    Bsp = b
    Aps = {a1, a2}
    Cores = {b, a1, a2}
    CalTicks = 2
    MaxSpins = 2
    MaxProxies = 4
    Machines <- MCMachines
INVARIANTS
    HandoffIntact
    
    ConfiguresAlone
PROPERTIES
    BootEnds
    TimerServed
CHECK_DEADLOCK FALSE
