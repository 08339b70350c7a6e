SPECIFICATION FairSpec
CONSTANTS
    c1 = c1
    c2 = c2
    Cores = {c1, c2}
    PagesPerRegion = 3
    Pages = {0, 1, 2, 3, 4, 5}
    Machines <- BothBackends
    MaxStreamed = 1
    MaxCow = 2
    CowPool = 1
    Values = {0, 1}
    Blank = 0
    None = None
INVARIANTS
    NoAliasing
    OwnWritesKept
PROPERTIES
    CowIsolates
    AccessEnds
