SPECIFICATION FairSpec
CONSTANTS
    j1 = j1
    j2 = j2
    Jobs = {j1, j2}
    Ids = {1, 2}
    RxRing = 1
    WireMax = 1
    MaxLost = 1
    Nics = {"virtio", "gem"}
    Stalling = {"gem"}
    NoJob = NoJob
    NoFrame = NoFrame
INVARIANTS
    AtMostOnce
    RunsWhatItWasHanded
PROPERTY
    EveryJobEnds
CHECK_DEADLOCK FALSE
