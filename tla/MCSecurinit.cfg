SPECIFICATION FairSpec
CONSTANTS
    Images <- MCImages
    Ram <- MCRam
    TargetBase = 3
    ReservedSize = 4
    Setups <- MCSetups
    MaxOthers = 1
    UserBase = 16
    UserSize = 16
    AdminAddr = 4
    IpcMaxBytes = 1
INVARIANTS
    StaysInside
    LoadedExact
    MapRestored
    
PROPERTY
    JobEnds
CHECK_DEADLOCK FALSE
