SPECIFICATION Spec
CONSTANTS
    Interval = 6
    PoolCutoff = 3
    SingleOffset = 2
    AnchorOffset = 1
    Period = 3
    CapPeriodic = 1
    SafetyBuffer = 1
    CapSingle = 1
    HeaderCap = 1
    StartMargin = 2
    Chunk = 3
    ChunkCost = 1
    RsMargin = 0
    RollDelay = 0
    MaxLag = 1
    MaxGaps = 2
    MaxFaults = 0
    LastEpoch = 1
    MaxTime = 7
    Stalls = FALSE
INVARIANT
    ArmedPoolIsComplete
CHECK_DEADLOCK FALSE
