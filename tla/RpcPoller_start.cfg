SPECIFICATION Spec
CONSTANTS
    Interval = 6
    PoolCutoff = 3
    SingleOffset = 2
    AnchorOffset = 1
    Period = 3
    CapPeriodic = 1
    SafetyBuffer = 1
    CapSingle = 1
    HeaderCap = 2
    StartMargin = 0
    Chunk = 3
    ChunkCost = 1
    RsMargin = 0
    RollDelay = 0
    MaxLag = 1
    MaxGaps = 0
    MaxFaults = 1
    LastEpoch = 2
    MaxTime = 12
    Stalls = FALSE
INVARIANT
    NothingIsMissingBehindTheCursor
CHECK_DEADLOCK FALSE
