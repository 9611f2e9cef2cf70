SPECIFICATION Spec
CONSTANTS
    Interval = 5
    PoolCutoff = 3
    SingleOffset = 2
    AnchorOffset = 1
    Period = 2
    CapPeriodic = 1
    SafetyBuffer = 1
    CapSingle = 1
    HeaderCap = 1
    StartMargin = 2
    Chunk = 3
    ChunkCost = 1
    RsMargin = 0
    RollDelay = 1
    MaxLag = 1
    MaxGaps = 0
    MaxFaults = 1
    LastEpoch = 2
    MaxTime = 11
    Stalls = FALSE
INVARIANTS
    NothingIsMissingBehindTheCursor
    ArmedPoolIsComplete
    InfeasibleHasDetail
    DecisionIsOnTime
CHECK_DEADLOCK FALSE
