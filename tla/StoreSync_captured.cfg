SPECIFICATION Spec
CONSTANTS
    FirstDay = 3
    LastDay = 7
    CacheN = 2
    BatchSize = 2
    Horizon = 4
    CapturePerRun = 1
    MaxOff = 1
    MaxFaults = 1
    MaxOps = 1
    MayCutNewline = FALSE
    MayOverlap = FALSE
    MayLoseUnsynced = FALSE
INVARIANTS
    CapturedIsSafe
CHECK_DEADLOCK FALSE
