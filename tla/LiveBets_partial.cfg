SPECIFICATION Spec
CONSTANTS
    LastEpoch = 5
    LastBetEpoch = 3
    Interval = 3
    Buffer = 1
    MaxTime = 14
    Padding = 1
    MaxPerTx = 2
    MaxFaults = 1
    FaultKinds = {"partial"}
INVARIANT
    FailedCallIsRedetected
CHECK_DEADLOCK FALSE
