SPECIFICATION FairSpec
CONSTANTS
    LastEpoch = 5
    LastBetEpoch = 3
    Interval = 3
    Buffer = 1
    MaxTime = 12
    Padding = 1
    MaxPerTx = 1
    MaxFaults = 2
    FaultKinds = {"timeout", "scan"}
PROPERTY
    PassEnds
CHECK_DEADLOCK FALSE
