SPECIFICATION Spec
CONSTANTS
    WeekLen = 2
    LastDay = 10
    WeakLimit = 3
    BlindLimit = 3
    FlagDays = 3
    FaultKinds = {"torn"}
    KillAt = {"save"}
    MaxFaults = 1
INVARIANT
    NeverBetsForMonthsBlind
CHECK_DEADLOCK FALSE
