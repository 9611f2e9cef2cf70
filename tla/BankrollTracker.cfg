SPECIFICATION TrackerSpec
CONSTANTS
    Window = 1
    Bankrolls = {1, 2}
    Cooldowns = {2}
    MaxAnchor = 3
    MaxSamples = 4
    MaxRestarts = 1
INVARIANTS
    CooldownCountsRounds
    PeakIsWindowMax
    BaselineIsKept
CHECK_DEADLOCK FALSE
