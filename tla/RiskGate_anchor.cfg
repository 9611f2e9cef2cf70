SPECIFICATION Spec
CONSTANTS
    Window = 3
    Bankrolls = {4}
    Cooldowns = {}
    MaxAnchor = 5
    MaxSamples = 5
    MaxRestarts = 1
    CooldownRounds = 2
    TripNum = 1
    TripDen = 3
    MinBankroll = 2
    MinFires = 1
    RecoverNum = 3
    RecoverDen = 4
    Stake = 1
    MaxOpen = 2
    MaxFetches = 2
    MaxFlags = 0
INVARIANT
    RoundTicksOnce
CHECK_DEADLOCK FALSE
