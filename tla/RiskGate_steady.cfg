SPECIFICATION Spec
CONSTANTS
    Window = 3
    Bankrolls = {4}
    Cooldowns = {}
    MaxAnchor = 4
    MaxSamples = 5
    MaxRestarts = 0
    CooldownRounds = 2
    TripNum = 1
    TripDen = 3
    MinBankroll = 2
    MinFires = 1
    RecoverNum = 3
    RecoverDen = 4
    Stake = 1
    MaxOpen = 2
    MaxFetches = 2
    MaxFlags = 1
INVARIANTS
    SuspensionHolds
    EpisodeLossIsBounded
CHECK_DEADLOCK FALSE
