CONSTANTS
    MaxSlot = 2
    SlotsPerEpoch = 4
    GloasSlot = 1
    Retentions = {1}
    Configs <- MCConfigs
    Updates <- MCUpdates
    Requests = {}
    MaxBuilt = 0
    NotFrozen = NotFrozen
    Foreign = Foreign
    ChannelSize = 1
    Lookback = 2
    KeepSlots = 2
    KeepWon = 1
    ReorgDepth = 1
    MaxDelay = 2
SPECIFICATION FairSpec
INVARIANTS SkippedXorBuilt BuildFindsAttributes
PROPERTIES CountedOnce BuildOnce NodeWins EverySlotServed
