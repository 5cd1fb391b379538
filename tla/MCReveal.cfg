CONSTANTS
    Slots = {0, 1}
    SlotsPerEpoch = 3
    BidValue <- OnlyFirst
    ra = ra
    rb = rb
    Roots = {ra, rb}
    TicksPerSlot = 1
    MaxTime = 4
    LastRequest = 3
    MaxReveals = 2
    Settings <- MCSettings
    MaxAttempts = 2
    RetryTicks = 1
    QueueSize = 1
    NoEntry = NoEntry
CHECK_DEADLOCK FALSE
SPECIFICATION FairSpec
INVARIANTS RevealedOnce TimeoutJustified
PROPERTIES GateHonest EveryRevealEnds
