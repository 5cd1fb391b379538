SPECIFICATION FairSpec
CONSTANTS
    Calls = {1, 2}
    MaxAttempts = 2
    MaxForeign = 1
    SlotsPerEpoch = 2
    ForkEpoch = 3
    MaxSlot = 6
    MaxRestarts = 1
    MinEarlyOnboardSlots = 2
    FinalizationMargin = 0
    TopupCooldown = 1
    MaxPerEpoch = 2
    ActiveBalance = 7
    MinChurn = 1
    ChurnQuotient = 2
    MaxChurn = 4
    Increment = 2
    Amount = 1
    Queues <- MCQueues
INVARIANT EarlyDepositSurvives
CHECK_DEADLOCK FALSE
PROPERTY NoSecondDeposit
PROPERTY CallContract
