CONSTANTS
    p = p
    a = a
    b = b
    c = c
    Roots = {p, a, b, c}
    NoRoot = NoRoot
    MaxSlot = 3
    SlotsPerEpoch = 4
    BlockSlot <- MCBlockSlot
    BlockVotes <- MCBlockVotes
    Members <- MCMembers
    Committee <- MCCommittee
    NumValidators = 4
    Weight <- MCWeight
    Votes <- MCVotes
    Thresholds = {50, 75}
    StepPct = 30
    MaxRoots = 2
    Retention = 1
    CoverageWindow = 1
    MinSamples = 1
    MinAttesters = 1
    LowPct = 40
    RecoverPct = 80
SPECIFICATION VotesSpec
INVARIANTS TallyOfDistinctVoters HeadTracked
PROPERTIES HeadCrossingReported AdvanceReported
CHECK_DEADLOCK FALSE
