CONSTANTS
    MaxSlot = 1
    TicksPerSlot = 3
    Plans <- MCPlans
    BlockValue <- MCValues
    MaxGwei = 5
    Suppressed = Suppressed
    Never = Never
SPECIFICATION Spec
INVARIANTS BidsRise OneBid
PROPERTY NoBidOnceClosed
