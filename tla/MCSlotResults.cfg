CONSTANTS
    MaxSlot = 5
    Decision <- MCDecision
    CatchUp = 1
    KeepSlots = 3
    Retention = 2
    MaxRecords = 1
CHECK_DEADLOCK FALSE
SPECIFICATION Spec
INVARIANTS FinalStateDelivered BuildRecorded WaitingEnds
