CONSTANTS
    MaxSlot = 3
    GloasSlot = 2
    Plan <- MCPlan
    BlockValue <- MCBlockValue
    MaxGwei = 7
    Validators = {v1}
    Payments = {2}
    Requests = {1, 2, 3}
    Calls <- MCCalls
    CacheSlots = 1
    BidSlots = 1
    Parents = {p1}
    BufferSlots = 1
    Leads = {0, 2}
    HandlerSlots = 1
    Retention = 0
    QueueCap = 2
SPECIFICATION ApiSpec
INVARIANTS RevealAfterBroadcast IndexNamesBid
PROPERTIES RowsKept SubmissionsSettle
CHECK_DEADLOCK FALSE
