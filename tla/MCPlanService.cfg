CONSTANTS
    MaxSlot = 3
    SlotsPerEpoch = 1
    GloasSlot = 1
    Retentions = {0, 1, 2}
    Configs <- MCConfigs
    Updates <- MCUpdates
    Requests = {r1}
    MaxBuilt = 1
    NotFrozen = NotFrozen
SPECIFICATION PlanSpec
INVARIANTS FrozenMatchesPlan
PROPERTY SnapshotStable
