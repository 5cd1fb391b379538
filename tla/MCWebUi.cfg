SPECIFICATION FairSpec
CONSTANTS
    v0 = v0
    v1 = v1
    Keys = {1, 2}
    Toggles = {2}
    Values = {v0, v1}
    Default = v0
    None = None
    CommandLines <- MCCommandLines
    MaxTop = 2
    Conns = {1}
    Roots = {r1}
    CacheSlots = 1
    MaxCached = 2
    Spare = 2
    KeepSlots = 1
    SlotStates = 0
    Snapshots = 0
    MaxSlot = 1
    MaxSeq = 3
    MaxPosts = 2
    MaxMixed = 2
INVARIANTS EventsReachBrowser ConfigShown
PROPERTIES SettingsSurvive RequestsEnd
CHECK_DEADLOCK FALSE
