CONSTANTS
    k1 = k1
    k2 = k2
    v1 = v1
    c1 = c1
    c2 = c2
    None = None
    Garbled = Garbled
    Keys = {k1, k2}
    Values = {v1}
    Clients = {c1, c2}
    MaxPending = 2
SPECIFICATION FairSpec
INVARIANTS UnmarkedAgrees NoLostWakeup StopIsDurable
PROPERTY EventuallyDrained
