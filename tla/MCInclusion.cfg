CONSTANTS
    g = g
    b = b
    c = c
    d = d
    e = e
    f = f
    h = h
    Slots = {1, 3}
    Blocks = {g, b, c, d, e, f, h}
    Info <- MCInfo
    GloasSlot = 1
    Window = 2
    CacheExtra = 0
    ChannelSize = 2
    MaxHeads = 4
    NoSlot = NoSlot
    NoWin = NoWin
CHECK_DEADLOCK FALSE
SPECIFICATION Spec
INVARIANTS VerdictFollowsHead NoStaleVerdict
