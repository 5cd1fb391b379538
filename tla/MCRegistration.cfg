CONSTANTS
    m = m
    r = r
    Manager = m
    Requests = {r}
    Indices = {1}
    MaxFinalized = 2
    FarFuture = FarFuture
    NoEntry = NoEntry
SPECIFICATION FairSpec
PROPERTY StateSettles
