SPECIFICATION PathSpec

CONSTANTS
    Keys = {k1, k2}
    Values = {v1, v2}
    None = None
    MinInterval = 2
    MaxPerWindow = 2
    WindowMs = 2

INVARIANTS
    TypeOK
    FinalValueKept
    BurstBound
    TwiceTheLimit

PROPERTIES
    ImplementsLatestValue
    HeardBelowLimit
