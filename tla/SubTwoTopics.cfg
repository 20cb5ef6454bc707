SPECIFICATION Spec
CONSTANTS
    a = a
    b = b
    k1 = k1
    k2 = k2
    Topic = {a, b}
    Key = {k1, k2}
    Match <- OverlappingMatch
    StoredKey = {k1}
    MaxPuts = 2
    MaxDrops = 0
INVARIANTS
    TypeOK
    CallbacksExclusive
    ContextAlive
    OnlyTheGapIsLost
PROPERTY
    FeedSpec
