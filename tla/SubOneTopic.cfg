SPECIFICATION FairSpec
CONSTANTS
    a = a
    b = b
    k1 = k1
    k2 = k2
    Topic = {a}
    Key = {k1}
    Match <- SingleMatch
    StoredKey = {k1}
    MaxPuts = 3
    MaxDrops = 1
INVARIANT
    OnlyTheGapIsLost
PROPERTIES
    NeverBackwards
    SubscribeReturns
    LiveSampleShown
