SPECIFICATION HistorySpec
CONSTANTS
    a = a
    b = b
    k1 = k1
    k2 = k2
    Topic = {a}
    Key = {k1}
    Match <- SingleMatch
    StoredKey = {k1}
    MaxPuts = 2
    MaxDrops = 0
INVARIANT
    LiveDataShown
