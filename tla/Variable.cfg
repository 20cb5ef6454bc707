\* three allocations, lists of up to two
SPECIFICATION Spec
CONSTANTS
    Text = {t1, t2}
    MaxBlocks = 3
    MaxList = 2
INVARIANTS
    TypeOK
    OwnFindsViews
    OwnedLasts
    ReleaseIsComplete
CHECK_DEADLOCK FALSE
