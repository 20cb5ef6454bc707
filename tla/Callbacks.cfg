\* two topics, calls nested in callbacks on both threads
SPECIFICATION FairSpec
CONSTANTS
    Topic = {t1, t2}
    MaxContexts = 3
    MaxCalls = 8
    MaxReplay = 2
INVARIANTS
    TypeOK
    ContextInMap
    AloneUnlessLocal
PROPERTIES
    CallsReturn
CHECK_DEADLOCK FALSE
