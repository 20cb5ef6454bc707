\* two clients of one name
SPECIFICATION FairSpec
CONSTANTS
    Client = {c1, c2}
    Name = {n1}
    MaxCalls = 4
    MaxFaults = 2
INVARIANTS
    TypeOK
    Agree
PROPERTIES
    AddedIsHeld
    RemovedIsGone
CHECK_DEADLOCK FALSE
