\* three addresses, used again
SPECIFICATION Spec
CONSTANTS
    Handle = {h1, h2, h3}
    Topic = {t1, t2}
    MaxImpls = 4
INVARIANTS
    TypeOK
    OneOwner
    NothingOutlivesImpl
    OwnClientUnlessMoved
CHECK_DEADLOCK FALSE
