\* the client that a callback is given
SPECIFICATION Spec
CONSTANTS
    Handle = {h1, h2, h3}
    Topic = {t1, t2}
    MaxImpls = 4
INVARIANTS
    CallbackOnClient
CHECK_DEADLOCK FALSE
