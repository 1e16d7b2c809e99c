SPECIFICATION Spec
CONSTANTS
    Threads = {t1, t2}
    MaxItems = 3
    MayFail = {}
    MayAbort = TRUE
INVARIANTS
    CollectorGoneWhenIdle
CHECK_DEADLOCK FALSE
