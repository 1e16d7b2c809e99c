SPECIFICATION FairSpec
CONSTANTS
    Threads = {t1, t2}
    MaxItems = 2
    MayFail = {"collector", "compare"}
    MayAbort = FALSE
PROPERTIES
    ScanEnds
CHECK_DEADLOCK FALSE
