SPECIFICATION FairSpec
CONSTANTS
    Threads = {t1, t2}
    MaxItems = 4
    MayFail = {"collector", "compare"}
    MayAbort = TRUE
INVARIANTS
    TypeOK
    PickedIsReady
    NoItemTwice
    ComparedWithinTotal
    LastOneOutClosesUp
    ReportedScanIsComplete
PROPERTIES
    AbstractSpec
    ScanEndsUnlessThreadLost
CHECK_DEADLOCK FALSE
