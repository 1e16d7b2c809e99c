SPECIFICATION Spec
CONSTANTS
    Threads = {t1, t2}
    NumItems = 2
    Outcomes = {1, 2}
    Filtering = FALSE
    Requested = TRUE
INVARIANTS
    NoFalseSame
CHECK_DEADLOCK FALSE
