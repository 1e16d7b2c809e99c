SPECIFICATION Spec
CONSTANTS
    Threads = {t1}
    NumItems = 3
    Outcomes = {1, 2}
    Filtering = FALSE
    Requested = TRUE
INVARIANTS
    NoFalseSame
CHECK_DEADLOCK FALSE
