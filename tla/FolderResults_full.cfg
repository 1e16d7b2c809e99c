SPECIFICATION Spec
CONSTANTS
    Threads = {t1, t2}
    NumItems = 4
    Outcomes = {1, 3}
    Filtering = TRUE
    Requested = FALSE
SYMMETRY ThreadSymmetry
INVARIANTS
    TypeOK
    FolderShowsWorstChild
    ContainsUniqueIsExact
PROPERTIES
    SeverityGrows
CHECK_DEADLOCK FALSE
