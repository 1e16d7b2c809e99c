SPECIFICATION Spec
CONSTANTS
    folder = folder
    file = file
    elsewhere = elsewhere
    Items = {folder, file}
    Folders = {folder}
    Above <- MCAbove
    Elsewhere = {elsewhere}
    Empty = empty
    Texts = {empty, full}
    Absent = absent
    Dir = dir
    NoItem = none
    Budgets <- MCBudgets
INVARIANTS
    TypeOK
    UndoOrderFitsPanes
    ComparedIsCurrent
    UnmodifiedShowsFile
    LimitedIsReadOnly
    ItemsTellFiles
    RowsHaveItems
PROPERTIES
    NoSilentOverwrite
    TextIsKept
CHECK_DEADLOCK FALSE
