SPECIFICATION Spec
CONSTANTS
    EOL = EOL
    c1 = c1
    c2 = c2
    Chars = {c1, c2}
    Files <- MCFiles
    Inserts <- MCInserts
    TrailingGhosts = FALSE
    MaxLines = 3
    MaxGhosts = 1
    MaxLength = 1
    MaxRecords = 2
INVARIANTS UnmodifiedIsSaved ReplayFits
PROPERTIES UndoRestoresText
