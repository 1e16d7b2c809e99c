SPECIFICATION Spec
CONSTANTS
    EOL = EOL
    c1 = c1
    c2 = c2
    Chars = {c1, c2}
    Files <- MCFiles
    Inserts <- MCInserts
    TrailingGhosts = TRUE
    MaxLines = 4
    MaxGhosts = 2
    MaxLength = 1
    MaxRecords = 1
INVARIANTS TypeOK MappingIsExact SaveWritesAll

