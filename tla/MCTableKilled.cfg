SPECIFICATION KillSpec
CONSTANTS
    null = null
    absent = absent
    a = a
    b = b
    Null = null
    Absent = absent
    Values = {a, b}
    Columns <- MCColumns
    Indexed <- MCIndexed
    NotNull <- MCIndexed
    Rows <- MCRows
    PageCapacity = 2
    MaxId = 2
    MaxClock = 1
    MaxCells = 5
INVARIANT
    RevertAssertionsHold
