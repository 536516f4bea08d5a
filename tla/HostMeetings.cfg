\* Pages of one row, so that each of three meetings may be the cursor.
SPECIFICATION ListSpec
CONSTANTS
    Ids = {1, 2, 3}
    Limit = 1
    MaxTime = 2
    DayLength = 2
    Filters <- EveryFilter
    MaxPages = 3
INVARIANTS
    ListTypeOK
    SkipsNone
    InOrder
CHECK_DEADLOCK FALSE
