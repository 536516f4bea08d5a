SPECIFICATION FairSpec
CONSTANTS
    Numbers = {n1, n2, n3}
    Held = {n1, n2}
    Locked = {n1}
    MaxRecent = 2
    MaxTasks = 2
INVARIANTS
    TypeOK
    OfThisMeeting
    RecentsSound
PROPERTIES
    Settles
CHECK_DEADLOCK FALSE
