SPECIFICATION FairSpec
CONSTANTS
    Visits = 2
    MaxJoins = 2
    MaxStreams = 1
    MaxMessages = 2
    MayEnd = {1}
    Them = 3
INVARIANTS
    LiveIsConnected
    DrawerInOrder
    OrderFresh
PROPERTIES
    LeavingStopsMedia
    EndedIsLeft
CHECK_DEADLOCK FALSE
