\* Two delays and four sockets, so that the delays can be used up and start over.
SPECIFICATION FairSpec
CONSTANTS
    Delays = 2
    MaxSockets = 4
    MaxFrames = 3
    MaxThrows = 2
INVARIANTS
    WrittenInOrder
    OpenIsServed
    OneAtATime
    StaysClosed
PROPERTIES
    BackoffGrows
    Retries
CHECK_DEADLOCK FALSE
