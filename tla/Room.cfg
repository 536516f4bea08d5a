\* Host and guest, both may hold a seat; three sockets, so that one of them can
\* have two; one REST request at a time.
SPECIFICATION Spec
CONSTANTS
    h1 = h1
    g1 = g1
    c1 = c1
    c2 = c2
    c3 = c3
    t1 = t1
    t2 = t2
    None = None
    Participants = {h1, g1}
    HostRows = {h1}
    Sockets = {c1, c2, c3}
    Threads = {t1}
    MaxMesh = 2
SYMMETRY SocketSymmetry
INVARIANTS
    NoLeak
    OwnerServed
    OwnerIsNewest
    RosterComplete
PROPERTIES
    NoFalseDeparture
CHECK_DEADLOCK FALSE
