\* One seat, two racing requests, two sockets, both of which may be the host's:
\* the joins can let both rows in, and a host.end can close another.  No symmetry,
\* since a liveness property is checked.
SPECIFICATION FairSpec
CONSTANTS
    h1 = h1
    g1 = g1
    c1 = c1
    c2 = c2
    c3 = c3
    t1 = t1
    t2 = t2
    None = None
    Participants = {h1, g1}
    HostRows = {h1}
    Sockets = {c1, c2}
    Threads = {t1, t2}
    MaxMesh = 1
INVARIANTS
    MeshBounded
    EndedIsStamped
PROPERTIES
    KeepsPromise
    EndDrains
CHECK_DEADLOCK FALSE
