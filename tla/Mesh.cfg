\* Two clients, either of which may lose the network, twice in all, at any moment.
SPECIFICATION FairSpec
CONSTANTS
    Clients = {a, b}
    MaxDrops = 2
INVARIANTS
    TypeOK
    NeverBothInitiate
    EndsAgree
    CandidatesApplied
PROPERTIES
    Converges
CHECK_DEADLOCK FALSE
