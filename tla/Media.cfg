\* Enough toggles, mutes and drops for each of them to cross the others.
SPECIFICATION Spec
CONSTANTS
    None = None
    MaxToggles = 2
    MaxMutes = 2
    MaxDrops = 1
INVARIANTS
    RowMutedMeansMuted
    VideoReported
    TileFollowsRow
CHECK_DEADLOCK FALSE
