\* Two clients that join at the same time; no network failure is needed.
SPECIFICATION Spec
CONSTANTS
    Clients = {a, b}
    MaxDrops = 0
INVARIANT
    OneInitiates
CHECK_DEADLOCK FALSE
