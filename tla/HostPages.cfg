SPECIFICATION Spec
CONSTANTS
    Meetings = {1, 2}
    Given <- AfterNoon
    Clock = {1439}
    Options <- Noon
    Requests = {r1, r2}
SYMMETRY RequestSymmetry
INVARIANTS
    TypeOK
    OneRequest
    FormIsTheMeetings
CHECK_DEADLOCK FALSE
