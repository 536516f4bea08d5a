SPECIFICATION Spec
CONSTANTS
    Tabs = {t1, t2}
    Tokens = {a, b}
    MaxSignIns = 1
    SettingsTabs = {t1}
SYMMETRY Interchangeable
INVARIANTS
    SessionFollows
PROPERTIES
    LoadIsCurrent
CHECK_DEADLOCK FALSE
