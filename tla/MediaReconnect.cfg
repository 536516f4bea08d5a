\* One host mute and one reconnect.
SPECIFICATION Spec
CONSTANTS
    None = None
    MaxToggles = 0
    MaxMutes = 1
    MaxDrops = 1
PROPERTY
    HostMuteSurvivesReconnect
CHECK_DEADLOCK FALSE
