SPECIFICATION FairSpec
CONSTANTS
    Starts <- OnlyLaunch
    MaxEvents = 1
    Faults <- SpawnFails
PROPERTIES
    SessionEnds
CHECK_DEADLOCK FALSE
