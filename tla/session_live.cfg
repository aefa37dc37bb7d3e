SPECIFICATION FairSpec
CONSTANTS
    Starts <- Timed
    MaxEvents = 1
    Faults <- NoFaults
INVARIANTS
    TerminatedAfterLauncher
PROPERTIES
    SessionEnds
CHECK_DEADLOCK FALSE
