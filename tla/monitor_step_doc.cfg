SPECIFICATION Spec
CONSTANTS
    userF = userF
    libF = libF
    ownF = ownF
    t1 = t1
    t2 = t2
    Threads = {t1}
    Codes = {userF, libF}
    Library = {libF}
    Internal = {}
    LastLine = 1
    MaxDepth = 2
    BreakLocations = {}
    Conditional = {}
    MaxBreakpoints = 1
    StepCmds = {"over_my"}
    JustMyCode = FALSE
    SingleNotification = TRUE
INVARIANTS
    StepSurvivesExit
    PauseStopsStep
