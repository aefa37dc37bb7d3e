SPECIFICATION Spec
CONSTANTS
    userF = userF
    libF = libF
    ownF = ownF
    t1 = t1
    t2 = t2
    Threads = {t1}
    Codes = {userF, libF}
    Library = {libF}
    Internal = {}
    LastLine = 1
    MaxDepth = 2
    BreakLocations <- LineAndFunction
    Conditional <- OnFunction
    MaxBreakpoints = 1
    StepCmds = {"into_my", "over_my", "return_my", "smart"}
    JustMyCode = FALSE
    SingleNotification = TRUE
INVARIANTS
    BreakpointsHit
    RemovedNotHit
    StepsStop
    PausesStop
