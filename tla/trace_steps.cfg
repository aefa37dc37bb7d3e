SPECIFICATION Spec
CONSTANTS
    userF = userF
    userG = userG
    libF = libF
    ownF = ownF
    t1 = t1
    t2 = t2
    Threads = {t1}
    Codes = {userF, userG}
    Library = {}
    Internal = {}
    FileOf <- Files
    LastLine = 1
    MaxDepth = 2
    BreakLocations <- LineAndFunction
    Conditional = {}
    MaxBreakpoints = 1
    StepCmds = {"into_my", "smart", "return_my", "over_my"}
    JustMyCode = FALSE
    ExceptionBreaks = TRUE
    SingleNotification = TRUE
INVARIANTS
    BreakpointsHit
    StepsStop
    PausesStop
    CachesAgree
