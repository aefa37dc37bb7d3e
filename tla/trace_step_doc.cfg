SPECIFICATION Spec
CONSTANTS
    userF = userF
    userG = userG
    libF = libF
    ownF = ownF
    t1 = t1
    t2 = t2
    Threads = {t1}
    Codes = {userF, libF}
    Library = {libF}
    Internal = {}
    FileOf <- Files
    LastLine = 2
    MaxDepth = 2
    BreakLocations <- OnSecondLine
    Conditional = {}
    MaxBreakpoints = 1
    StepCmds = {"into_my", "over_my", "return_my", "smart"}
    JustMyCode = FALSE
    ExceptionBreaks = TRUE
    SingleNotification = TRUE
INVARIANTS
    StepSurvivesExit
    PauseStopsStep
    SmartStepKeepsBreakpoints
