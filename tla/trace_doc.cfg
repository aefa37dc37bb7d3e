SPECIFICATION Spec
CONSTANTS
    userF = userF
    userG = userG
    libF = libF
    ownF = ownF
    t1 = t1
    t2 = t2
    Threads = {t1, t2}
    Codes = {userF}
    Library = {}
    Internal = {}
    FileOf <- Files
    LastLine = 2
    MaxDepth = 1
    BreakLocations <- LineOfF
    Conditional = {}
    MaxBreakpoints = 1
    StepCmds = {}
    JustMyCode = FALSE
    ExceptionBreaks = FALSE
    SingleNotification = TRUE
SYMMETRY ThreadSymmetry
INVARIANTS
    NoStaleSkip
    NoBlindFrame
    NoBlindPause
