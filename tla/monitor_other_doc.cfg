SPECIFICATION Spec
CONSTANTS
    userF = userF
    libF = libF
    ownF = ownF
    t1 = t1
    t2 = t2
    Threads = {t1, t2}
    Codes = {userF}
    Library = {}
    Internal = {}
    LastLine = 1
    MaxDepth = 1
    BreakLocations = {}
    Conditional = {}
    MaxBreakpoints = 1
    StepCmds = {}
    JustMyCode = FALSE
    SingleNotification = TRUE
INVARIANT
    NoForeignDisable
