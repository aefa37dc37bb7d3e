SPECIFICATION Spec
CONSTANTS
    userF = userF
    libF = libF
    ownF = ownF
    t1 = t1
    t2 = t2
    Threads = {t1}
    Codes = {userF, libF}
    Library = {libF}
    Internal = {}
    LastLine = 1
    MaxDepth = 2
    BreakLocations <- LineOfF
    Conditional = {}
    MaxBreakpoints = 1
    StepCmds = {}
    JustMyCode = FALSE
    SingleNotification = TRUE
INVARIANTS
    NoLateDisable
    NoBlindFrame
