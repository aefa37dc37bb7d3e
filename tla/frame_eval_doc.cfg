SPECIFICATION Spec
CONSTANTS
    userF = userF
    genF = genF
    ownF = ownF
    t1 = t1
    t2 = t2
    Threads = {t1}
    Functions = {genF, ownF}
    Internal = {ownF}
    Generators = {genF}
    Unmodifiable = {}
    LastLine = 2
    MaxDepth = 1
    BreakLocations <- GeneratorLines
    MaxBreakpoints = 2
    ExceptionBreaks = FALSE
INVARIANTS
    GeneratorsKeepCode
    BreakpointsGiven
    LatePausesStop
    ThrownReevaluated
    NoBlindFrame
CHECK_DEADLOCK FALSE
