SPECIFICATION Spec
CONSTANTS
    main = main
    other = other
    i1 = i1
    i2 = i2
    Main = main
    Others = {other}
    Codes = {i1, i2}
    MaxAttempts = 2
    Timeouts = TRUE
INVARIANTS
    CallbackSafe
    OneThreadInPython
    NobodyLeftSuspended
    PathOutlivesLoad
    EventMeansOver
SYMMETRY Symmetric
CHECK_DEADLOCK FALSE
