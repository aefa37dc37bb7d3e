SPECIFICATION FairSpec
CONSTANTS
    main = main
    other = other
    i1 = i1
    i2 = i2
    Main = main
    Others = {other}
    Codes = {i1}
    MaxAttempts = 2
    Timeouts = TRUE
INVARIANTS
    TypeOK
    OneRunner
PROPERTY
    RunnerEnds
CHECK_DEADLOCK FALSE
