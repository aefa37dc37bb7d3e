SPECIFICATION Spec
CONSTANTS
    u = u
    lib = lib
    e1 = e1
    e2 = e2
    Codes = {u, lib}
    Library = {lib}
    Internal = {}
    JustMyCode = FALSE
    Excs = {e1}
    ControlFlow = {}
    Tagged <- NoTags
    FilterSets <- AllFilters
    Configs <- SkipSame
    MaxDepth = 2
    MaxTrace = 2
INVARIANTS
    NotInSameFunction
CHECK_DEADLOCK FALSE
