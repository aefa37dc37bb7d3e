SPECIFICATION Spec
CONSTANTS
    u1 = u1
    u2 = u2
    h1 = h1
    h2 = h2
    c1 = c1
    c2 = c2
    None = None
    Users <- TwoUsers
    HThreads <- TwoHThreads
    Callbacks <- OneCallback
    PeerKinds <- Anything
    MaxSeq = 1
    MaxIn = 1
INVARIANTS
    ResponseSynthesized
PROPERTIES
    NoHandlerAfterClose
    HandlingErrorSwallowed
    HandlerBeforeWaitReturns
CHECK_DEADLOCK FALSE
