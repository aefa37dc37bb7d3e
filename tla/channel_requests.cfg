SPECIFICATION Spec
CONSTANTS
    u1 = u1
    u2 = u2
    h1 = h1
    h2 = h2
    c1 = c1
    c2 = c2
    None = None
    Users <- TwoUsers
    HThreads <- TwoHThreads
    Callbacks <- TwoCallbacks
    PeerKinds <- Anything
    MaxSeq = 1
    MaxIn = 2
SYMMETRY Symmetry
INVARIANTS
    TypeOK
    OneHandlerThread
    NoStrandedWork
    NoOrphanedWaiter
    CallbackExactlyOnce
    HandledInOrder
CHECK_DEADLOCK FALSE
