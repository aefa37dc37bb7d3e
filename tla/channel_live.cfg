SPECIFICATION FairSpec
CONSTANTS
    u1 = u1
    u2 = u2
    h1 = h1
    h2 = h2
    c1 = c1
    c2 = c2
    None = None
    Users <- OneUser
    HThreads <- TwoHThreads
    Callbacks <- OneCallback
    PeerKinds <- HandledOrMalformed
    MaxSeq = 2
    MaxIn = 1
PROPERTIES
    ShutsDown
    CallbackInvoked
    KeepsContract
CHECK_DEADLOCK FALSE
