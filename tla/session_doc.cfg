SPECIFICATION Spec
CONSTANTS
    Starts <- OnlyLaunch
    MaxEvents = 1
    Faults <- ServerRefuses
INVARIANTS
    EveryHandlerAnswers
    DeferredDelivered
    NoEventBeforeStart
    TerminatedAfterServer
CHECK_DEADLOCK FALSE
