SPECIFICATION Spec
CONSTANTS
    Starts <- StartKinds
    MaxEvents = 2
    Faults <- AnyFault
INVARIANTS
    EventsFollowStart
    EventsInOrder
    AnsweredOnce
CHECK_DEADLOCK FALSE
