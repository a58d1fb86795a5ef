SPECIFICATION Spec
CONSTANTS
    p1 = p1
    p2 = p2
    Processor <- MCProcessors
    MaximumAttempts = 2
    MaxEvents = 3
    MaxLost = 2
INVARIANTS TypeOK AttemptsBounded
PROPERTIES ImplementsQueue EventuallySettled
CHECK_DEADLOCK FALSE
