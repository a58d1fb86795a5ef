SPECIFICATION Spec
CONSTANTS
    Call = {c1, c2, c3, c4}
    MaximumConcurrent = 1
    MaximumQueue = 2
INVARIANTS TypeOK SlotsAccounted WorkConserving CountedOnce
PROPERTIES NeverOvertakes EveryCallAnswered
CHECK_DEADLOCK FALSE
