SPECIFICATION Spec
CONSTANTS
    a1 = a1
    a2 = a2
    b1 = b1
    pa = pa
    pb = pb
    Nobody = Nobody
    Contender <- MCContender
    Process <- MCProcess
    ProcessOf <- MCProcessOf
    MaxExpiries = 2
    MaxErrors = 1
    Prompt = FALSE
INVARIANTS TypeOK ExclusionWithinLease ExclusionUnlessUsurped NoLeakedLock
PROPERTIES AcquireTerminates
CHECK_DEADLOCK FALSE
