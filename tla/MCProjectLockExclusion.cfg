SPECIFICATION Spec
CONSTANTS
    a1 = a1
    a2 = a2
    b1 = b1
    pa = pa
    pb = pb
    Nobody = Nobody
    Contender <- MCContender
    Process <- MCProcess
    ProcessOf <- MCProcessOf
    MaxExpiries = 1
    MaxErrors = 0
    Prompt = TRUE
INVARIANTS MutualExclusion
CHECK_DEADLOCK FALSE
