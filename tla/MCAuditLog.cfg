SPECIFICATION Spec
CONSTANTS
    c1 = c1
    c2 = c2
    c3 = c3
    NoTx = NoTx
    Verification = Verification
    Caller <- MCCaller
    Tx = {t1}
    Initialized = FALSE
    MaxEvents = 2
    MaxFaults = 1
    MaxTampers = 1
SYMMETRY MCSymmetry
INVARIANTS TypeOK ChainIntact HeadWithinOne OncePerTransaction AnsweredIsKept FailsClosed
