SPECIFICATION Spec
CONSTANTS
    c1 = c1
    c2 = c2
    c3 = c3
    NoTx = NoTx
    Verification = Verification
    Caller <- MCCaller
    Tx = {t1}
    Initialized = TRUE
    MaxEvents = 2
    MaxFaults = 0
    MaxTampers = 0
INVARIANTS NoFalseAlarm
