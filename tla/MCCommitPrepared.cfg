SPECIFICATION Spec
CONSTANTS
    r1 = r1
    r2 = r2
    r3 = r3
    k1 = k1
    k2 = k2
    t1 = t1
    t2 = t2
    t3 = t3
    AnyRevision = AnyRevision
    NoTx = NoTx
    NoRequest = NoRequest
    Missing = Missing
    Foreign = Foreign
    Request <- MCRequest
    KeyOf <- MCKeyOf
    Expected <- MCExpected
    Tx <- MCTx
    FaultScenarios <- MCTwoCrashes
PROPERTIES PreparedIsDurable
