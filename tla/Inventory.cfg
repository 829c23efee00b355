SPECIFICATION SpecEither
CONSTANTS
    Variants = {1, 2, 3, 4}
    r1 = r1
    r2 = r2
    k1 = k1
    p1 = p1
    p2 = p2
    p3 = p3
    Refs = {r1, r2}
    Keys = {k1}
    Procs = {p1, p2, p3}
    NoProc = NoProc
    NoRef = NoRef
    NoKey = NoKey
    Requests <- AllCalls
    Opening <- StockedPair
    STOCK_ADJUSTMENT_MAX = 2
    TTL = 1
    Grace = 1
    MaxClock = 2
    Editable = {1}
    MaxCalls = 4
SYMMETRY Connections
INVARIANTS NoWaitCycle Reconciled KeyedOnce
PROPERTY KeepsPromises
CHECK_DEADLOCK FALSE
