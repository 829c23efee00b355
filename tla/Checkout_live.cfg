SPECIFICATION FairSpec
CONSTANTS
    o1 = o1
    o2 = o2
    c1 = c1
    c2 = c2
    o3 = o3
    o4 = o4
    c3 = c3
    v1 = v1
    Orders = {o1, o2}
    Carts = {c1, c2}
    Variants = {v1}
    GatewayRefs = {g1}
    Requests = {s1, s2}
    Hooks = {h1}
    NoOrder = NoOrder
    NoRef = NoRef
    CartOf <- TwoCarts
    LinesOf <- OneUnitEach
    Mode <- BothPrepaid
    Total <- AllOrNothing
    Advance <- AllOrNothing
    Coupons = {}
    Stock <- OneUnit
    DatabaseErrors = TRUE
    MaxReplays = 1
    MaxCrashes = 1
PROPERTIES PendingEnds PaidMoneyLands
CHECK_DEADLOCK FALSE
