SPECIFICATION SpecEither
CONSTANTS
    o1 = o1
    o2 = o2
    c1 = c1
    o3 = o3
    o4 = o4
    c2 = c2
    c3 = c3
    v1 = v1
    Orders = {o1, o2, o3, o4}
    Carts = {c1, c2, c3}
    Variants = {v1}
    GatewayRefs = {g1, g2}
    Requests = {s1, s2}
    Hooks = {h1, h2}
    NoOrder = NoOrder
    NoRef = NoRef
    CartOf <- PairedCarts
    LinesOf <- OneUnitEach
    Mode <- PairedModes
    Total <- Two
    Advance <- PairedAdvances
    Coupons = {o4}
    Stock <- OneUnit
    DatabaseErrors = TRUE
    MaxReplays = 1
    MaxCrashes = 1
SYMMETRY Interchangeable
INVARIANTS CartsClaimedOnce MoneyTrail StockAccounted ShownRefsAreStored CapturedMoneyIsOwedBack MoneyCounted
CHECK_DEADLOCK FALSE
