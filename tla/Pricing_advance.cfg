SPECIFICATION SpecEither
CONSTANTS
    Parts = {"prices"}
    Carts <- SomeCarts
    Offers <- SomeOffers
    NoOffer = NoOffer
    NoCap = NoCap
    Policies <- SomePolicies
    NoThreshold = NoThreshold
    NoAdvance = NoAdvance
    Sellers <- SomeSellers
    States = {"27", "29"}
    NoState = NoState
    None = None
    MaxEdits = 1
    Wares = {1, 2}
    TagOf <- Tags
    Prices = {67, 150}
    Codes = {"SAVE"}
    OffersOf <- SomeCodes
    Quantities = {0, 2}
    MaxChanges = 2
    Parcels <- SomeParcels
    Divisor = 5000
    QuoteLists <- SomeQuotes
    NoHistory = NoHistory
    RuleSets <- SomeRules
    NoParcel = NoParcel
    RawTexts <- SomeTexts
    Unmapped = Unmapped
    Tier = 1000
    Unlisted = 99
    o1 = o1
    o2 = o2
    o3 = o3
    c1 = c1
    c2 = c2
    k1 = k1
    k2 = k2
    Orders = {o1, o2, o3}
    Baskets = {c1, c2}
    Customers = {k1, k2}
    Procs = {p1, p2}
    NoProc = NoProc
    CartOf <- SharedCart
    CustomerOf <- TwoBuyers
    WithCoupon = {o1, o2, o3}
    PaidUpFront = {o1, o2}
    LimitTotal = 2
    LimitPerCustomer = 1
    MaxRollbacks = 1
    MaxReplays = 1
    Connections = {"c1", "c2"}
    Keys = {"k1", "k2", "k3"}
    ProviderOf <- SomeProviders
    Repeating = {"mock"}
    Savers = {p1, p2}
    Starts = {s1, s2}
    Purchases = {"o1"}
    MaxSaves = 3
    MaxMints = 2
    MaxTries = 2
    NoKey = NoKey
SYMMETRY Interchangeable
INVARIANT AdvanceIsPayable
CHECK_DEADLOCK FALSE
