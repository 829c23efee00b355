SPECIFICATION SpecEither
CONSTANTS
    Lines = {"shirt", "mug"}
    Writers = {w1, w2}
    Payloads <- SomePayloads
    Files <- SomeFiles
    MaxVariants = 5
    MaxWrites = 4
    Consoles = {a1, a2}
    Jobs = {j1, j2, j3}
    Attempts = 2
    Carts = {1, 2}
    Items = {v1, v2}
    Quantities = {0, 1}
    Tabs = {t1, t2}
    Coupons = {"SAVE"}
    MaxLines = 1
    AxisTexts <- SomeAxes
    SkuTexts <- SomeSkus
    PriceTexts <- SomePrices
    Untyped = ""
    NoLine = "new"
    Closed = Closed
    Shelf <- Shirt
    MaxAxes = 2
    MaxTyping = 5
    Refunds = {r1, r2}
    Workers = {u1, u2}
    NoRefund = NoRefund
    MaxAttempts = 3
    Goods = {1, 2, 3, 4}
    Rooms = {11, 12, 13}
    Above <- Parents
    Outside = Outside
    VariantLists <- SomeVariants
    Stores <- SomeStores
    PageLength = 2
    MaxRevisions = 2
    Desks = {t1, t2}
    MaxPromotions = 2
    MaxEdits = 2
    MaxTrail = 3
    MaxRules = 2
    CodeTexts = {"sale", "NEW", "!"}
    Upper <- SomeUpper
    AmountTexts <- SomeAmounts
    MinuteTexts = {440}
    CountTexts = {0, 2}
    IdTexts <- SomeIds
    MaxRulePaise = 100000
    Imported <- SomeImports
    Blank = Blank
SYMMETRY Alike
INVARIANTS PendingHasAJob OrderIsTheCart SentAtMostOnce PendingWasNeverSent DoneMeansCarried ListingsTell TrailTellsTheEdits
PROPERTIES VariantKeepsSkuOrOptions VariantsKeepTheirIds ReadyImageStays
CHECK_DEADLOCK FALSE
