SPECIFICATION SpecEither
CONSTANTS
    p1 = p1  p2 = p2  c1 = c1  c2 = c2
    s1 = s1  s2 = s2  s3 = s3  s4 = s4
    Products = {p1, p2}
    Categories = {c1, c2}
    Slugs = {s1, s2, s3, s4}
    Titles <- SomeTitles
    Candidates <- SomeCandidates
    Procs = {a1, a2}
    Readers = {r1}
    Cached <- SomeKeys
    None = None  Root = Root
    MaxSaves = 4
    Handles = {"tee", "mug"}
    Skus = {"A", "C", "E", "1E5"}
    PageTitles = {"tee", "cup"}
    Texts = {"soft", "9E9"}
    OptionNames = {"size", "colour"}
    OptionValues <- SomeValues
    Prices = {1, 3}
    Mangled = {"1E5", "9E9"}
    Blank = Blank
    Unreadable = Unreadable
    Null = Null
    Absent = Absent
    NoProduct = NoProduct
    MAX_OPTION_AXES = 2
    MAX_OPTION_VALUES = 2
    MAX_VARIANTS_PER_PRODUCT = 3
    Opening <- SomeCatalogs
    Typed <- SomeTyped
    MaxEdits = 2
    Pages <- SomePages
    Browsers = {p1, p2}
    Posts = {a1, a2}
    MaxMounts = 2
    MaxPosts = 3
    Filled <- SomeFields
    Mixed = {"mixed"}
    Unserved = {"island"}
    Baskets = {c1, c2}
    Nothing = Nothing
SYMMETRY Interchangeable
INVARIANTS EveryUrlStillLeads StaleOnlyIfOvertaken SerialSavesLoseNothing ReimportIsANoOp ConsoleCanSaveIt ShowsSomethingOnSale ClicksOrderOnce
PROPERTIES ImportDoesWhatItSays
CHECK_DEADLOCK FALSE
