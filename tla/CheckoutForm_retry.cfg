SPECIFICATION SpecForms
CONSTANTS
    Browsers = {b1, b2}
    Posts = {q1, q2}
    MaxMounts = 2
    MaxPosts = 3
    Filled <- SomeFields
    Mixed = {"mixed"}
    Unserved = {"island"}
    Baskets = {l1, l2}
    Nothing = Nothing
SYMMETRY SameTabs
INVARIANT RetryIsAFreshOrder
CHECK_DEADLOCK FALSE
