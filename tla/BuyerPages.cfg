SPECIFICATION FairBuyerSpec
CONSTANTS
    Seats = {s1}
    Checkouts = {c1}
    Pays = {p1, p2}
    Confirms = {k1}
    Deliveries = {}
    Keys = {m1}
    Cancels = {}
    Refunds = {}
    PatchStatuses = {}
    None = None
    PayEarly = FALSE
    MaxFailures = 1
    MaxPick = 1
INVARIANTS
    BuyerTypeOK
    OrderIsSelection
    PaidScreensTrue
    RetryFindsSession
PROPERTIES
    ConfirmedIsShown
CHECK_DEADLOCK FALSE
