SPECIFICATION FairSpec
CONSTANTS
    Seats = {s1}
    Checkouts = {c1}
    Pays = {p1}
    Confirms = {k1, k2}
    Deliveries = {k1, k2}
    Keys = {}
    Cancels = {}
    Refunds = {}
    PatchStatuses = {}
    None = None
    PayEarly = FALSE
    MaxFailures = 1
PROPERTIES
    ChargedGetsTickets
CHECK_DEADLOCK FALSE
