SPECIFICATION Spec
CONSTANTS
    Seats = {s1}
    Checkouts = {c1}
    Pays = {p1, p2}
    Confirms = {k1, k2}
    Deliveries = {k1, k2}
    Keys = {}
    Cancels = {}
    Refunds = {}
    PatchStatuses = {}
    None = None
    PayEarly = TRUE
    MaxFailures = 0
SYMMETRY Symmetry
INVARIANTS
    ChargedOnce
CHECK_DEADLOCK FALSE
