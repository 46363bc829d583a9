SPECIFICATION Spec
CONSTANTS
    Seats = {s1}
    Checkouts = {c1, c2}
    Pays = {p1}
    Confirms = {k1}
    Deliveries = {k1}
    Keys = {}
    Cancels = {}
    Refunds = {}
    PatchStatuses = {}
    None = None
    PayEarly = TRUE
    MaxFailures = 0
SYMMETRY Symmetry
INVARIANTS
    NoDoubleBooking
CHECK_DEADLOCK FALSE
