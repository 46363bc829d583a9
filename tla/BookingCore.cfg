SPECIFICATION Spec
CONSTANTS
    Seats = {s1}
    Checkouts = {c1, c2}
    Pays = {p1}
    Confirms = {k1}
    Deliveries = {k1}
    Keys = {i1}
    Cancels = {x1}
    Refunds = {f1}
    PatchStatuses = {"PAID"}
    None = None
    PayEarly = TRUE
    MaxFailures = 0
SYMMETRY Symmetry
INVARIANTS
    TypeOK
    HeldStaysHeld
    PaidUnlessUndone
PROPERTIES
    HeldSeatRefused
CHECK_DEADLOCK FALSE
