SPECIFICATION FairSpec
CONSTANTS
    Seats = {s1}
    Checkouts = {c1}
    Pays = {p1}
    Confirms = {k1, k2}
    Deliveries = {k1, k2}
    Keys = {}
    Cancels = {}
    Refunds = {f1}
    PatchStatuses = {}
    None = None
    PayEarly = TRUE
    MaxFailures = 1
INVARIANTS
    TicketsArePaid
    SeatStatusBacked
    OneTicketEach
PROPERTIES
    ImplementsFulfilment
    ConfirmPrintsTickets
CHECK_DEADLOCK FALSE
