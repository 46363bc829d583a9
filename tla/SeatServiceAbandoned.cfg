SPECIFICATION FairSpec
CONSTANTS
    Seats = {s1}
    LockRequests = {r1, r2}
    UnlockRequests = {}
    Sweeps = {w1}
    Readers = {}
    Users = {u1, u2}
    None = None
    SaleWrites = {}
    PromptHandlers = TRUE
    SweepReached = TRUE
    MaxFailures = 0
PROPERTIES
    AbandonedSeatReopens
CHECK_DEADLOCK FALSE
