SPECIFICATION FairSpec
CONSTANTS
    Seats = {s1}
    LockRequests = {r1, r2}
    UnlockRequests = {}
    Sweeps = {w1}
    Readers = {v1}
    Users = {u1, u2}
    None = None
    SaleWrites = {"SOLD"}
    PromptHandlers = TRUE
    SweepReached = TRUE
    MaxFailures = 1
PROPERTIES
    ExpiredLockReleased
CHECK_DEADLOCK FALSE
