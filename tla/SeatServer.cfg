SPECIFICATION ServerSpec
CONSTANTS
    Seats = {s1}
    LockRequests = {r1, r2}
    UnlockRequests = {q1}
    Sweeps = {w1, w2}
    Readers = {}
    Users = {u1, u2}
    None = None
    SaleWrites = {"SOLD", "AVAILABLE"}
    PromptHandlers = FALSE
    SweepReached = TRUE
    MaxFailures = 1
    Buyers = {u1, u2}
    Joins = {r1, r2}
    Admits = {a1}
    MaxActive = 1
    MaxUpsets = 1
    Nobody = Nobody
SYMMETRY Symmetry
INVARIANTS
    TypeOK
    ExpiredRowLapsed
    OneLocker
    RoomTypeOK
    ActiveBounded
    WaitingKept
PROPERTIES
    KeepsContract
    NeverJoinsHold
    SweepSparesLease
CHECK_DEADLOCK FALSE
