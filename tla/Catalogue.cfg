SPECIFICATION Spec
CONSTANTS
    g1 = g1
    g2 = g2
    all = all
    some = some
    Readers = {r1}
    Writers = {w1, w2}
    MaxVersion = 2
    MaxVenue = 2
    MaxDeaths = 1
    Generators = {g1, g2}
    Plan <- MCPlan
    NoStock = NoStock
    Filters = {all, some}
    Size <- MCSize
    Limit = 1
    Requests = {q1, q2}
    MaxUpsets = 1
    Entities = {"events", "users"}
    Rows = {i1, i2}
    Texts = {x}
    Blank = Blank
    NoRow = NoRow
    MaxSent = 2
    MaxFetches = 2
    MaxOpened = 2
    MaxExtras = 1
INVARIANTS
    TypeOK
    OldIsAccounted
    GenerationWhole
    PagerSound
    PageExists
    CreatesOnce
    ShowsTable
PROPERTIES
    CachesCatchUp
CHECK_DEADLOCK FALSE
