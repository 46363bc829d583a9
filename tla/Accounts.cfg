SPECIFICATION Spec
CONSTANTS
    i1 = i1
    i2 = i2
    e1 = e1
    e2 = e2
    page = page
    form = form
    Ids = {i1, i2}
    Emails = {e1, e2}
    Email <- MCEmail
    Admin = i1
    Roles = {"USER", "SUPER_ADMIN"}
    Calls = {page, form}
    Kinds <- MCKinds
    MaxFailures = 1
    None = None
INVARIANTS
    TypeOK
    
PROPERTIES
    CallsEnd
    DemotedLosesAccess
    WelcomeArrives
CHECK_DEADLOCK FALSE
