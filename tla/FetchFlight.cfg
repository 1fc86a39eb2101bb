CONSTANTS
    r1 = r1
    r2 = r2
    r3 = r3
    x = x
    y = y
    z = z
    s = s
    t = t
    planAccount = planAccount
    ownAccount = ownAccount
    None = None
    Projection <- MCProjection
    Limits <- MCLimits
    Request <- SharedRequest
    Object <- SharedObject
    Wanted <- SharedWanted
    InitialArtifacts <- SharedArtifacts
    Unfetchable = {z}
    Account <- SharedAccount
    GlobalConcurrency = 1
    MaxFetchItems = 2
    SharedRecord = TRUE
SPECIFICATION FairSpec
CHECK_DEADLOCK FALSE
INVARIANTS
    OneFlightPerKey
    FetchesPaid
    ResultsComplete
PROPERTY AllReturn
