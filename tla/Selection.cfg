CONSTANTS
    p1 = p1
    p2 = p2
    search = search
    resolve = resolve
    k1 = k1
    k2 = k2
    None = None
    Provider = {p1, p2}
    Op = {search, resolve}
    OpOrder <- MCOpOrder
    Supports <- MCSupports
    HealthChecker = {p1}
    OpChecker = {p1}
    Probe = {k1, k2}
    Concurrency = 1
    Source = {"docs", "messages", "mail"}
    KindOf <- MCKindOf
    Weights <- MCWeights
    Quotas <- MCQuotas
    K0 = 60
    Inputs <- MCInputs
    Limits = {0, 1, 2}
    Clock = {0, 1}
    Blank = 0
    Unknown = 99
SYMMETRY ProbeSymmetry
SPECIFICATION BothSpec
CHECK_DEADLOCK FALSE
INVARIANTS
    RoutesSound
    MarksAgree
    PermissionErrorsVisible
    MergeExact
    RankingDetermined
    SelectionFair
