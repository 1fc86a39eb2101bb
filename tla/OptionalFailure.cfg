CONSTANTS
    a = a
    b = b
    c = c
    NoSession = NoSession
    GivenSession = GivenSession
    Node <- MCNode
    Plans <- MCOptionalPlans
    GlobalConcurrency = 2
    EventCap = 1
    MaxItems = 1
SPECIFICATION Spec
CHECK_DEADLOCK FALSE
INVARIANT OptionalFailureTolerated
