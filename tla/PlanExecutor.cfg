CONSTANTS
    a = a
    b = b
    c = c
    NoSession = NoSession
    GivenSession = GivenSession
    Node <- MCNode
    Plans <- MCPlans
    GlobalConcurrency = 2
    EventCap = 1
    MaxItems = 1
SPECIFICATION FairSpec
CHECK_DEADLOCK FALSE
INVARIANTS
    BooksAgree
    OneTaskPerNode
    DependenciesRespected
    OneSession
    ResultHonest
PROPERTIES
    TerminalIsFinal
    ContractKept
    Delivered
