CONSTANTS
    t1 = t1
    t2 = t2
    t3 = t3
    r = r
    a = a
    b = b
    c = c
    Task = {t1, t2, t3}
    Object = {r, a, b, c}
    Root <- MCRoot
    MaxDepth <- MCMaxDepth
    Candidates = {r, a}
    Graph <- MCGraph
    Kinds <- MCKinds
    Limits <- MCLimits
    Concurrency = 2
    EventCap = 2
    MaxEvents = 4
SPECIFICATION BothSpec
CHECK_DEADLOCK FALSE
INVARIANTS
    ExpandExact
    SerialRelationsKept
    NothingOvertaken
PROPERTIES
    ExpandsReturn
    StreamKept
    StreamEnds
