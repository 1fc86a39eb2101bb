CONSTANTS
    t1 = t1
    t2 = t2
    t3 = t3
    None = None
    Task <- ThreeTasks
SPECIFICATION FairSpec
CHECK_DEADLOCK FALSE
INVARIANT Durable
PROPERTIES
    NewestWins
    SavesReturn
