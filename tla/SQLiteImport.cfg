CONSTANTS
    server = server
    cli = cli
    t1 = t1
    t2 = t2
    t3 = t3
    p1 = p1
    p2 = p2
    None = None
    Task = {t1, t2, t3}
    Proc = {server, cli}
    Provider = {p1, p2}
    Home <- MCHome
    Does <- MCDoes
    Files <- MCFiles
    TTL = 1
    MaxNow = 1
SPECIFICATION Spec
CHECK_DEADLOCK FALSE
PROPERTY ImportNeverReplaces
