CONSTANTS
    o1 = o1
    o2 = o2
    docs = docs
    mail = mail
    None = None
    Absent = Absent
    Malformed = Malformed
    Blank = ""
    Query = "query"
    Compact = "compact"
    Wanted = {docs}
    Narrow = {docs}
    NodeCap = 3
    ItemCap = 4
    Object = {o1, o2}
    Source = {docs, mail}
    Dim = {"calls", "fetches"}
    DefaultBudget <- MCDefault
    DefaultTopK = 2
    DefaultLimit = 3
    PerSource = 2
    Requests <- MCRequests
    Capabilities <- MCCapabilities
    Drafts <- MCDrafts
    Findings <- MCFindings
    TopN = 2
    Textual = {o1}
    Proc = {p1, p2}
    MessageId = {1, 2}
    MaxWorkers = 2
    Provider = {"messages", "docs"}
    Messages = "messages"
    Operations <- MCOperations
    Request <- MCRequest
    Session = {s1, s2}
    Nil = Nil
    MaxCalls = 2
SPECIFICATION BothSpec
INVARIANTS
    ValidatorsAgree
    PlanWithinAuthority
    AnswerTraceable
    PoolExact
    ReplayFaithful
    RecordingsReplayable
