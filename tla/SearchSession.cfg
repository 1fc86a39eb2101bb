CONSTANTS
    c1 = c1
    c2 = c2
    c3 = c3
    docs = docs
    chats = chats
    planAccount = planAccount
    ownAccount = ownAccount
    MaxPage = 3
    QueryMore = TRUE
    Source <- MCSource
    LastPage <- MCLastPage
    Limits <- MCLimits
    Call <- MCCall
    Op <- MCOp
    Asked <- MCAsked
    Account <- MCAccount
    Pagination = "adaptive"
    MaxPages = 2
    MaxAdditional = 1
    GlobalConcurrency = 1
    SharedRecord = TRUE
    MayExpire = {ownAccount}
SPECIFICATION FairSpec
CHECK_DEADLOCK FALSE
INVARIANTS
    CallsPaid
    NoHoles
    ContinueResumes
    FailuresReported
PROPERTY AllReturn
