SPECIFICATION FairSpec
CONSTANTS
    None = None
    learner = learner
    colleague = colleague
    own = own
    given = given
    bought = bought
    cusOwn = cusOwn
    cusColleague = cusColleague
    cusBulk = cusBulk
    subOwn = subOwn
    subGiven = subGiven
    subBought = subBought
    byLearner = byLearner
    byAdmin = byAdmin
    Users = {learner, colleague}
    Customers = {cusOwn, cusColleague, cusBulk}
    Subs = {subOwn, subGiven, subBought}
    Rows = {own, given, bought}
    Row <- McRow
    Erasers = {byLearner, byAdmin}
    Asked <- McAsked
    Busy = {learner}
    MaxFaults = 1
    MaxRequests = 1
    Settled = TRUE
INVARIANTS
    NeverBilledAfter
    AbortSparesOwnData
    PurchaserKeepsCustomer
    LeavesOnlyExcused
PROPERTY
    EventuallyGone
CHECK_DEADLOCK FALSE
