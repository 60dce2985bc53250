SPECIFICATION FairSpec
CONSTANTS
    u1 = u1
    u2 = u2
    o1 = o1
    l1 = l1
    l2 = l2
    None = None
    Users = {u1, u2}
    Orgs = {o1}
    Launches = {l1, l2}
    Members <- McMembers
    Request <- McTwo
    Procs = {}
    ReservationTTL = 2
    SessionCreateTimeout = 1
    SessionLen = 1
    IdleLen = 1
    LaunchBy = 1
    MaxTime = 3
    ListFailures = FALSE
    ContainersEnd = TRUE
INVARIANTS
    AdmittedWithinCap
PROPERTIES
    LedgerSpec
    EveryLaunchEnds
    ReservationResolves
CHECK_DEADLOCK FALSE
