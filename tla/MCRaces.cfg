SPECIFICATION Spec
CONSTANTS
    u1 = u1
    u2 = u2
    o1 = o1
    l1 = l1
    l2 = l2
    None = None
    Users = {u1}
    Orgs = {o1}
    Launches = {l1}
    Members <- McMembers
    Request <- McOne
    Procs = {p1, p2}
    ReservationTTL = 1
    SessionCreateTimeout = 1
    SessionLen = 1
    IdleLen = 1
    LaunchBy = 0
    MaxTime = 2
    ListFailures = TRUE
    ContainersEnd = FALSE
INVARIANTS
    ChargedOnce
    NoStrayReservation
    BudgetIsLeased
SYMMETRY Threads
CHECK_DEADLOCK FALSE
