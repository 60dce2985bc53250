SPECIFICATION Spec
CONSTANTS
    u1 = u1
    u2 = u2
    o1 = o1
    l1 = l1
    l2 = l2
    None = None
    Users = {u1, u2}
    Orgs = {o1}
    Launches = {l1, l2}
    Members <- McMembers
    Request <- McTwo
    Procs = {p1}
    ReservationTTL = 1
    SessionCreateTimeout = 1
    SessionLen = 1
    IdleLen = 1
    LaunchBy = 0
    MaxTime = 0
    ListFailures = FALSE
    ContainersEnd = FALSE
INVARIANT
    StartsCannotOvershoot
CHECK_DEADLOCK FALSE
