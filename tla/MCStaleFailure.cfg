SPECIFICATION Spec
CONSTANTS
    Rows = {1, 2}
    Subs = {1}
    Plans = {basic}
    basic = basic
    pro = pro
    Requests = {"r1"}
    Orderly = TRUE
    Overtaking = TRUE
    MaxNotes = 0
    Amount = 2
    MaxEvents = 3
    Hooks = {"h1"}
    InOrder = TRUE
    Timeouts = FALSE
INVARIANTS
    CuredStaysCured
CHECK_DEADLOCK FALSE
