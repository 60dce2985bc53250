SPECIFICATION Spec
CONSTANTS
    Rows = {1, 2}
    Subs = {1}
    Plans = {basic, pro}
    basic = basic
    pro = pro
    Requests = {"r1"}
    Orderly = TRUE
    Overtaking = FALSE
    MaxNotes = 1
    Amount = 2
    MaxEvents = 3
    Hooks = {"h1"}
    InOrder = TRUE
    Timeouts = FALSE
SYMMETRY PlanSymmetry
INVARIANTS
    SettledIsBilled
    RefundIsExact
PROPERTIES
    FreshGrace
CHECK_DEADLOCK FALSE
