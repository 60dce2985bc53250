SPECIFICATION Spec
CONSTANTS
    m1 = m1
    m2 = m2
    h1 = h1
    u1 = u1
    u2 = u2
    Managers = {m1, m2}
    Hooks = {h1}
    Users = {u1, u2}
    Licences = {1, 2, 3}
    Quantities = {1, 2}
    MaxEvents = 4
    InOrder = TRUE
    Timeouts = FALSE
    Careful = TRUE
    Crashes = {m1, m2}
SYMMETRY McSymmetry
INVARIANTS
    RowsMatchTotal
    HeldIsCounted
    SettledIsBilled
PROPERTIES
    NeverReassigned
    CancellationIsComplete
CHECK_DEADLOCK FALSE
