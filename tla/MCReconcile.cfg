SPECIFICATION SessionSpec
CONSTANTS
    SessionLen = 2
    IdleLen = 2
    MaxTime = 6
INVARIANTS
    ConvergesToBackend
    StoppedKeepsBudget
PROPERTY
    RevokedHolds
CHECK_DEADLOCK FALSE
