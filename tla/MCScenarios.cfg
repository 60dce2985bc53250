SPECIFICATION FairSpec
CONSTANTS
    Ids = {1, 2}
    Machines = {1, 2}
    Requests = {r1, r2}
    Launchers = {r2}
    Scenarios <- MCScenarios
    SetupBudget = 0
    StepBudget = 1
    ReapMargin = 1
    MaxFaults = 1
    Orderly = TRUE
INVARIANTS
    OneRun
    ProgressIsPrefix
    GradeIsTheRows
    PlayableIsBuilt
    WindowCloses
PROPERTIES
    FinishedIsFinal
    LiveSetupNotReaped
    StuckIsReleased
CHECK_DEADLOCK FALSE
