SPECIFICATION FairSpec
CONSTANTS
    Plans = {p1}
    Amounts = {1, 2}
    NewAmounts = {0, 1}
    Requests = {r1}
    MaxChanges = 2
    MaxAttempts = 2
    BatchSize = 2
    MaxCrashes = 1
    Orderly = TRUE
INVARIANTS
    NoDuplicates
    Mirrored
    AlwaysPurchasable
PROPERTIES
    QueueDrains
CHECK_DEADLOCK FALSE
