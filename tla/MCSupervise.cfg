SPECIFICATION FairSpec
CONSTANTS
    Learner = Learner
    None = None
    Brokers = {b1}
    Admins = {}
    Groups = {g1, g2}
    MaxAsks = 2
    MaxFaults = 1
INVARIANTS
    HandIsOnRecord
    WindowIsBounded
CHECK_DEADLOCK FALSE
PROPERTY
    StreamsEnd
