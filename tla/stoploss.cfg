CONSTANTS
    MaxIds = 3
    FirstAmt = 1
    AddAmt = 1
    MaxHeld = 2
    MaxLevel = 2
    MaxFaults = 1
    Denying = TRUE
SPECIFICATION FairSpec
INVARIANTS
    LevelsBounded
    AmountAgrees
    ClosedLeavesNothing
PROPERTIES
    StopNeverLowered
    CloseIsBooked
    AlwaysStopped
