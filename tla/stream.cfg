SPECIFICATION Spec
CONSTANTS
    Connections = {x1, x2}
    Run = run
    Cancels = {k1}
    NoTarget = none
    MaxSnapshots = 5
    MaxHangups = 1
    MaxAudience = 1
INVARIANTS
    TypeOK
    OnlyEndingsPanic
    NewestKept
PROPERTIES
    ImplementsFeed
    EndingCloses
CHECK_DEADLOCK FALSE
