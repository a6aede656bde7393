CONSTANTS
    w1 = w1
    w2 = w2
    p1 = p1
    Callers = {w1, w2, p1}
    Workers = {w1, w2}
    Kinds = {"text", "blank", "scanned"}
    MaxTasks = 2
    MaxFaults = 1
    MaxDemands = 2
SPECIFICATION Spec
INVARIANTS
    TypeOK
    SearchableWhenSucceeded
    RetriesAreBounded
    NoOrphanTask
    NoStuckTask
    NoLostJob
CHECK_DEADLOCK FALSE
