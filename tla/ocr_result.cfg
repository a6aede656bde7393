CONSTANTS
    w1 = w1
    w2 = w2
    p1 = p1
    Callers = {p1}
    Workers = {}
    Kinds = {"scanned"}
    MaxTasks = 1
    MaxFaults = 0
    MaxDemands = 2
SPECIFICATION Spec
INVARIANT FinishedHasResult
CHECK_DEADLOCK FALSE
