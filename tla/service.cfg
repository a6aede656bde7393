SPECIFICATION Spec
CONSTANTS
    Length = 3
    InputNodes = {1, 3}
    Starter = start
    Resumes = {r1, r2}
    Cancels = {c1}
    Absent = absent
    MaxLostSaves = 1
    MaxCrashes = 1
INVARIANTS
    TypeOK
    SingleWorker
    RunningHasOwner
PROPERTIES
    CancelSticks
    FreshWritesFollowFlow
    EventuallySettles
    AcceptedResumeRuns
CHECK_DEADLOCK FALSE
