SPECIFICATION Spec
CONSTANTS
    Length = 2
    InputNodes = {1, 2}
    Starter = start
    Resumes = {r1, r2}
    Cancels = {}
    Absent = absent
    MaxLostSaves = 0
    MaxCrashes = 0
PROPERTY FinishedIsFinal
CHECK_DEADLOCK FALSE
