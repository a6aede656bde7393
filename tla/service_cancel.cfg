SPECIFICATION Spec
CONSTANTS
    Length = 2
    InputNodes = {1, 2}
    Starter = start
    Resumes = {r1}
    Cancels = {c1}
    Absent = absent
    MaxLostSaves = 0
    MaxCrashes = 0
PROPERTY CancelledIsFinal
CHECK_DEADLOCK FALSE
