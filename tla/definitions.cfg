SPECIFICATION Spec
CONSTANTS
    r1 = r1
    r2 = r2
    r3 = r3
    s1 = s1
    s2 = s2
    s3 = s3
    Edits = {r1, r2, r3}
    Starts = {s1, s2, s3}
    FirstDsl = dsl
    Gone = gone
    Limits <- MCLimits
    MaxTime = 2
INVARIANTS
    ShownDslIsDraft
    OnlyRacesAreRefused
    AdmissionsAreLimited
PROPERTY
    ImplementsHistory
SYMMETRY MCSymmetry
CHECK_DEADLOCK FALSE
