SPECIFICATION Spec
CONSTANTS
    s1 = s1
    u1 = u1
    u2 = u2
    Sessions = {s1}
    SessionUploads = {u1, u2}
    DirectUploads = {v1}
    SessionOf <- MCSessionOf
    Deletions = {d1}
    Stamps = {t1, t2}
    NoKey = NoKey
    Garbage = Garbage
    MaxFaults = 1
    MaxCrashes = 1
INVARIANTS
    VersionsAreDense
    OneVersionPerSession
    BytesAreKept
    NothingIsLeftBehind
SYMMETRY MCSymmetry
CHECK_DEADLOCK FALSE
