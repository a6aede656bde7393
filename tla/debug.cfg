SPECIFICATION Spec
CONSTANTS
    Id <- MCId
    Handle <- MCHandle
    NoHandle = ""
    Graphs <- MCGraphs
    None = None
    Clients = {c1, c2}
INVARIANTS
    StoredIsOneRun
    NothingLeftReady
SYMMETRY MCSymmetry
CHECK_DEADLOCK FALSE
