SPECIFICATION Spec
CONSTANTS
    Id <- MCId
    Handle <- MCHandle
    NoHandle = ""
    Graphs <- MCGraphs
    None = "none"
INVARIANTS
    TypeOK
    WaitingCoherent
    ArrivedIsHistory
    JoinRespected
    NothingLost
    LoopDetectionUnreachable
PROPERTIES
    SucceededOnce
    SegmentReturns
    ImplementsDataflow
CHECK_DEADLOCK FALSE
