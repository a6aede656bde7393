SPECIFICATION Spec
CONSTANTS
    Id <- MCId
    Handle <- MCHandle
    NoHandle = ""
    Graphs <- OnlyUnreachable
    None = "none"
INVARIANT UnreachableIsSkipped
CHECK_DEADLOCK FALSE
