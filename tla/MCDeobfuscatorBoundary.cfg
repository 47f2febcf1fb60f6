CONSTANTS
    V = 2
    Lengths <- MCLong
    Requests <- MCBoundary
    Chunk = 2
CHECK_DEADLOCK FALSE
SPECIFICATION Spec
INVARIANTS CompleteOnSuccess
