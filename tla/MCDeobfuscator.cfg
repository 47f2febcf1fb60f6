CONSTANTS
    V = 2
    Lengths <- MCLengths
    Requests <- MCRequests
    Chunk = 2
CHECK_DEADLOCK FALSE
SPECIFICATION Spec
INVARIANTS CompleteOnSuccess ClearedExactly
PROPERTIES StreamEnds
