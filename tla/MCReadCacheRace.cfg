CONSTANTS
    r1 = r1
    r2 = r2
    Readers <- MCReaders
    Requests <- MCRaceRequests
    Size = 5
    Actual = 5
    BlockSize = 2
    Faults = FALSE
SPECIFICATION Spec
INVARIANTS FailsOnlyFromBelow
