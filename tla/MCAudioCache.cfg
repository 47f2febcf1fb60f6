CONSTANTS
    r1 = r1
    r2 = r2
    Readers <- MCReaders
    Requests <- MCRequests
    ServeRequests <- MCServeRequests
    Size = 7
    Actual = 5
    BlockSize = 2
    Faults = TRUE
SPECIFICATION ACSpec
INVARIANTS BlocksTruthful ServedExact FetchesOnlyMissing
PROPERTIES ReadReturns ImplementsRangeServer ServingImplementsRangeServer
