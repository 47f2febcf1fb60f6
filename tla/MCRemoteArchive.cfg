CONSTANTS
    p1 = p1
    p2 = p2
    None = None
    Procs <- MCProcs
    Size = 16
    HeaderLen = 2
    HeaderPieces <- MCHeaderPieces
    Entries <- MCEntries
    Requests <- MCRequests
    CountThreshold = 2
    SizeThreshold = 2
    Archives <- MCArchives
    TailSize = 4
    EndBlock1 = 1
    EndBlock2 = 4
    Chunk = 2
SPECIFICATION RASpec
INVARIANTS CacheTruthful ReadsExact ResponsesClosed AnswersExact
PROPERTIES Opens
SYMMETRY Symmetry
CHECK_DEADLOCK FALSE
