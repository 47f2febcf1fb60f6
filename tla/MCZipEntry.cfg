CONSTANTS
    r1 = r1
    r2 = r2
    None = None
    Readers <- MCReaders
    Size = 4
    Interval = 2
    Large = TRUE
    Chunk = 2
    Kinds <- MCKinds
    Requests <- MCRequests
SPECIFICATION FairSpec
INVARIANTS ReadsExact
PROPERTIES IndexGrows CallsReturn
