CONSTANTS
    Threads = {t1, t2}
    Places <- MCPlaces
    PageSize = 2
    Lens = {1, 3}
    Offsets <- MCOffsets
    MaxPos = 6
SYMMETRY MCSymmetry
SPECIFICATION Spec
INVARIANTS LinksTruthful
PROPERTIES ImplementsReader
CHECK_DEADLOCK FALSE
