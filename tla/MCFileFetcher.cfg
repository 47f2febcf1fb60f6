CONSTANTS
    f1 = f1
    f2 = f2
    t1 = t1
    t2 = t2
    Res <- MCRes
    Threads <- MCThreads
SPECIFICATION FairSpec
INVARIANTS WeakListBounded ReleasedAfterClose ReadsSurviveCollection
PROPERTIES DroppedHandleCloses
