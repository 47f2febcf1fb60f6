CONSTANTS
    MaxNodes = 5
    Kinds <- AllKinds
    Marks <- MCMarks
    Annotated <- MCAnnotated
    N = 3
    MaxSize = 2
    Shapes <- MCShapes
SPECIFICATION PCSpec
INVARIANTS NothingLost ElementsAreRuns StartsAtBlock GuidesComplete
PROPERTIES ImplementsCursor
CHECK_DEADLOCK FALSE
