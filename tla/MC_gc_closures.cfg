SPECIFICATION Spec
CONSTANTS
    Handle = {1,2,3}
    Content = {c1}
    Kinds = {"Function","Closure","Upvalue","NativeThunk"}
    None = None
    StressGC = TRUE
    InitThreshold = 2
    MaxEdges = 1
    MaxGrowth = 0
    MaxExternal = 1
CONSTRAINT InOrder
INVARIANTS
    NoDanglingHandle
    MarkedIsReachable
PROPERTY CollectionEnds
CHECK_DEADLOCK FALSE
