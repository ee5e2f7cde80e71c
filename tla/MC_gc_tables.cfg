SPECIFICATION Spec
CONSTANTS
    Handle = {h1,h2,h3,h4}
    Content = {c1,c2}
    Kinds = {"String","Import","Object","Array","Binary"}
    None = None
    StressGC = FALSE
    InitThreshold = 2
    MaxEdges = 2
    MaxGrowth = 1
    MaxExternal = 1
SYMMETRY Symmetry
CONSTRAINT TablesOrGrowth
INVARIANTS
    TypeOK
    InterningExact
    ImportTableExact
    SweepCanReadPaths
    NeverOvercounted
CHECK_DEADLOCK FALSE
