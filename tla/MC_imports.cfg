SPECIFICATION Spec
CONSTANTS
    File = {f, g}
    Handle = {h1, h2, h3, h4}
    None = None
    Programs <- PassingPrograms
    MaxHeld = 2
SYMMETRY Symmetry
CONSTRAINT Small
INVARIANTS
    TypeOK
    EvaluatingExact
    CyclesDetected
    ImportersProtected
    CachedFieldsLive
PROPERTY ValueOfImportStable
CHECK_DEADLOCK FALSE
