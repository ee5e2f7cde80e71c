SPECIFICATION Spec
CONSTANTS
    File = {f}
    Handle = {h1, h2}
    None = None
    Programs <- CachingPrograms
    MaxHeld = 2
SYMMETRY Symmetry
INVARIANT CachedFieldsLive
CHECK_DEADLOCK FALSE
