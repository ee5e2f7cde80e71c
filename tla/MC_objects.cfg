SPECIFICATION Spec
CONSTANTS
    a = a
    b = b
    x = x
    y = y
    Key = {a, b}
    Const = {x, y}
    Null = Null
    None = None
    Failure = Failure
    Literals <- SomeLiterals
    Programs <- PassingPrograms
    MaxNodes = 5
    MaxRead = 4
    MaxCache = 2
CONSTRAINT LiteralsFirst
INVARIANTS
    TypeOK
    FieldsResolve
    VisibilityExact
    CacheExact
    ManifestExact
    AssertionsNotLost
CHECK_DEADLOCK FALSE
