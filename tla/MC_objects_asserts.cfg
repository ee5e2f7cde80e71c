SPECIFICATION Spec
CONSTANTS
    a = a
    b = b
    x = x
    y = y
    Key = {a, b}
    Const = {x, y}
    Null = Null
    None = None
    Failure = Failure
    Literals <- SomeLiterals
    Programs <- PassingPrograms
    MaxNodes = 4
    MaxRead = 4
    MaxCache = 2
CONSTRAINT LiteralsFirst
INVARIANT ManifestedAssertionsHold
CHECK_DEADLOCK FALSE
