SPECIFICATION Spec
CONSTANTS
    Texts <- SomeTexts
    MaxAhead = 3
    MaxSaved = 2
INVARIANT PeekExact
PROPERTY TokensInOrder
CHECK_DEADLOCK FALSE
