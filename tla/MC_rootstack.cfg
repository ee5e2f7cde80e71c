SPECIFICATION Spec
CONSTANTS
    Token = {t1, t2, t3, t4, t5}
    Nothing = Nothing
    MaxOpen = 3
SYMMETRY Symmetry
INVARIANTS
    OpenBracketsProtected
    LeaksAccounted
CHECK_DEADLOCK FALSE
