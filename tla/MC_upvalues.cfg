SPECIFICATION Spec
CONSTANTS
    Var = {v1,v2,v3}
    Third = {v3,k3,u3}
    Plain = {x}
    Closure = {k1,k2,k3}
    Up = {u1,u2,u3}
    Nobody = Nobody
    Unset = Unset
    Invalid = Invalid
    ScriptTailCall = FALSE
    MaxStack = 4
    MaxFrames = 3
    MaxMachines = 2
    MaxParams = 1
SYMMETRY Symmetry
CONSTRAINT Small
INVARIANTS
    TypeOK
    OpenListSorted
    OneUpvaluePerVariable
    OpenUpvaluesOnTheirStack
PROPERTY CapturesKeepValues
CHECK_DEADLOCK FALSE
