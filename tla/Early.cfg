SPECIFICATION Spec
CONSTANTS
    A = A
    B = B
    x = x
    y = y
    z = z
    v = v
    Comp = {A, B}
    Obj = {x, y, z}
    Deps <- EarlyDeps
    Proc <- EarlyProc
    Touch <- EarlyTouch
    MaxPass = 2
INVARIANT TpointReturnsComplete
CHECK_DEADLOCK FALSE
