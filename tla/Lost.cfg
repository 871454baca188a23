SPECIFICATION Spec
CONSTANTS
    A = A
    B = B
    x = x
    y = y
    z = z
    v = v
    Comp = {A, B}
    Obj = {v, x, y, z}
    Deps <- CrowdDeps
    Proc <- CrowdProc
    Touch <- CrowdTouch
    MaxPass = 2
PROPERTY QueueKept
CHECK_DEADLOCK FALSE
