SPECIFICATION FairSpec
CONSTANTS
    A = A
    B = B
    x = x
    y = y
    z = z
    v = v
    Comp = {A, B}
    Obj = {x, z}
    Deps <- CrossingDeps
    Proc <- CrossingProc
    Touch <- CrossingTouch
    MaxPass = 2
INVARIANT TeardownLast
PROPERTY Completes
CHECK_DEADLOCK FALSE
