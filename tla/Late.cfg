SPECIFICATION Spec
CONSTANTS
    A = A
    B = B
    x = x
    y = y
    z = z
    v = v
    Comp = {A, B}
    Obj = {y}
    Deps <- LateDeps
    Proc <- LateProc
    Touch <- LateTouch
    MaxPass = 2
INVARIANT NoLateSubscription
CHECK_DEADLOCK FALSE
