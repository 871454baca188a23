SPECIFICATION FairSpec
CONSTANTS
    A = A
    B = B
    x = x
    y = y
    z = z
    v = v
    Comp = {A, B}
    Obj = {x, y}
    Deps <- ExchangeDeps
    Proc <- ExchangeProc
    Touch <- ExchangeTouch
    MaxPass = 2
INVARIANTS TypeOK OncePerPass ActiveOnce NoMissedSignal BufferExclusive TpointReturnsComplete NoThirdPass
PROPERTIES Implements Completes
CHECK_DEADLOCK FALSE
