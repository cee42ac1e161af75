SPECIFICATION EngineSafe
CONSTANTS
    r1 = r1  r2 = r2
    k1 = k1
    q1 = q1  q2 = q2
    b1 = b1  b2 = b2
    Request = {r1}
    Key = {k1}
    Row = {q1}
    Block = {b1}
    Prefix = {}
    Shape <- RemoteShapes
    MaxRunning = 1
    StepMode = FALSE
    Prefetch = FALSE
    MaxAdds = 1
    NoRequest = NoRequest
    NoKey = NoKey
    NoPrefix = NoPrefix

INVARIANTS ShutdownOnce
