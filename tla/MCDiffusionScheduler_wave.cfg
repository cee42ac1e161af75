SPECIFICATION Spec
CONSTANTS
    r1 = r1  r2 = r2
    k1 = k1  k2 = k2
    p1 = p1
    q1 = q1  q2 = q2  q3 = q3
    b1 = b1  b2 = b2  b3 = b3  b4 = b4
    Request = {r1, r2}
    Key = {k1, k2}
    Row = {q1, q2}
    Block = {b1, b2, b3}
    Prefix = {}
    Shape <- WaveShapes
    MaxRunning = 2
    StepMode = TRUE
    Prefetch = FALSE
    MaxAdds = 3
    NoRequest = NoRequest
    NoKey = NoKey
    NoPrefix = NoPrefix
SYMMETRY Symmetry
INVARIANTS TypeOK WritesOwned ReceivesAccounted RowsHeld
    SurfacedIsFinished NoStrandedResult BatchHomogeneous QueuePartition
PROPERTIES FifoOrder ReleaseIsSafe
