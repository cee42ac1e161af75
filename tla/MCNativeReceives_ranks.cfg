SPECIFICATION NativeSpec
CONSTANTS
    r1 = r1  r2 = r2
    k1 = k1
    q1 = q1
    b1 = b1  b2 = b2
    w1 = w1  w2 = w2
    Request = {r1, r2}
    Key = {k1}
    Row = {q1}
    Block = {b1, b2}
    Prefix = {}
    Shape <- RemoteShapes
    MaxRunning = 1
    StepMode = FALSE
    Prefetch = TRUE
    MaxAdds = 2
    NoRequest = NoRequest
    NoKey = NoKey
    NoPrefix = NoPrefix
    Worker = {w1, w2}
SYMMETRY Symmetry
INVARIANTS PrefetchIdLive PrefetchNeverDrains ReportsAreCurrent RefusesOnlyReuse
PROPERTIES LockFreeStepsKeepQueue
