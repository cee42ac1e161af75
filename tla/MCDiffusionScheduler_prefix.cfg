SPECIFICATION Spec
CONSTANTS
    r1 = r1  r2 = r2
    k1 = k1  k2 = k2
    p1 = p1
    q1 = q1  q2 = q2  q3 = q3
    b1 = b1  b2 = b2  b3 = b3  b4 = b4
    Request = {r1, r2}
    Key = {k1, k2}
    Row = {q1, q2, q3}
    Block = {b1, b2, b3, b4}
    Prefix = {p1}
    Shape <- PrefixShapes
    MaxRunning = 2
    StepMode = FALSE
    Prefetch = FALSE
    MaxAdds = 4
    NoRequest = NoRequest
    NoKey = NoKey
    NoPrefix = NoPrefix
SYMMETRY PrefixSymmetry
INVARIANTS PrefixesComputed BatchHomogeneous
