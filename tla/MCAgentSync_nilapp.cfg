\* An SDK instance sends a content request right after registering.
CONSTANTS
    Ns = Ns
    Conns = {c1, c2}
    Workers = {w1, w2}
    NotifyWorkers = {n1}
    MaxDigest = 2
    ChanCap = 1
    MaxFailedCount = 1
SPECIFICATION Spec
INVARIANT NoNilAppDeref
CHECK_DEADLOCK FALSE
