\* Two SDK instances of one app, one file worker, one notify worker, two
\* versions of the file; a notification is given up after two failures.
CONSTANTS
    Ns = Ns
    Conns = {c1, c2}
    Workers = {w1}
    NotifyWorkers = {n1}
    MaxDigest = 2
    ChanCap = 1
    MaxFailedCount = 1
SPECIFICATION Spec
INVARIANT TypeOK
PROPERTY NotifyResolved
CHECK_DEADLOCK FALSE
