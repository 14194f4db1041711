\* Two file workers take successive versions of the file.
CONSTANTS
    Ns = Ns
    Conns = {c1, c2}
    Workers = {w1, w2}
    NotifyWorkers = {n1}
    MaxDigest = 2
    ChanCap = 1
    MaxFailedCount = 1
SPECIFICATION Spec
INVARIANT FileMapperTracksDisk
CHECK_DEADLOCK FALSE
