\* One stream call and a user who closes it while flushes are still arriving.
CONSTANTS
    NoOne = NoOne
    Ids = {s1}
    StreamIds = {s1}
    TimedIds = {}
    MaxChunks = 3
    BufCap = 1
SPECIFICATION Spec
PROPERTY CloseReachesResponder
CHECK_DEADLOCK FALSE
