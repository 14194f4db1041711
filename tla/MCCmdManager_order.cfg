\* One stream call: flushes of one stream, each handled by its own processResp goroutine.
CONSTANTS
    NoOne = NoOne
    Ids = {s1}
    StreamIds = {s1}
    TimedIds = {}
    MaxChunks = 2
    BufCap = 1
SPECIFICATION Spec
INVARIANT StreamInOrder
CHECK_DEADLOCK FALSE
