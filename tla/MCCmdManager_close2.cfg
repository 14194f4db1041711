\* A data call and a stream call; the user may call Close once more on a
\* Resp that has already been closed or returned.
CONSTANTS
    NoOne = NoOne
    Ids = {d1, s1}
    StreamIds = {s1}
    TimedIds = {}
    MaxChunks = 1
    BufCap = 1
SPECIFICATION Spec
PROPERTY CloseReturns
CHECK_DEADLOCK FALSE
