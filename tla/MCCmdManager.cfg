\* Safety of the per-id lock protocol and of the close sub-protocol, with a
\* data call and a stream call in flight together; both calls are timed.
CONSTANTS
    NoOne = NoOne
    Ids = {d1, s1}
    StreamIds = {s1}
    TimedIds = {d1, s1}
    MaxChunks = 3
    BufCap = 1
SPECIFICATION Spec
INVARIANT TypeOK
PROPERTY NoWriteAfterClose
CHECK_DEADLOCK FALSE
