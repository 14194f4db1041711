\* Two stream calls served concurrently by the responder's processReq
\* goroutines, both saving their stream in executor.streams.
CONSTANTS
    NoOne = NoOne
    Ids = {s1, s2}
    StreamIds = {s1, s2}
    TimedIds = {}
    MaxChunks = 1
    BufCap = 1
SPECIFICATION Spec
INVARIANT ExecMapExclusive
CHECK_DEADLOCK FALSE
