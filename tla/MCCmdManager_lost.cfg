\* One untimed data call: a reply arriving before waitForResp registers the buffer.
CONSTANTS
    NoOne = NoOne
    Ids = {d1}
    StreamIds = {}
    TimedIds = {}
    MaxChunks = 1
    BufCap = 1
SPECIFICATION Spec
INVARIANT NoReplyLost
CHECK_DEADLOCK FALSE
