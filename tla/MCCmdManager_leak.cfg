\* One stream call whose flushes all fit in the response buffer, so the
\* close reaches the responder; does the executor then drop its entry?
CONSTANTS
    NoOne = NoOne
    Ids = {s1}
    StreamIds = {s1}
    TimedIds = {}
    MaxChunks = 2
    BufCap = 3
SPECIFICATION Spec
PROPERTY StreamReleased
CHECK_DEADLOCK FALSE
