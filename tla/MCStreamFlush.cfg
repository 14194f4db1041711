\* A followed log with five lines, batches of two, a channel of two; the
\* requester may close the stream at any time and respCmd may fail.
CONSTANTS
    NumLines = 5
    MaxReadLinesNum = 2
    MaxBufferSize = 2
    Follow = TRUE
    SendMayFail = TRUE
SPECIFICATION Spec
INVARIANT TypeOK
PROPERTY ImplementsBatchedStream
PROPERTY EveryLineFlushed
CHECK_DEADLOCK FALSE
