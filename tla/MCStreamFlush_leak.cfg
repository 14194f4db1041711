\* A followed log whose lines overfill the channel while respCmd fails; the
\* requester may close the stream afterwards.
CONSTANTS
    NumLines = 4
    MaxReadLinesNum = 2
    MaxBufferSize = 1
    Follow = TRUE
    SendMayFail = TRUE
SPECIFICATION Spec
PROPERTY ProducerExits
CHECK_DEADLOCK FALSE
