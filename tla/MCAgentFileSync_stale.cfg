\* Two versions, two connections; NoStaleOverwrite fails: a refresh queues
\* the released version behind a newer release's download.
CONSTANTS
    f1 = f1
    f2 = f2
    Files <- MCOneFile
    MaxVer = 2
    MaxConnects = 2
    MaxRestarts = 1
    MaxNsReleases = 0
    SdkInit <- MCSdkNone
SPECIFICATION Spec
PROPERTY NoStaleOverwrite
CHECK_DEADLOCK FALSE
