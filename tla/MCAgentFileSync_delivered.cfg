\* As MCAgentFileSync.cfg without ReleaseNamespace; DeliveredEventually
\* fails: a released version replaced by a 404 marker stays so until the next connection.
CONSTANTS
    f1 = f1
    f2 = f2
    Files <- MCOneFile
    MaxVer = 1
    MaxConnects = 3
    MaxRestarts = 1
    MaxNsReleases = 0
    SdkInit <- MCSdkNone
SPECIFICATION Spec
PROPERTY DeliveredEventually
CHECK_DEADLOCK FALSE
