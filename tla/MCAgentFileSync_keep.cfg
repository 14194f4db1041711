\* As MCAgentFileSync.cfg without ReleaseNamespace; KeepsReleasedCopy fails:
\* a refresh answered before the release committed stores the 404 marker over the downloaded copy.
CONSTANTS
    f1 = f1
    f2 = f2
    Files <- MCOneFile
    MaxVer = 1
    MaxConnects = 3
    MaxRestarts = 1
    MaxNsReleases = 0
    SdkInit <- MCSdkNone
SPECIFICATION Spec
PROPERTY KeepsReleasedCopy
CHECK_DEADLOCK FALSE
