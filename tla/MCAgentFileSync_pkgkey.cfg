\* As MCAgentFileSync.cfg with two ReleaseNamespace calls; PackageAckQueued
\* fails: the package's downloadMap key outlives its download, so a retried
\* release of the same package is merged away and committed.
CONSTANTS
    f1 = f1
    f2 = f2
    Files <- MCOneFile
    MaxVer = 1
    MaxConnects = 3
    MaxRestarts = 1
    MaxNsReleases = 2
    SdkInit <- MCSdkNone
SPECIFICATION Spec
PROPERTY PackageAckQueued
CHECK_DEADLOCK FALSE
