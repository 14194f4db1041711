\* One file, one version (released, or rolled back and retried, by
\* ReleaseConfig or by one ReleaseNamespace), two tunnel connections
\* (disconnects or a restart between them), one restart.
CONSTANTS
    f1 = f1
    f2 = f2
    Files <- MCOneFile
    MaxVer = 1
    MaxConnects = 2
    MaxRestarts = 1
    MaxNsReleases = 1
    SdkInit <- MCSdkNone
SPECIFICATION Spec
INVARIANT TypeOK
PROPERTY ReconnectRepairs
CHECK_DEADLOCK FALSE
