\* One agent on two connections (a reconnect), one SDK connection that may
\* leave, a new version of the file, up to two reports.
CONSTANTS
    NoKey = NoKey
    Absent = Absent
    Tags = {t1, t2}
    Keys = {k1}
    Sdks = {s1}
    Digests = {d1, d2}
    MaxRegs = 1
    MaxUpdates = 1
    MaxReports = 2
    SdkLeaves = TRUE
SPECIFICATION InstSpec
INVARIANT InstTypeOK
CHECK_DEADLOCK FALSE
