\* As MCConfigInstances.cfg, the SDK staying; InstancesTrackSdks fails: two
\* reports of different versions are applied out of order; the older one is written last.
CONSTANTS
    NoKey = NoKey
    Absent = Absent
    Tags = {t1, t2}
    Keys = {k1}
    Sdks = {s1}
    Digests = {d1, d2}
    MaxRegs = 1
    MaxUpdates = 1
    MaxReports = 2
    SdkLeaves = FALSE
SPECIFICATION InstSpec
INVARIANT InstancesTrackSdks
CHECK_DEADLOCK FALSE
