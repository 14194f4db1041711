\* As MCConfigInstances.cfg, the SDK staying and no new version;
\* InstancesTrackSdks fails: a report lost with the old connection is never sent again.
CONSTANTS
    NoKey = NoKey
    Absent = Absent
    Tags = {t1, t2}
    Keys = {k1}
    Sdks = {s1}
    Digests = {d1, d2}
    MaxRegs = 1
    MaxUpdates = 0
    MaxReports = 2
    SdkLeaves = FALSE
SPECIFICATION InstSpec
INVARIANT InstancesTrackSdks
CHECK_DEADLOCK FALSE
