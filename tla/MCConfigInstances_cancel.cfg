\* As MCConfigInstances.cfg; InstancesTrackSdks fails: the OnReady report and
\* the SDK's appcancel are handled out of order and the row outlives the SDK.
CONSTANTS
    NoKey = NoKey
    Absent = Absent
    Tags = {t1, t2}
    Keys = {k1}
    Sdks = {s1}
    Digests = {d1, d2}
    MaxRegs = 1
    MaxUpdates = 1
    MaxReports = 2
    SdkLeaves = TRUE
SPECIFICATION InstSpec
INVARIANT InstancesTrackSdks
CHECK_DEADLOCK FALSE
