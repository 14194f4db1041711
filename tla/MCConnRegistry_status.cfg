\* One agent that reconnects: two connections dialled by the same agent.
CONSTANTS
    NoKey = NoKey
    Absent = Absent
    Tags = {t1, t2}
    Keys = {k1}
    MaxRegs = 1
SPECIFICATION Spec
INVARIANT StatusTracksRegistry
CHECK_DEADLOCK FALSE
