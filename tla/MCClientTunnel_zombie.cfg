\* The stale entry: a register command handled after the server saw ConnEnd
\* for its transport stays in the registry for good.
CONSTANTS
    Agent = Agent
    NoKey = NoKey
    Absent = Absent
    Slots = {g1, g2, g3}
    MaxTr = 3
    MaxFails = 1
    MaxCalls = 1
SPECIFICATION Spec
PROPERTY RoutesOnlyLive
CHECK_DEADLOCK FALSE
