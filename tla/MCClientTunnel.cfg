\* One agent, up to two failures, five transports, three stream goroutines
\* alive at once, one manager request.  The agent legitimately idles once
\* connected and the requests are spent, hence no deadlock check.
CONSTANTS
    Agent = Agent
    NoKey = NoKey
    Absent = Absent
    Slots = {g1, g2, g3}
    MaxTr = 3
    MaxFails = 1
    MaxCalls = 1
SPECIFICATION Spec
INVARIANT TypeOK
PROPERTY AgentReachable ResponseSent
CHECK_DEADLOCK FALSE
