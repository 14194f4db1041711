\* One handler editing and releasing; the agent answers late or not at all.
CONSTANTS
    None = None
    Handlers = {h1}
    THandlers = {}
    Contents = {a, b}
    MaxVer = 2
    MaxTVer = 1
    MaxRel = 1
    Templated = FALSE
    Replaces = {}
    Descs = {0}
    Ops = {"update", "release"}
SPECIFICATION Spec
INVARIANT AgentRunsReleased
CHECK_DEADLOCK FALSE
