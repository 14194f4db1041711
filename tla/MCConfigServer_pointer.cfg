\* Two handlers, one editing and one releasing the config.
CONSTANTS
    None = None
    Handlers = {h1, h2}
    THandlers = {}
    Contents = {a, b}
    MaxVer = 3
    MaxTVer = 1
    MaxRel = 2
    Templated = FALSE
    Replaces = {}
    Descs = {0}
    Ops = {"update", "release"}
SPECIFICATION Spec
INVARIANT CurrentIsNewest
CHECK_DEADLOCK FALSE
