\* Two handlers updating one template concurrently.
CONSTANTS
    None = None
    Handlers = {}
    THandlers = {h1, h2}
    Contents = {a, b}
    MaxVer = 1
    MaxTVer = 3
    MaxRel = 1
    Templated = FALSE
    Replaces = {}
    Descs = {0}
    Ops = {"tadd", "tupdate"}
SPECIFICATION Spec
INVARIANT TemplateLatestIsNewest
CHECK_DEADLOCK FALSE
