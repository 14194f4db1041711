\* Two handlers editing the config at the same time.
CONSTANTS
    None = None
    Handlers = {h1, h2}
    THandlers = {}
    Contents = {a, b}
    MaxVer = 2
    MaxTVer = 1
    MaxRel = 1
    Templated = FALSE
    Replaces = {}
    Descs = {0}
    Ops = {"update"}
SPECIFICATION Spec
INVARIANT VersionDataIntact
CHECK_DEADLOCK FALSE
