\* One handler: edits and a re-import of the config with new content.
CONSTANTS
    None = None
    Handlers = {h1}
    THandlers = {}
    Contents = {a, b}
    MaxVer = 2
    MaxTVer = 1
    MaxRel = 1
    Templated = FALSE
    Replaces = {}
    Descs = {0}
    Ops = {"update", "import"}
SPECIFICATION Spec
INVARIANT VersionDataIntact
CHECK_DEADLOCK FALSE
