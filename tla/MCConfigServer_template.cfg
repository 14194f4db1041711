\* Two handler goroutines adding and updating one template concurrently
\* (no config requests); three template versions.
CONSTANTS
    None = None
    Handlers = {}
    THandlers = {h1, h2}
    Contents = {a, b}
    MaxVer = 1
    MaxTVer = 3
    MaxRel = 1
    Templated = FALSE
    Replaces = {}
    Descs = {0}
    Ops = {"tadd", "tupdate"}
SPECIFICATION Spec
PROPERTY ImplementsTemplateHistory
CHECK_DEADLOCK FALSE
