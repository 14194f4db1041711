\* Two handlers running edits, releases and imports concurrently, lock waits and
\* InnoDB deadlocks included.
CONSTANTS
    None = None
    Handlers = {h1, h2}
    THandlers = {}
    Contents = {a, b}
    MaxVer = 2
    MaxTVer = 1
    MaxRel = 1
    Templated = FALSE
    Replaces = {}
    Descs = {0}
    Ops = {"update", "release", "import"}
SPECIFICATION Spec
PROPERTY HandlersReturn
CHECK_DEADLOCK FALSE
