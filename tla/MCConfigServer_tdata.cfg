\* A templated config reloaded while two handlers update its template, one of
\* them with unchanged content.
CONSTANTS
    None = None
    Handlers = {h1}
    THandlers = {t1, t2}
    Contents = {a, b}
    Templated = TRUE
    Replaces = {r1}
    Descs = {0}
    MaxVer = 2
    MaxTVer = 2
    MaxRel = 1
    Ops = {"reload", "tadd", "tupdate"}
SPECIFICATION Spec
INVARIANT RenderedFromTemplate
CHECK_DEADLOCK FALSE
