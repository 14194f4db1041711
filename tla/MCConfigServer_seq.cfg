\* A templated config and its template, one config and one template handler:
\* template adds and updates, config edits, template reloads, releases with
\* every agent answer, and rollbacks.
CONSTANTS
    None = None
    Handlers = {h1}
    THandlers = {t1}
    Contents = {a, b}
    Templated = TRUE
    Replaces = {r1}
    Descs = {0, 1}
    MaxVer = 4
    MaxTVer = 2
    MaxRel = 3
    Ops = {"update", "release", "rollback", "reload", "tadd", "tupdate"}
SPECIFICATION Spec
INVARIANT VersionDataIntact RenderedFromTemplate
PROPERTY ImplementsConfigHistory
CHECK_DEADLOCK FALSE
