\* As MCAuth.cfg; FilterAsIntended fails: a reader is refused a read route
\* because the custom role restricts it, and a restricted resource that
\* allows the request still refuses it.
CONSTANTS
    Users = {u1}
    Editors = {}
    Readers = {u1}
    Customs = {u1}
    GetRoutes = {rApp, rDoc}
    PutRoutes = {rEdit}
    Excluded = {rDoc}
    Keys = {app}
    Values = {v1, v2}
    CustomRoutes = {rApp}
    CustomValues = {v1}
    AuthSkip = FALSE
    MaxFails = 2
    MaxRestarts = 1
    Star = Star
SPECIFICATION Spec
INVARIANT FilterAsIntended
CHECK_DEADLOCK FALSE
