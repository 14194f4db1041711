\* One user with the reader and custom roles; a read route with a path
\* parameter that the custom role restricts, the excluded docs route and a
\* write route; two auth service calls fail; one manager restart.
CONSTANTS
    Users = {u1}
    Editors = {}
    Readers = {u1}
    Customs = {u1}
    GetRoutes = {rApp, rDoc}
    PutRoutes = {rEdit}
    Excluded = {rDoc}
    Keys = {app}
    Values = {v1, v2}
    CustomRoutes = {rApp}
    CustomValues = {v1}
    AuthSkip = FALSE
    MaxFails = 2
    MaxRestarts = 1
    Star = Star
SPECIFICATION Spec
INVARIANT TypeOK
INVARIANT FilterSound
INVARIANT UploadRelates
CHECK_DEADLOCK FALSE
