\* The manager's cas.Storage: two handlers storing two contents into one
\* path (as two UpdateConfigs of one version do), two readers, a restart.
CONSTANTS
    Writers = {w1, w2}
    Readers = {r1, r2}
    Contents = {v1, v2}
    Marker = marker
    Cas = TRUE
    MaxPuts = 3
    MaxCrashes = 1
SPECIFICATION Spec
INVARIANT AtRestConsistent
PROPERTY ImplementsAtomicStore
