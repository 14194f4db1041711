\* The agent's FSStorage: one writer storing two versions, one reader.
\* ImplementsAtomicStore fails: a read takes the metadata of one version and
\* the data file of the next.
CONSTANTS
    Writers = {w1}
    Readers = {r1}
    Contents = {v1, v2}
    Marker = marker
    Cas = FALSE
    MaxPuts = 2
    MaxCrashes = 0
SPECIFICATION Spec
PROPERTY ImplementsAtomicStore
