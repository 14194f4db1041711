\* The agent's FSStorage: the download worker storing a version while a
\* refresh stores the 404 marker.  AtRestConsistent fails: the metadata of
\* one Put is left over the data of the other.
CONSTANTS
    Writers = {w1, w2}
    Readers = {r1}
    Contents = {v1, v2, marker}
    Marker = marker
    Cas = FALSE
    MaxPuts = 2
    MaxCrashes = 0
SPECIFICATION Spec
INVARIANT AtRestConsistent
