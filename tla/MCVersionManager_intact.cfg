\* One release whose download delivers a body that does not match its digest.
CONSTANTS
    MaxVersion = 1
    MaxAdds = 1
    MaxFailedThreshold = 1
SPECIFICATION Spec
INVARIANT LatestIntact
CHECK_DEADLOCK FALSE
