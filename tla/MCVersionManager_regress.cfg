\* Two releases: the first download fails, the second succeeds.
CONSTANTS
    MaxVersion = 2
    MaxAdds = 2
    MaxFailedThreshold = 1
SPECIFICATION Spec
PROPERTY NeverRegress
CHECK_DEADLOCK FALSE
