\* Three releases, a repeated release command, and a task given up after
\* more than two failures.
CONSTANTS
    MaxVersion = 3
    MaxAdds = 4
    MaxFailedThreshold = 2
SPECIFICATION Spec
INVARIANT TypeOK
INVARIANT TaskNeverLost
PROPERTY FailuresDrain
CHECK_DEADLOCK FALSE
