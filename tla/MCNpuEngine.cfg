SPECIFICATION Spec
CONSTANTS
    NC = 2
    NPT = 9
    NG = 8
    MaxFailures = 1
INVARIANT TypeOK
INVARIANT CacheIsComplete
INVARIANT ReadsInBounds
INVARIANT ResultsAreFresh
PROPERTY Finishes
CHECK_DEADLOCK FALSE
