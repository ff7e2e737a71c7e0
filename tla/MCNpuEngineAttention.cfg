SPECIFICATION Spec
CONSTANTS
    NC = 1
    NPT = 9
    NG = 8
    MaxFailures = 0
INVARIANT AttendsToAll
CHECK_DEADLOCK FALSE
