SPECIFICATION Spec
CONSTANTS
    Models <- MCFewModels
    MaxPolls = 2
    MaxSignals = 0
CHECK_DEADLOCK FALSE
INVARIANT ChatReachesBackend
