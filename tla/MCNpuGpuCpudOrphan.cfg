SPECIFICATION Spec
CONSTANTS
    Models <- MCFewModels
    MaxPolls = 2
    MaxSignals = 1
CHECK_DEADLOCK FALSE
PROPERTY NoOrphanAfterServing
