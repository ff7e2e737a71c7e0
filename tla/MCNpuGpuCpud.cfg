SPECIFICATION Spec
CONSTANTS
    Models <- MCModels
    MaxPolls = 2
    MaxSignals = 2
CHECK_DEADLOCK FALSE
INVARIANTS TypeOK CleanExitMeansStopped
PROPERTIES CallsReturn PromptChildrenAreStopped PromptSignalEnds
