SPECIFICATION Spec
CONSTANTS
    RingWords = 4
    Submitter = {s1}
    Window = 8
    MaxCommands = 8
PROPERTY WaitMeansDone
