SPECIFICATION LiveSpec
CONSTANTS
    RingWords = 8
    Submitter = {s1}
    Window = 2
    MaxCommands = 9
INVARIANTS TypeOK PacketsInOrder
PROPERTIES WaitMeansDone QueueSpec
