SPECIFICATION Spec
CONSTANTS
    Comment = {c1, c2, c3}
    Terse = {c2}
    Noise = {c3}
    Folded = {c3}
    Modes = {"html", "praw"}
    MaxFailures = 2
INVARIANTS TypeOK
PROPERTIES CommittedKeepsAll CommentsArrive
