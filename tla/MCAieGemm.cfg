SPECIFICATION Spec
CONSTANTS
    AieRows = 2
    Cols = 2
    RowTiles = 4
    ColTiles = 6
    KTiles = 2
    Depth = 2
INVARIANTS TypeOK TileIsOfItsGroup FreedTasksAreRead GroupsInFlight
PROPERTY SequenceEnds
CHECK_DEADLOCK FALSE
