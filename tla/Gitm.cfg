SPECIFICATION MCSpec
CONSTANTS
    Size = 4
    Win = 3
    Reach = 1
    BUFFER_LEN = 10
    HISTORY_LEN = 49
    Distances <- SmallDistances
    Cuts <- SmallCuts
    Coordinates <- SmallCoordinates
    Openings <- SmallOpenings
INVARIANTS
    BoardIsHistory
    HistoryFits
    ViewShowsMoves
    RowsAndColumnsWin
    LinesSeen
    TiesAreReal
