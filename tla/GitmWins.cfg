SPECIFICATION MCSpec
CONSTANTS
    Size = 19
    Win = 5
    Reach = 3
    BUFFER_LEN = 50
    HISTORY_LEN = 1500
    Distances = {50}
    Cuts = {0, 1}
    Coordinates <- CornerCoordinates
    Openings <- LargeOpenings
INVARIANT
    WinsAreLines
