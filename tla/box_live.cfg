SPECIFICATION FairSpec
CONSTANTS
    A = A
    B = B
    C = C
    None = None
    Projects = {A}
    InstanceOf <- MCInstanceOfOne
    ReadOnly = {}
    Pieces = {x1, x2}
    Prompt = TRUE
    Reopens = FALSE
    MaxOpens = 1
    MaxMoves = 3
PROPERTIES
    MovesSaved
CHECK_DEADLOCK FALSE
