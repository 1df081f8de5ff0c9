SPECIFICATION Spec
CONSTANTS
    A = A
    B = B
    C = C
    None = None
    Projects = {A, B, C}
    InstanceOf <- MCInstanceOfAll
    ReadOnly = {C}
    Pieces = {x1, x2}
    Prompt = TRUE
    Reopens = TRUE
    MaxOpens = 3
    MaxMoves = 2
INVARIANTS
    OwnPositions
    NothingForgotten
PROPERTIES
    NeverBack
CHECK_DEADLOCK FALSE
