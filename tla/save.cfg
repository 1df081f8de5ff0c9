SPECIFICATION Spec
CONSTANTS
    Texts = {x, y, z}
    Gone = Gone
    MaxWrites = 3
    MaxTyped = 1
    MaxSaves = 2
INVARIANTS
    NeverQuietlyStale CheckBlamesOthers
PROPERTIES
    NothingUnseenOverwritten
SYMMETRY MCSymmetry
CHECK_DEADLOCK FALSE
