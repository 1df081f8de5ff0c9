SPECIFICATION Spec
CONSTANTS
    P = P
    Q = Q
    R1 = R1
    R2 = R2
    NoFolder = NoFolder
    Starts = {s1, s2}
    Folders <- MCFolders
    Caps <- MCCaps
    EarlyLimit = 3
    MaxPages = 1
    MaxOpens = 2
    Prompt = TRUE
INVARIANTS
    CapsHold SweptNeverLive QuitLeavesNothing NobodyForgotten
SYMMETRY MCSymmetry
CHECK_DEADLOCK FALSE
