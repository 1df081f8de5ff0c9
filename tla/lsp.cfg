SPECIFICATION Spec
CONSTANTS
    P = P
    R = R
    Nobody = Nobody
    Starts = {s1, s2}
    Keys <- MCKeys
    DocumentKey <- MCDocumentKey
    MaxConcurrent = 2
    Total = 2
    MaxCommands = 5
    MaxPages = 1
INVARIANTS
    CurrentIsTrue StoreFollowsSessions
PROPERTIES
    CrashSparesSuccessor
SYMMETRY MCSymmetry
CHECK_DEADLOCK FALSE
