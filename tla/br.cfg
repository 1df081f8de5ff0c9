SPECIFICATION FairSpec
CONSTANTS
    Calls = {l1}
    Bridges = {b1, b2}
    Lasting = {l1}
    MaxPending = 1
    MaxHeld = 1
    MaxDeliveries = 2
    MaxEpoch = 2
    MaxChanges = 2
INVARIANTS
    TableIsTrue
    SidesAgree
PROPERTIES
    KeepsContract
    CallsReturn
    EditorConnects
CHECK_DEADLOCK FALSE
